----------------------------- MODULE MCAgentTurns -----------------------------
(***************************************************************************)
(* The parts of an agent run beside its row: the login gate, the client's  *)
(* tools, the CLI process and the worker's wake-up.  They share no state   *)
(* here, so a behaviour is about one of them, the one `which' names; the   *)
(* others stay in an initial state.                                        *)
(***************************************************************************)
EXTENDS CodexGate, FiniteSets, TLC

CONSTANTS
  MAX_CALLS, ArgRetries, Reminders, MaxWaits, MaxId,   \* of ClientTools
  MaxLines,                                            \* of CliProcess
  WakeRun, Concurrency, MaxFaults                      \* of WorkerWake

\* The limits of a tool turn are numbers.
ToolLimits ==
  /\ MAX_CALLS \in Nat /\ ArgRetries \in Nat /\ Reminders \in Nat
  /\ MaxWaits \in Nat /\ MaxId \in Nat
ASSUME ToolAssumption == ToolLimits

\* The worker has a number of slots, and there are finitely many runs.
SlotsCounted == Concurrency \in Nat /\ IsFiniteSet(WakeRun)
ASSUME SlotAssumption == SlotsCounted

VARIABLES
  which,   \* the component this behaviour is about
  toolsCli, choice, job, turn, asked, accepted,
  cliCli, pump, q, env, ex,
  mount, sock, wakeRun, nudge, unheard, worker, wake, stop, failed, faults

Tools == INSTANCE ClientTools WITH cli <- toolsCli

Cli == INSTANCE CliProcess WITH cli <- cliCli

Wake == INSTANCE WorkerWake WITH run <- wakeRun, Run <- WakeRun

gateVars == vars
toolsVars == <<toolsCli, choice, job, turn, asked, accepted>>
cliVars == <<cliCli, pump, q, env, ex>>
wakeVars == <<mount, sock, wakeRun, nudge, unheard, worker, wake, stop, failed, faults>>

allVars == <<which, gateVars, toolsVars, cliVars, wakeVars>>

InitAll ==
  /\ which \in {"gate", "tools", "cli", "wake"}
  /\ Init /\ (which # "gate" => last = 0)
  /\ Tools!Init /\ (which # "tools" => toolsCli = "claude" /\ choice = "auto")
  /\ Cli!Init /\ (which # "cli" => cliCli.vendor = "claude")
  /\ Wake!Init /\ (which # "wake" => mount = "usable")

Gating ==
  which = "gate" /\ Next /\ UNCHANGED <<which, toolsVars, cliVars, wakeVars>>
ToolTurn ==
  which = "tools" /\ Tools!Next /\ UNCHANGED <<which, gateVars, cliVars, wakeVars>>
Streaming ==
  which = "cli" /\ Cli!Next /\ UNCHANGED <<which, gateVars, toolsVars, wakeVars>>
Waking ==
  which = "wake" /\ Wake!Next /\ UNCHANGED <<which, gateVars, toolsVars, cliVars>>

NextAll == Gating \/ ToolTurn \/ Streaming \/ Waking

FairnessAll ==
  /\ \A r \in Run: WF_gateVars(which = "gate" /\ (Acquire(r) \/ GiveUp(r)))
  /\ \A r \in Run: WF_gateVars(which = "gate" /\ Finish(r))
  /\ WF_toolsVars(which = "tools" /\ Tools!take_result)
  /\ WF_toolsVars(which = "tools" /\ Tools!Expire)
  /\ WF_cliVars(which = "cli" /\ (Cli!SeeLost \/ Cli!TimesOut))
  /\ WF_cliVars(which = "cli" /\ (Cli!StopGrace \/ Cli!StopDone))
  /\ WF_cliVars(which = "cli" /\ Cli!Return)
  /\ WF_cliVars(which = "cli" /\ (Cli!TermGrace \/ Cli!TermDone))
  /\ WF_wakeVars(which = "wake" /\ Wake!start_worker_rpc)
  /\ WF_wakeVars(which = "wake" /\ Wake!Top)
  /\ WF_wakeVars(which = "wake" /\ Wake!Claim)
  /\ WF_wakeVars(which = "wake" /\ Wake!Sleep)
  /\ WF_wakeVars(which = "wake" /\ Wake!_wait_stop_or_wake)
  /\ WF_wakeVars(which = "wake" /\ Wake!stop_worker_rpc)
  /\ \A r \in WakeRun: WF_wakeVars(which = "wake" /\ Wake!RunEnds(r))

SpecAll == InitAll /\ [][NextAll]_allVars /\ FairnessAll
-----------------------------------------------------------------------------
\* The dialogue with a client's tools loses no result and skips no required tool
\* (agent/client_tools.py).
ToolsSound == which = "tools" => Tools!ToolsSound

\* A client operation is never asked for twice: no call id is published again,
\* not even by the worker that resumes the run after a quota wait.
NeverAskedTwice == [][which = "tools" => Tools!NewId]_toolsVars

\* The run is done with the empty text of a terminal result only after the CLI
\* confirmed the interrupt, and with a text only if no terminal result was
\* taken in that turn (both run_tool_turn loops).
TerminalIsLast == [][which = "tools" => Tools!EndsOnTerminal]_toolsVars

\* A worker never waits for a client forever: the wait ends in a result, an
\* expiry, a cancel or the end of the run.
WaitEnds == which = "tools" => Tools!WaitEnds

\* A run that gives up its start-up gate without having seen a model event
\* leaves no CLI that could still refresh the login: it is gone and none is
\* about to start, whichever way the run ended.
GateAfterCli == which = "cli" => Cli!GateAfterCli

\* _stream returns from a cancel, a timeout, a lost lease or a refused write
\* only with the CLI gone: a second worker may resume the session then.
StoppedCliGone == which = "cli" => Cli!StoppedCliGone

\* A completed run recorded every event the CLI wrote up to its last one,
\* although the CLI may exit while lines of its output are still unread.
RecordComplete == which = "cli" => Cli!RecordComplete

\* Every stream ends: the wall limit stops a silent CLI, and one that ignores
\* SIGTERM is killed.
StreamEnds == which = "cli" => Cli!StreamEnds

\* A worker never sleeps through a nudge: asleep with a free slot and a run it could
\* take, the nudge of that run is still on its way or did not arrive, or the tick failed.
NudgeHeard == which = "wake" => Wake!NudgeHeard

\* Every run is taken, whether or not there is a socket and whatever nudges are
\* lost: "database polling claims jobs".
EveryRunTaken == which = "wake" => Wake!EveryRunTaken

\* No client operation is asked for twice, and a turn ends on its terminal result.
ToolSteps == NeverAskedTwice /\ TerminalIsLast

\* A CLI is gone when others may act on it being gone, and its record is whole
\* (agent/executor.py, agent/real_cli.py): the parts above.
CliSound == GateAfterCli /\ StoppedCliGone /\ RecordComplete

\* Nobody waits forever: not for the gate, a client, a CLI or a nudge.
WaitsEnd == GateWaitEnds /\ WaitEnds /\ StreamEnds /\ EveryRunTaken
=============================================================================
