----------------------------- MODULE CliProcess -----------------------------
(***************************************************************************)
(* One CLI of an agent run: the process group, the adapter's generator that *)
(* reads it (driven by the executor's pump task), the queue between them,   *)
(* and _stream, which records the events, decides the outcome and stops the *)
(* group.  A step runs from one await to the next.  SIGTERM is no step: the *)
(* CLI and its children may end at any time, and may ignore it.             *)
(***************************************************************************)
EXTENDS Integers, SequencesExt

CONSTANTS
  MaxLines  \* bound: lines of output a CLI writes

VARIABLES
  cli,   \* external: vendor, leader alive, a child of its group, its output and the
         \* events due for it (after no line, one line...: a history), how it exited
  pump,  \* the generator: where it waits, lines read, the Codex parser's memory
  q,     \* the queue of events
  env,   \* what others did: run lease lost, gate lease lost, cancel_requested
  ex     \* _stream: where it is, its gate, the terminal event, the events it appended

vars == <<cli, pump, q, env, ex>>

Lines(vendor) ==
  IF vendor = "claude" THEN {"session", "api_key", "message", "result", "failure"}
  ELSE {"session", "message", "turn", "error", "no_sandbox"}

Init ==
  /\ \E v \in {"claude", "codex"}, g \in {"none", "held"}:
       /\ g = "held" => v = "codex"
       /\ cli = [vendor |-> v, up |-> FALSE, child |-> "none", said |-> <<>>, due |-> <<<<>>>>,
                 rc |-> 0]
       /\ ex = [pc |-> "loop", gate |-> g, terminal |-> "none", events |-> <<>>]
  /\ pump = [pc |-> "preflight", read |-> 0, turn |-> FALSE, error |-> FALSE]
  /\ q = <<>>
  /\ env = [lease |-> TRUE, gate |-> TRUE, cancel |-> FALSE]

TerminalTypes == {"completed", "failed"}

-----------------------------------------------------------------------------
\* What one line of output becomes.  An error is remembered and shows in the
\* last event only; a CLI that bills an API key is refused.
ClaudeFeed(l) ==
  CASE l = "session" -> <<"session">>
    [] l = "message" -> <<"model">>
    [] l = "result"  -> <<"model", "completed">>
    [] l = "failure" -> <<"model", "failed">>
    [] l = "api_key" -> <<"failed">>
CodexFeed(l) ==
  CASE l = "session"        -> <<"session">>
    [] l \in {"message", "turn"} -> <<"model">>
    [] l = "error"          -> <<>>
    [] l = "no_sandbox"     -> <<"model", "failed">>
feed(l) == IF cli.vendor = "claude" THEN ClaudeFeed(l) ELSE CodexFeed(l)

-----------------------------------------------------------------------------
\* External: the CLI and the children it leaves behind.
Say ==
  /\ cli.up /\ Len(cli.said) < MaxLines
  /\ \E l \in Lines(cli.vendor):
       cli' = [cli EXCEPT !.said = Append(@, l), !.due = Append(@, Last(@) \o feed(l))]
  /\ UNCHANGED <<pump, q, env, ex>>

Fork ==
  /\ cli.up /\ cli.child = "none"
  /\ \E c \in {"quiet", "piped"}: cli' = [cli EXCEPT !.child = c]
  /\ UNCHANGED <<pump, q, env, ex>>

Exit ==
  /\ \/ cli.up /\ \E rc \in {0, 1}: cli' = [cli EXCEPT !.up = FALSE, !.rc = rc]
     \/ cli.child # "none" /\ cli' = [cli EXCEPT !.child = "none"]
  /\ UNCHANGED <<pump, q, env, ex>>

\* SIGKILL to the whole process group.
_signal_group(c) == [c EXCEPT !.up = FALSE, !.child = "none", !.rc = IF c.up THEN 1 ELSE @]

-----------------------------------------------------------------------------
Ended(s) == s # <<>> /\ Last(s) \in TerminalTypes

finish ==
  IF cli.vendor = "codex" /\ pump.turn /\ ~pump.error /\ cli.rc = 0
  THEN "completed" ELSE "failed"

\* The generator's finally with the group's leader gone: stray children are
\* killed and the pump puts its end mark.
Leave(items) ==
  /\ cli' = _signal_group(cli)
  /\ pump' = [pump EXCEPT !.pc = "done"]
  /\ q' = q \o items \o <<"end">>

\* Settings or sandbox refused before a process exists.
Refused ==
  /\ pump.pc = "preflight"
  /\ pump' = [pump EXCEPT !.pc = "done"]
  /\ q' = q \o <<"failed", "end">>
  /\ UNCHANGED <<cli, env, ex>>

Spawn ==
  /\ pump.pc = "preflight"
  /\ cli' = [cli EXCEPT !.up = TRUE]
  /\ pump' = [pump EXCEPT !.pc = "read"]
  /\ UNCHANGED <<q, env, ex>>

\* One line is parsed.  After a terminal event the generator returns: its
\* finally sends SIGTERM to a CLI that is still there and waits for it.
ReadLine ==
  /\ pump.pc = "read" /\ pump.read < Len(cli.said)
  /\ LET l == cli.said[pump.read + 1]
         items == feed(l)
     IN IF Ended(items)
        THEN IF cli.up
             THEN /\ pump' = [pump EXCEPT !.pc = "term", !.read = @ + 1]
                  /\ q' = q \o items
                  /\ UNCHANGED cli
             ELSE Leave(items)
        ELSE /\ pump' = [pump EXCEPT !.read = @ + 1,
                                     !.turn = @ \/ (cli.vendor = "codex" /\ l = "turn"),
                                     !.error = @ \/ l = "error"]
             /\ q' = q \o items
             /\ UNCHANGED cli
  /\ UNCHANGED <<env, ex>>

\* The output ends when nobody holds the pipe and all of it was read; the exit
\* code and the parser then make the last event.
Drained_exited == ~cli.up
Drained == ~cli.up /\ cli.child # "piped" /\ pump.read = Len(cli.said)

Finish ==
  /\ pump.pc = "read" /\ Drained
  /\ Leave(<<finish>>)
  /\ UNCHANGED <<env, ex>>

\* The prompt could not be written to a CLI that is gone: adapter_error.
StdinBroken ==
  /\ pump.pc = "read" /\ pump.read = 0 /\ ~cli.up
  /\ Leave(<<"failed">>)
  /\ UNCHANGED <<env, ex>>

\* cancel() in the generator's finally: kill_grace_s over, or the CLI gone.
TermGrace ==
  /\ pump.pc = "term" /\ cli.up
  /\ cli' = _signal_group(cli)
  /\ UNCHANGED <<pump, q, env, ex>>

TermDone ==
  /\ pump.pc = "term" /\ ~cli.up
  /\ Leave(<<>>)
  /\ UNCHANGED <<env, ex>>

\* task.cancel(): before the spawn nothing started; while the generator reads,
\* its finally runs in full; a finally that waits for the CLI is cut short.
Cancelled ==
  CASE pump.pc = "preflight" -> pump' = [pump EXCEPT !.pc = "done"] /\ UNCHANGED cli
    [] pump.pc = "read" /\ cli.up ->
         pump' = [pump EXCEPT !.pc = "term"] /\ UNCHANGED cli
    [] pump.pc = "read" /\ ~cli.up ->
         pump' = [pump EXCEPT !.pc = "done"] /\ cli' = _signal_group(cli)
    [] pump.pc = "term" -> pump' = [pump EXCEPT !.pc = "done"] /\ UNCHANGED cli
    [] OTHER -> UNCHANGED <<pump, cli>>

-----------------------------------------------------------------------------
\* The finally of _stream stops the CLI unless the run ended by the CLI's own
\* word and holds no gate.
MustStop_byTerminal(e) == e.terminal \in {"none", "lost", "gate_lost", "cancelled"}
MustStop(e) ==
  \/ e.terminal \in {"none", "lost", "gate_lost", "cancelled", "timed_out"}
  \/ e.gate = "held"

Opened(e) == [e EXCEPT !.gate = IF @ = "held" THEN "closed" ELSE @]

\* Without a stop the pump's task is cancelled in the same step.
Leaving_opensGate(e) ==
  IF MustStop(e) THEN ex' = [Opened(e) EXCEPT !.pc = "stop"] /\ UNCHANGED <<pump, cli>>
  ELSE ex' = [Opened(e) EXCEPT !.pc = "join"] /\ Cancelled
Leaving(e) ==
  IF MustStop(e) THEN ex' = [e EXCEPT !.pc = "stop"] /\ UNCHANGED <<pump, cli>>
  ELSE ex' = [e EXCEPT !.pc = "join"] /\ Cancelled

LeaseGone == ex.pc = "loop" /\ ~env.lease
GateGone == ex.pc = "loop" /\ env.lease /\ ex.gate = "held" /\ ~env.gate

SeeLost ==
  /\ \/ LeaseGone /\ Leaving([ex EXCEPT !.terminal = "lost"])
     \/ GateGone /\ Leaving([ex EXCEPT !.terminal = "gate_lost"])
  /\ UNCHANGED <<q, env>>

\* The wall or the idle limit, at any time; then the cancel flag.
TimesOut ==
  /\ ex.pc = "loop" /\ ~LeaseGone /\ ~GateGone
  /\ Leaving([ex EXCEPT !.terminal = "timed_out"])
  /\ UNCHANGED <<q, env>>

SeeCancel ==
  /\ ex.pc = "loop" /\ ~LeaseGone /\ ~GateGone /\ env.cancel
  /\ Leaving([ex EXCEPT !.terminal = "cancelled"])
  /\ UNCHANGED <<q, env>>

\* The first event that proves a model call opens the gate.
Proved(i) == IF ex.gate = "held" /\ i = "model" THEN "proved" ELSE ex.gate

Take ==
  /\ ex.pc = "loop" /\ q # <<>>
  /\ q' = Tail(q)
  /\ LET i == Head(q)
         e == [ex EXCEPT !.gate = Proved(i)]
     IN CASE i = "end" -> Leaving(e)
          [] i \in TerminalTypes -> Leaving([e EXCEPT !.terminal = i])
          [] OTHER -> \/ ex' = [e EXCEPT !.events = Append(@, i)] /\ UNCHANGED <<pump, cli>>
                      \/ Leaving(e)  \* append_event raises: StaleLease, or the run is closed
  /\ UNCHANGED env

\* _stop_adapter: adapter.cancel() kills after kill_grace_s, within cancel_grace_s.
StopGrace_never == FALSE /\ UNCHANGED vars
StopGrace ==
  /\ ex.pc = "stop" /\ cli.up
  /\ cli' = _signal_group(cli)
  /\ UNCHANGED <<pump, q, env, ex>>

StopDone ==
  /\ ex.pc = "stop" /\ ~cli.up
  /\ Cancelled
  /\ ex' = [ex EXCEPT !.pc = "join"]
  /\ UNCHANGED <<q, env>>

Return ==
  /\ ex.pc = "join" /\ pump.pc = "done"
  /\ ex' = [Opened(ex) EXCEPT !.pc = "returned"]
  /\ UNCHANGED <<cli, pump, q, env>>

Others ==
  /\ \/ \E f \in {"lease", "gate"}: env[f] /\ env' = [env EXCEPT ![f] = FALSE]
     \/ ~env.cancel /\ env' = [env EXCEPT !.cancel = TRUE]
  /\ UNCHANGED <<cli, pump, q, ex>>

Next ==
  \/ Say \/ Fork \/ Exit
  \/ Refused \/ Spawn \/ ReadLine \/ Finish \/ StdinBroken \/ TermGrace \/ TermDone
  \/ SeeLost \/ TimesOut \/ SeeCancel \/ Take \/ StopGrace \/ StopDone \/ Return
  \/ Others

\* The clock runs: limits and graces expire; both tasks are scheduled.
Fairness ==
  /\ WF_vars(SeeLost \/ TimesOut) /\ WF_vars(StopGrace \/ StopDone) /\ WF_vars(Return)
  /\ WF_vars(TermGrace \/ TermDone)
Spec == Init /\ [][Next]_vars /\ Fairness

-----------------------------------------------------------------------------
\* A run that gives up its start-up gate without having seen a model event
\* leaves no CLI that could still refresh the login: it is gone and none is
\* about to start, whichever way the run ended.
GateAfterCli == ex.gate = "closed" => ~cli.up /\ pump.pc = "done"

\* _stream returns from a cancel, a timeout, a lost lease or a refused write
\* only with the CLI gone: a second worker may resume the session then.
StoppedCliGone ==
  ex.pc = "returned" /\ ex.terminal \in {"none", "lost", "gate_lost", "cancelled", "timed_out"}
    => ~cli.up

\* A completed run recorded every event the CLI wrote up to its last one,
\* although the CLI may exit while lines of its output are still unread.
RecordComplete ==
  ex.terminal = "completed" =>
    IF cli.vendor = "codex" THEN ex.events = Last(cli.due)
    ELSE IsPrefix(Append(ex.events, "completed"), Last(cli.due))

\* Every stream ends: the wall limit stops a silent CLI, and one that ignores
\* SIGTERM is killed.
StreamEnds == <>(ex.pc = "returned")
=============================================================================
