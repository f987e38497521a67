----------------------------- MODULE MCJobLive -----------------------------
(***************************************************************************)
(* What a job waits for: the queue until it is settled, with processes     *)
(* that crash and stop, and the dispatcher that has to wake up for it.     *)
(* A behaviour is about one of them, the one `which' names; the other      *)
(* stays in an initial state.                                              *)
(***************************************************************************)
EXTENDS JobQueue, TLC

CONSTANTS
  j1, j2, w1,
  MaxFaults   \* bound: lost connections and failed ticks of the dispatcher

\* A chat and a transcription job share the only slot of a process that may crash
\* or stop once and is started again.
TwoJobs == {j1, j2}
SecondJob == {j2}
OneWorker == {w1}
WalkOfTwo == [j \in Job |-> 2]
CallOfOne == [j \in Job |-> 1]

VARIABLES
  which,   \* the component this behaviour is about
  status, ripe, loop, claimed, wake, inflight, listener, stopping, told, faults

Disp == INSTANCE DispatcherWake

queueVars == vars
dispatchVars == <<status, ripe, loop, claimed, wake, inflight, listener, stopping, told, faults>>

allVars == <<which, queueVars, dispatchVars>>

InitAll ==
  /\ which \in {"queue", "dispatch"}
  /\ Init
  /\ Disp!Init /\ (which # "dispatch" => status = [j \in Job |-> "none"])

Queueing ==
  which = "queue" /\ Next /\ UNCHANGED <<which, dispatchVars>>
Dispatching ==
  which = "dispatch" /\ Disp!Next /\ UNCHANGED <<which, queueVars>>

NextAll == Queueing \/ Dispatching

FairnessAll ==
  /\ WF_queueVars(which = "queue" /\ Tick)
  /\ \A j \in Job: WF_queueVars(which = "queue" /\ BackoffElapses(j))
  /\ \A j \in Job: WF_queueVars(which = "queue" /\ ClaimOf(j))
  /\ \A w \in Worker: WF_queueVars(which = "queue" /\ RequeueStaleRunning(w))
  /\ \A w \in Worker: WF_queueVars(which = "queue" /\ ProcStep(w))
  /\ \A j \in Job, k \in Claim: WF_queueVars(which = "queue" /\ TaskStep(j, k))
  /\ WF_dispatchVars(which = "dispatch" /\ Disp!Dispatch)
  /\ \A j \in Job: WF_dispatchVars(which = "dispatch" /\ Disp!Finish(j))
  /\ \A j \in Job: WF_dispatchVars(which = "dispatch" /\ Disp!Ripen(j))

SpecAll == InitAll /\ [][NextAll]_allVars /\ FairnessAll
-----------------------------------------------------------------------------
\* Every job that is due is claimed or the process stops, whatever becomes of
\* the LISTEN connection and of the NOTIFY.
EveryDueJobClaimed == which = "dispatch" => Disp!EveryDueJobClaimed

\* Every job is settled although processes crash, stop and lose replies
\* (JobQueue), and claimed although its NOTIFY may never come (DispatcherWake).
EveryJobServed == EventuallySettled /\ EveryDueJobClaimed
=============================================================================
