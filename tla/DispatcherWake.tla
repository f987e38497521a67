--------------------------- MODULE DispatcherWake ---------------------------
(***************************************************************************)
(* What makes the dispatcher look at the queue: the wake event that a NOTIFY *)
(* and every finished job set, the LISTEN connection that may be silently    *)
(* lost, and the timed poll behind both.  Claims and executions are those of *)
(* JobQueue, here without retries' counters.                                 *)
(***************************************************************************)
EXTENDS Integers, FiniteSets

CONSTANTS
  Job,
  MaxConcurrency,  \* _MAX_CONCURRENCY
  MaxFaults        \* bound: lost connections, failed ticks, failed NOTIFYs, requeues

VARIABLES
  status,    \* deep_jobs.status of each job
  ripe,      \* run_after has passed
  loop,      \* where _dispatch is
  claimed,   \* the tick claimed something
  wake,      \* the asyncio.Event
  inflight,  \* the tasks of this process
  listener,  \* the LISTEN connection
  stopping,  \* the stop event
  told,      \* pending jobs whose NOTIFY reached the process and no tick failed since
  faults

vars == <<status, ripe, loop, claimed, wake, inflight, listener, stopping, told, faults>>

Ready == {j \in Job: status[j] = "pending" /\ ripe[j]}
Free == MaxConcurrency - Cardinality(inflight)

Fault == faults < MaxFaults /\ faults' = faults + 1

(***************************************************************************)
(* Submission: the NOTIFY is part of the INSERT's transaction.              *)
(***************************************************************************)
Deliver(j) ==
  IF listener = "up"
  THEN wake' = TRUE /\ told' = told \cup {j}
  ELSE UNCHANGED <<wake, told>>

\* Committed with its NOTIFY, or without one when the SAVEPOINT failed.
submit_job(j) ==
  /\ status[j] = "none"
  /\ status' = [status EXCEPT ![j] = "pending"]
  /\ \/ Deliver(j) /\ UNCHANGED faults
     \/ Fault /\ UNCHANGED <<wake, told>>
  /\ UNCHANGED <<ripe, loop, claimed, inflight, listener, stopping>>

(***************************************************************************)
(* _listen_for_jobs.  A dropped connection is silent until is_closed() is   *)
(* looked at again.                                                         *)
(***************************************************************************)
Lose ==
  /\ listener = "up"
  /\ Fault
  /\ listener' = "lost"
  /\ UNCHANGED <<status, ripe, loop, claimed, wake, inflight, stopping, told>>

Notice ==
  /\ listener = "lost"
  /\ listener' = "down"
  /\ UNCHANGED <<status, ripe, loop, claimed, wake, inflight, stopping, told, faults>>

Connect ==
  /\ listener = "down" /\ ~stopping
  /\ listener' = "up"
  /\ UNCHANGED <<status, ripe, loop, claimed, wake, inflight, stopping, told, faults>>

(***************************************************************************)
(* _dispatch.                                                               *)
(***************************************************************************)
TickBegin ==
  /\ loop = "top"
  /\ IF stopping
     THEN loop' = "ended" /\ listener' = "ended" /\ UNCHANGED <<wake, claimed>>
     ELSE loop' = "tick" /\ wake' = FALSE /\ claimed' = FALSE /\ UNCHANGED listener
  /\ UNCHANGED <<status, ripe, inflight, stopping, told, faults>>

\* Any statement of the tick may fail: the sweeps' or the claim's.
TickFail ==
  /\ loop = "tick"
  /\ Fault
  /\ loop' = "settle"
  /\ told' = {}
  /\ UNCHANGED <<status, ripe, claimed, wake, inflight, listener, stopping>>

_claim_batch_full ==
  \E batch \in SUBSET Ready:
    /\ Cardinality(batch) = (IF Cardinality(Ready) < Free + 1 THEN Cardinality(Ready) ELSE Free + 1)
    /\ status' = [j \in Job |-> IF j \in batch THEN "running" ELSE status[j]]
    /\ inflight' = inflight \cup batch
    /\ told' = told \ batch
    /\ claimed' = (batch # {})

_claim_batch ==
  \E batch \in SUBSET Ready:
    /\ Cardinality(batch) = (IF Cardinality(Ready) < Free THEN Cardinality(Ready) ELSE Free)
    /\ status' = [j \in Job |-> IF j \in batch THEN "running" ELSE status[j]]
    /\ inflight' = inflight \cup batch
    /\ told' = told \ batch
    /\ claimed' = (batch # {})

TickClaim ==
  /\ loop = "tick"
  /\ loop' = "settle"
  /\ _claim_batch
  /\ UNCHANGED <<ripe, wake, listener, stopping, faults>>

TickEnd_clears ==
  /\ loop = "settle"
  /\ loop' = IF claimed THEN "top" ELSE "wait"
  /\ wake' = FALSE
  /\ UNCHANGED <<status, ripe, claimed, inflight, listener, stopping, told, faults>>

\* A tick that claimed goes round again without waiting.
TickEnd ==
  /\ loop = "settle"
  /\ loop' = IF claimed THEN "top" ELSE "wait"
  /\ UNCHANGED <<status, ripe, claimed, wake, inflight, listener, stopping, told, faults>>

\* _wait_stop_or_wake: the event, shutdown, or the poll interval.
Woken ==
  /\ loop = "wait" /\ (wake \/ stopping)
  /\ loop' = "top"
  /\ UNCHANGED <<status, ripe, claimed, wake, inflight, listener, stopping, told, faults>>

TimedOut_trustsListener ==
  /\ loop = "wait" /\ listener = "down"
  /\ loop' = "top"
  /\ UNCHANGED <<status, ripe, claimed, wake, inflight, listener, stopping, told, faults>>

TimedOut ==
  /\ loop = "wait"
  /\ loop' = "top"
  /\ UNCHANGED <<status, ripe, claimed, wake, inflight, listener, stopping, told, faults>>

(***************************************************************************)
(* The tasks; the done callbacks free the slot and then wake the loop.      *)
(***************************************************************************)
Callbacks_discardOnly(j) == inflight' = inflight \ {j} /\ UNCHANGED wake

Callbacks(j) == inflight' = inflight \ {j} /\ wake' = TRUE

Finish(j) ==
  /\ j \in inflight
  /\ status' = [status EXCEPT ![j] = "done"]
  /\ Callbacks(j)
  /\ UNCHANGED <<ripe, loop, claimed, listener, stopping, told, faults>>

\* Back to pending with a run_after: nothing notifies when it has passed.
Requeue(j) ==
  /\ j \in inflight
  /\ Fault
  /\ status' = [status EXCEPT ![j] = "pending"]
  /\ ripe' = [ripe EXCEPT ![j] = FALSE]
  /\ Callbacks(j)
  /\ UNCHANGED <<loop, claimed, listener, stopping, told>>

Ripen(j) ==
  /\ ~ripe[j]
  /\ ripe' = [ripe EXCEPT ![j] = TRUE]
  /\ UNCHANGED <<status, loop, claimed, wake, inflight, listener, stopping, told, faults>>

Stop ==
  /\ ~stopping
  /\ Fault
  /\ stopping' = TRUE
  /\ UNCHANGED <<status, ripe, loop, claimed, wake, inflight, listener, told>>

-----------------------------------------------------------------------------
Init ==
  /\ status \in [Job -> {"none", "pending"}]
  /\ ripe = [j \in Job |-> TRUE]
  /\ loop = "top"
  /\ claimed = FALSE
  /\ wake = FALSE
  /\ inflight = {}
  /\ listener = "down"
  /\ stopping = FALSE
  /\ told = {}
  /\ faults = 0

Dispatch == TickBegin \/ TickClaim \/ TickEnd \/ Woken \/ TimedOut

Next ==
  \/ \E j \in Job: submit_job(j) \/ Finish(j) \/ Requeue(j) \/ Ripen(j)
  \/ Lose \/ Notice \/ Connect
  \/ Dispatch \/ TickFail
  \/ Stop

\* The loop runs, calls end, backoffs pass; nothing is assumed of the listener.
Fairness ==
  /\ WF_vars(Dispatch)
  /\ \A j \in Job: WF_vars(Finish(j)) /\ WF_vars(Ripen(j))

Spec == Init /\ [][Next]_vars /\ Fairness
-----------------------------------------------------------------------------
TypeOK ==
  /\ status \in [Job -> {"none", "pending", "running", "done"}]
  /\ ripe \in [Job -> BOOLEAN]
  /\ loop \in {"top", "tick", "settle", "wait", "ended"}
  /\ claimed \in BOOLEAN /\ wake \in BOOLEAN /\ stopping \in BOOLEAN
  /\ inflight \subseteq Job /\ Cardinality(inflight) <= MaxConcurrency
  /\ listener \in {"up", "lost", "down", "ended"}
  /\ told \subseteq Job

\* The dispatcher never sleeps, with a free slot, on a job whose NOTIFY the
\* process received: neither a NOTIFY during a tick nor a slot freed by a job
\* that ended during one is lost.
NoLostWake ==
  (loop = "wait" /\ ~wake /\ Free > 0) => told \cap Ready = {}

\* The dispatcher keeps its slots and its wake-ups (services/job_queue.py).
DispatchSound == TypeOK /\ NoLostWake

\* Every job that is due is claimed or the process stops, whatever becomes of
\* the LISTEN connection and of the NOTIFY.
EveryDueJobClaimed ==
  \A j \in Job: j \in Ready ~> (status[j] # "pending" \/ stopping)
=============================================================================
