----------------------------- MODULE WorkerWake -----------------------------
(***************************************************************************)
(* How an agent worker learns of a new run (agent/rpc.py, agent/run_worker.py*)
(* and the loop of agent/worker.py): the API nudges it over a socket after   *)
(* the commit, a finished run frees its slot, and the loop looks every       *)
(* second anyway.  The socket may not be mounted, or be the one a dead       *)
(* worker left; a nudge may be lost; the worker may crash or be restarted.   *)
(***************************************************************************)
EXTENDS Integers, FiniteSets

CONSTANTS
  Run,
  Concurrency,   \* concurrency_for
  MaxFaults      \* bound: lost nudges, failed ticks, crashes and stops

VARIABLES
  mount,     \* the RPC directory: usable, or not
  sock,      \* the socket file: none, live, or stale
  run,       \* new, pending, running, done
  nudge,     \* runs whose nudge is still to be sent
  unheard,   \* runs whose nudge did not arrive
  worker,    \* the worker's program counter
  wake,      \* its event
  stop,
  failed,    \* the last tick ended in an error
  faults

vars == <<mount, sock, run, nudge, unheard, worker, wake, stop, failed, faults>>

Init ==
  /\ mount \in {"usable", "absent", "readonly", "foreign"}
  /\ sock = "none" /\ run = [r \in Run |-> "new"] /\ nudge = {} /\ unheard = {}
  /\ worker = "down" /\ wake = FALSE /\ stop = FALSE /\ failed = FALSE /\ faults = 0

Running == {r \in Run: run[r] = "running"}
Pending == {r \in Run: run[r] = "pending"}
Fault == faults < MaxFaults /\ faults' = faults + 1

-----------------------------------------------------------------------------
(* The API                                                                  *)

Submit(r) ==
  /\ run[r] = "new" /\ run' = [run EXCEPT ![r] = "pending"] /\ nudge' = nudge \cup {r}
  /\ UNCHANGED <<mount, sock, unheard, worker, wake, stop, failed, faults>>

\* POST /internal/v1/wake: the only request the worker's server acts on.
_handle == wake' = TRUE

\* A hint after the commit, within 0.25 s; what it cannot reach it does not report.
wake_worker(r) ==
  /\ r \in nudge /\ nudge' = nudge \ {r}
  /\ \/ sock = "live" /\ _handle /\ UNCHANGED <<unheard, faults>>
     \/ sock # "live" /\ unheard' = unheard \cup {r} /\ UNCHANGED <<wake, faults>>
     \/ sock = "live" /\ Fault /\ unheard' = unheard \cup {r} /\ UNCHANGED wake
  /\ UNCHANGED <<mount, sock, run, worker, stop, failed>>

-----------------------------------------------------------------------------
(* The worker                                                               *)

\* A socket that is there already is removed first; a directory that is missing,
\* read-only or not the worker's leaves it with polling.
start_worker_rpc ==
  /\ worker = "down"
  /\ sock' = IF mount = "usable" THEN "live" ELSE sock
  /\ worker' = "top" /\ wake' = FALSE /\ stop' = FALSE
  /\ UNCHANGED <<mount, run, nudge, unheard, failed, faults>>

\* The event is cleared before the claim.
Top ==
  /\ worker = "top"
  /\ IF stop THEN worker' = "stopping" /\ UNCHANGED <<wake, failed>>
     ELSE worker' = "claim" /\ wake' = FALSE /\ failed' = FALSE
  /\ UNCHANGED <<mount, sock, run, nudge, unheard, stop, faults>>

\* As many pending runs as there are free slots; an error ends the tick.
Claim ==
  /\ worker = "claim" /\ worker' = "claimed"
  /\ \/ /\ \E taken \in SUBSET Pending:
             /\ Cardinality(taken) + Cardinality(Running) <= Concurrency
             /\ Cardinality(taken) + Cardinality(Running) < Concurrency => taken = Pending
             /\ run' = [r \in Run |-> IF r \in taken THEN "running" ELSE run[r]]
             /\ unheard' = unheard \ taken
        /\ UNCHANGED <<failed, faults>>
     \/ Fault /\ failed' = TRUE /\ UNCHANGED <<run, unheard>>
  /\ UNCHANGED <<mount, sock, nudge, wake, stop>>

\* After the rest of the housekeeping the loop waits with the event as it is.
TickEnd_clears == worker = "claimed" /\ worker' = "wait" /\ wake' = FALSE
TickEnd == worker = "claimed" /\ worker' = "wait" /\ wake' = wake

Sleep ==
  /\ TickEnd
  /\ UNCHANGED <<mount, sock, run, nudge, unheard, stop, failed, faults>>

\* The second is over, or the event is set; a stop is not waited for.
Timeout_never == FALSE
Timeout == worker = "wait" /\ ~wake

_wait_stop_or_wake ==
  /\ worker = "wait" /\ (wake \/ Timeout)
  /\ worker' = "top"
  /\ UNCHANGED <<mount, sock, run, nudge, unheard, wake, stop, failed, faults>>

\* The run's callback frees the slot and wakes the loop.
RunEnds(r) ==
  /\ run[r] = "running" /\ run' = [run EXCEPT ![r] = "done"] /\ wake' = TRUE
  /\ UNCHANGED <<mount, sock, nudge, unheard, worker, stop, failed, faults>>

Sigterm ==
  /\ worker # "down" /\ ~stop /\ Fault /\ stop' = TRUE
  /\ UNCHANGED <<mount, sock, run, nudge, unheard, worker, wake, failed>>

\* The runs in flight are finished first; then the socket goes.
stop_worker_rpc ==
  /\ worker = "stopping" /\ Running = {}
  /\ worker' = "down" /\ sock' = IF mount = "usable" THEN "none" ELSE sock
  /\ wake' = FALSE
  /\ UNCHANGED <<mount, run, nudge, unheard, stop, failed, faults>>

\* The process dies: its socket file stays, its runs are closed by others.
Crash ==
  /\ worker # "down" /\ Fault
  /\ worker' = "down" /\ wake' = FALSE
  /\ sock' = IF sock = "live" THEN "stale" ELSE sock
  /\ run' = [r \in Run |-> IF run[r] = "running" THEN "done" ELSE run[r]]
  /\ UNCHANGED <<mount, nudge, unheard, stop, failed>>

Next ==
  \/ \E r \in Run: Submit(r) \/ wake_worker(r) \/ RunEnds(r)
  \/ start_worker_rpc \/ Top \/ Claim \/ Sleep \/ _wait_stop_or_wake
  \/ Sigterm \/ stop_worker_rpc \/ Crash

Fairness ==
  /\ WF_vars(start_worker_rpc) /\ WF_vars(Top) /\ WF_vars(Claim) /\ WF_vars(Sleep)
  /\ WF_vars(_wait_stop_or_wake) /\ WF_vars(stop_worker_rpc)
  /\ \A r \in Run: WF_vars(RunEnds(r))

Spec == Init /\ [][Next]_vars /\ Fairness
-----------------------------------------------------------------------------
\* A worker never sleeps through a nudge: asleep with a free slot and a run it could
\* take, the nudge of that run is still on its way or did not arrive, or the tick failed.
NudgeHeard ==
  worker = "wait" /\ ~wake /\ Cardinality(Running) < Concurrency /\ ~failed
    => Pending \subseteq nudge \cup unheard

\* Every run is taken, whether or not there is a socket and whatever nudges are
\* lost: "database polling claims jobs".
EveryRunTaken == \A r \in Run: run[r] = "pending" ~> run[r] # "pending"
=============================================================================
