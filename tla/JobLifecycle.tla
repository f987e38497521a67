---------------------------- MODULE JobLifecycle ----------------------------
(***************************************************************************)
(* What the asynchronous job queue promises a client, without saying how:  *)
(* a submitted job is executed a bounded number of times, it reaches one   *)
(* terminal status and keeps it until retention deletes the row, and a     *)
(* status can only move along the arrows below.                            *)
(*                                                                         *)
(*   none -> pending <-> running -> done | error | cancelled -> purged     *)
(*           pending -> cancelled                                          *)
(*                                                                         *)
(* One dispatcher statement may move many rows at once (the stale sweep    *)
(* and the batch claim are single UPDATEs), so a step of the queue is a    *)
(* step or a stutter of EVERY job.                                         *)
(***************************************************************************)
EXTENDS Naturals

CONSTANTS Job,       \* the rows of deep_jobs a client may create
          MaxRuns    \* executions the queue may spend on one job

VARIABLES st,        \* what GET /v1/jobs/{id} reports as the status
          runs       \* executions (claims) the job has consumed

vars == <<st, runs>>

Ended == {"done", "error", "cancelled"}

Init == /\ st = [j \in Job |-> "none"]
        /\ runs = [j \in Job |-> 0]

Moves(j, from, to) == st[j] \in from /\ st'[j] \in to /\ runs'[j] = runs[j]

Submitted(j) == Moves(j, {"none"}, {"pending"})

Executed(j) == /\ st[j] = "pending" /\ st'[j] = "running"
               /\ runs[j] < MaxRuns /\ runs'[j] = runs[j] + 1

HandedBack(j) == Moves(j, {"running"}, {"pending"})

Withdrawn(j) == Moves(j, {"pending"}, {"cancelled"})

Settled(j) == Moves(j, {"running"}, Ended)

Deleted(j) == Moves(j, Ended, {"purged"})

Stays(j) == Moves(j, {st[j]}, {st[j]})

JobStep(j) == \/ Submitted(j) \/ Executed(j) \/ HandedBack(j) \/ Withdrawn(j)
              \/ Settled(j) \/ Deleted(j) \/ Stays(j)

Next == \A j \in Job : JobStep(j)

Spec == Init /\ [][Next]_vars

(* Every job the queue accepted is eventually settled.                     *)
Delivered == \A j \in Job : (st[j] = "pending") ~> (st[j] \in Ended \cup {"purged"})
=============================================================================
