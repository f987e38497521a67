--------------------------- MODULE JobQueueProofs ---------------------------
(* Theorems about JobQueue, for every set of jobs and workers and every    *)
(* value of the limits that satisfies its assumptions; at the end, that it *)
(* implements JobLifecycle, what wakes its dispatcher, what a client is    *)
(* told about its jobs and the files they returned, and which providers,   *)
(* keys and models the walk of a request calls.                            *)
EXTENDS MCJobPath, FiniteSetTheorems, SequenceTheorems, Sums, TLAPS

USE DEF Claim, Terminal, Walking, Settling

(* Writing one row keeps the type and leaves the other rows alone.         *)
LEMMA SetRowFact ==
  ASSUME row \in [Job -> Row], NEW j \in Job, NEW r \in Row, SetRow(j, r)
  PROVE  /\ row' \in [Job -> Row] /\ row'[j] = r
         /\ \A i \in Job : i # j => row'[i] = row[i]
  BY DEF SetRow

(* Replacing one task keeps the type and leaves the other tasks alone.     *)
LEMMA SetTaskFact ==
  ASSUME task \in [Job -> [Claim -> Task]], NEW j \in Job, NEW k \in Claim,
         NEW t \in Task, SetTask(j, k, t)
  PROVE  /\ task' \in [Job -> [Claim -> Task]] /\ task'[j][k] = t
         /\ \A m \in Claim : m # k => task'[j][m] = task[j][m]
         /\ \A i \in Job : i # j => task'[i] = task[i]
  BY DEF SetTask

(* A row that was never written is a row.                                  *)
LEMMA NoRowFact ==
  /\ NoRow \in Row
  /\ NoRow.status = "none" /\ NoRow.started_at = 0 /\ NoRow.retry_count = 0
  /\ NoRow.cancel_requested = FALSE /\ NoRow.age = 0
  BY RetryAssumption, TimeoutAssumption DEF NoRow, Row, Status

(* A task that does not exist is a task record.                            *)
LEMMA IdleTaskFact ==
  /\ IdleTask \in Task /\ IdleTask.phase = "idle" /\ IdleTask.host = Nobody
  /\ IdleTask.clock = 0
  BY RetryAssumption, TimeoutAssumption DEF IdleTask, Task, Phase

(* The empty table with fresh processes satisfies the invariant.           *)
LEMMA InitInv == Init => IndInv
  <1> SUFFICES ASSUME Init PROVE IndInv
    OBVIOUS
  <1> USE SetsAssumption, RetryAssumption, TimeoutAssumption, NoRowFact, IdleTaskFact
  <1>1. TypeOK
    BY DEF Init, TypeOK
  <1>2. /\ \A j \in Job : row[j] = NoRow /\ claims[j] = 0 /\ late[j] = 0 /\ handbacks[j] = 0
        /\ \A j \in Job, k \in Claim : task[j][k] = IdleTask
        /\ \A w \in Worker, j \in Job : held[w][j] = 0
    BY DEF Init
  <1> QED
    BY <1>1, <1>2 DEF IndInv, JobInv, RowClaim, FreshTask, WalkOwns, TaskHosted, HeldHere,
       SettledOnce, Accounted, SnapshotFresh, CancelSeen

(* A step that leaves everything about a job alone keeps its invariant.    *)
LEMMA JobFrame ==
  ASSUME NEW j \in Job, JobInv(j), row'[j] = row[j], task'[j] = task[j],
         claims'[j] = claims[j], handbacks'[j] = handbacks[j], late'[j] = late[j],
         proc' = proc, \A w \in Worker : held'[w][j] = held[w][j]
  PROVE  JobInv(j)'
  BY DEF JobInv, RowClaim, FreshTask, WalkOwns, InTime, TaskHosted, HeldHere,
         SettledOnce, Accounted, SnapshotFresh, CancelSeen

(* A step that changes at most the row of one job.                         *)
LEMMA RowStep ==
  ASSUME IndInv, NEW j \in Job, NEW r \in Row, SetRow(j, r), JobInv(j)',
         UNCHANGED <<claims, task, proc, held, restarts, handbacks, late>>
  PROVE  IndInv'
  <1>1. row' \in [Job -> Row] /\ \A i \in Job : i # j => row'[i] = row[i]
    BY SetRowFact DEF IndInv, TypeOK
  <1>2. TypeOK'
    BY <1>1 DEF IndInv, TypeOK
  <1>3. ASSUME NEW i \in Job, i # j PROVE JobInv(i)'
    BY <1>1, <1>3, JobFrame DEF IndInv
  <1> QED
    BY <1>2, <1>3 DEF IndInv

(* Clients                                                                 *)
LEMMA SubmitInv == ASSUME IndInv, NEW j \in Job, Submit(j) PROVE IndInv'
  <1> USE SetsAssumption, RetryAssumption, TimeoutAssumption
  <1> DEFINE r == [NoRow EXCEPT !.status = "pending", !.audio = (j \in Transcription)]
  <1>1. r \in Row /\ r.status = "pending" /\ r.started_at = 0 /\ r.retry_count = 0
    <2>1. \A b \in BOOLEAN :
            LET q == [NoRow EXCEPT !.status = "pending", !.audio = b]
            IN  q \in Row /\ q.status = "pending" /\ q.started_at = 0 /\ q.retry_count = 0
      BY NoRowFact DEF Row, Status
    <2>2. (j \in Transcription) \in BOOLEAN
      OBVIOUS
    <2> QED BY <2>1, <2>2, Zenon
  <1>2. SetRow(j, r) /\ row'[j] = r
    BY <1>1, SetRowFact DEF Submit, IndInv, TypeOK
  <1>3. UNCHANGED <<claims, task, proc, held, restarts, handbacks, late>> /\ row[j].status = "none"
    BY DEF Submit
  <1> HIDE DEF r
  <1>4. JobInv(j) /\ TypeOK
    BY DEF IndInv
  <1>5. JobInv(j)'
    BY <1>1, <1>2, <1>3, <1>4 DEF JobInv, RowClaim, FreshTask, WalkOwns, TaskHosted,
       HeldHere, SettledOnce, Accounted, SnapshotFresh, CancelSeen
  <1> QED
    BY <1>1, <1>2, <1>3, <1>5, RowStep

(* A client's cancel (_cancel_plain) keeps the invariant.                  *)
LEMMA CancelInv == ASSUME IndInv, NEW j \in Job, Cancel(j) PROVE IndInv'
  <1> USE SetsAssumption, RetryAssumption, TimeoutAssumption
  <1>1. JobInv(j) /\ TypeOK /\ row[j] \in Row
    BY DEF IndInv, TypeOK
  <1>2. UNCHANGED <<claims, task, proc, held, restarts, handbacks, late>>
    BY DEF Cancel
  <1>3. CASE row[j].status = "pending"
    <2> DEFINE r == [row[j] EXCEPT !.status = "cancelled", !.audio = FALSE]
    <2>1. /\ r \in Row /\ r.status = "cancelled" /\ r.started_at = row[j].started_at
          /\ r.retry_count = row[j].retry_count
      BY <1>1 DEF Row, Status
    <2>2. SetRow(j, r) /\ row'[j] = r
      BY <1>1, <1>3, <2>1, SetRowFact DEF Cancel, TypeOK
    <2> HIDE DEF r
    <2>3. JobInv(j)'
      BY <1>1, <1>2, <1>3, <2>1, <2>2 DEF JobInv, RowClaim, FreshTask, WalkOwns, TaskHosted,
         HeldHere, SettledOnce, Accounted, SnapshotFresh, CancelSeen
    <2> QED
      BY <1>2, <2>1, <2>2, <2>3, RowStep
  <1>4. CASE row[j].status = "running"
    <2> DEFINE r == [row[j] EXCEPT !.cancel_requested = TRUE]
    <2>1. /\ r \in Row /\ r.status = "running" /\ r.started_at = row[j].started_at
          /\ r.retry_count = row[j].retry_count /\ r.age = row[j].age /\ r.cancel_requested
      BY <1>1, <1>4 DEF Row, Status
    <2>2. SetRow(j, r) /\ row'[j] = r
      BY <1>1, <1>4, <2>1, SetRowFact DEF Cancel, TypeOK
    <2> HIDE DEF r
    <2>3. JobInv(j)'
      BY <1>1, <1>2, <1>4, <2>1, <2>2 DEF JobInv, RowClaim, FreshTask, WalkOwns, TaskHosted,
         HeldHere, SettledOnce, Accounted, SnapshotFresh, CancelSeen, InTime
    <2> QED
      BY <1>2, <2>1, <2>2, <2>3, RowStep
  <1> QED
    BY <1>3, <1>4 DEF Cancel

(* Retention (purge_finished_jobs) keeps the invariant.                    *)
LEMMA PurgeInv == ASSUME IndInv, NEW j \in Job, PurgeFinished(j) PROVE IndInv'
  <1> USE SetsAssumption, RetryAssumption, TimeoutAssumption
  <1>1. JobInv(j) /\ TypeOK
    BY DEF IndInv
  <1>2. UNCHANGED <<claims, task, proc, held, restarts, handbacks, late>> /\ row[j].status \in Terminal
    BY DEF PurgeFinished
  <1> DEFINE r == [NoRow EXCEPT !.status = "purged"]
  <1>3. r \in Row /\ r.status = "purged" /\ r.started_at = 0
    BY NoRowFact DEF Row, Status
  <1>4. SetRow(j, r) /\ row'[j] = r
    BY <1>1, <1>3, SetRowFact DEF PurgeFinished, TypeOK
  <1> HIDE DEF r
  <1>5. claims[j] \in Nat
    BY <1>1 DEF TypeOK
  <1>6. JobInv(j)'
    BY <1>1, <1>2, <1>3, <1>4, <1>5 DEF JobInv, RowClaim, FreshTask, WalkOwns, TaskHosted,
       HeldHere, SettledOnce, Accounted, SnapshotFresh, CancelSeen
  <1> QED
    BY <1>2, <1>3, <1>4, <1>6, RowStep

(* The end of a backoff (run_after) keeps the invariant.                   *)
LEMMA BackoffInv == ASSUME IndInv, NEW j \in Job, BackoffElapses(j) PROVE IndInv'
  <1> USE SetsAssumption, RetryAssumption, TimeoutAssumption
  <1>1. JobInv(j) /\ TypeOK /\ row[j] \in Row
    BY DEF IndInv, TypeOK
  <1>2. UNCHANGED <<claims, task, proc, held, restarts, handbacks, late>>
    BY DEF BackoffElapses
  <1> DEFINE r == [row[j] EXCEPT !.deferred = FALSE]
  <1>3. /\ r \in Row /\ r.status = row[j].status /\ r.started_at = row[j].started_at
        /\ r.retry_count = row[j].retry_count /\ r.age = row[j].age
        /\ r.cancel_requested = row[j].cancel_requested
    BY <1>1 DEF Row
  <1>4. SetRow(j, r) /\ row'[j] = r
    BY <1>1, <1>3, SetRowFact DEF BackoffElapses, TypeOK
  <1> HIDE DEF r
  <1>5. JobInv(j)'
    BY <1>1, <1>2, <1>3, <1>4 DEF JobInv, RowClaim, FreshTask, WalkOwns, TaskHosted,
       HeldHere, SettledOnce, Accounted, SnapshotFresh, CancelSeen, InTime
  <1> QED
    BY <1>2, <1>3, <1>4, <1>5, RowStep

(* Execution: a task moves on without touching the database.               *)
LEMMA SettleFact ==
  ASSUME NEW t \in Task, NEW ph \in Phase
  PROVE  /\ Settle(t, ph) \in Task /\ Settle(t, ph).phase = ph
         /\ Settle(t, ph).host = t.host /\ Settle(t, ph).retry = t.retry
         /\ Settle(t, ph).cancel = t.cancel
  <1>1. 0 \in 0 .. AttemptCap
    BY RetryAssumption
  <1> QED
    BY <1>1 DEF Settle, Task

(* A task given back is a settling task with the limit of its outcome.     *)
LEMMA GiveBackFact ==
  ASSUME NEW t \in Task, NEW limit \in 0 .. MaxRetries
  PROVE  /\ GiveBack(t, limit) \in Task /\ GiveBack(t, limit).phase = "requeue"
         /\ GiveBack(t, limit).host = t.host /\ GiveBack(t, limit).retry = t.retry
         /\ GiveBack(t, limit).cancel = t.cancel
  <1> DEFINE q == Settle(t, "requeue")
  <1>1. q \in Task /\ q.phase = "requeue" /\ q.host = t.host /\ q.retry = t.retry
        /\ q.cancel = t.cancel
    BY SettleFact DEF Phase
  <1> HIDE DEF q
  <1>2. GiveBack(t, limit) = [q EXCEPT !.limit = limit]
    BY DEF GiveBack, q
  <1> QED
    BY <1>1, <1>2 DEF Task

(* A task that changes phase without touching its row: all but the cancel  *)
(* part of the job's invariant.                                            *)
LEMMA TaskMoveBase ==
  ASSUME IndInv, NEW j \in Job, NEW k \in Claim, NEW t \in Task, SetTask(j, k, t),
         UNCHANGED <<row, claims, proc, held, restarts, handbacks>>,
         late' \in [Job -> Nat], \A i \in Job : i # j => late'[i] = late[i], CancelSeen(j)',
         task[j][k].phase \notin Terminal \cup {"idle"},
         t.phase \notin {"idle", "claimed"},
         t.host = task[j][k].host, t.retry = task[j][k].retry,
         t.phase \in Walking => /\ task[j][k].phase \in Walking
                               /\ t.clock = task[j][k].clock /\ InTime(j, t),
         t.phase = "defer" => t.retry < MaxRetries
  PROVE  IndInv'
  <1> USE SetsAssumption, RetryAssumption, TimeoutAssumption
  <1>1. /\ task' \in [Job -> [Claim -> Task]] /\ task'[j][k] = t
        /\ \A m \in Claim : m # k => task'[j][m] = task[j][m]
        /\ \A i \in Job : i # j => task'[i] = task[i]
    BY SetTaskFact DEF IndInv, TypeOK
  <1>2. TypeOK'
    BY <1>1 DEF IndInv, TypeOK
  <1>3. JobInv(j) /\ TypeOK
    BY DEF IndInv
  <1>4. RowClaim(j)' /\ FreshTask(j)'
    BY <1>1, <1>3 DEF JobInv, RowClaim, FreshTask
  <1>41. TaskHosted(j)'
    BY SMTT(30), <1>1, <1>3 DEF JobInv, TaskHosted
  <1>42. HeldHere(j)'
    BY <1>1, <1>3 DEF JobInv, HeldHere
  <1>5. WalkOwns(j)'
    <2> SUFFICES ASSUME NEW m \in Claim, task'[j][m].phase \in Walking
                 PROVE  /\ row[j].status = "running" /\ row[j].started_at = m
                        /\ row[j].age = task'[j][m].clock /\ InTime(j, task'[j][m])
      BY DEF WalkOwns, InTime
    <2>1. CASE m = k
      BY <1>1, <1>3, <2>1 DEF JobInv, WalkOwns
    <2>2. CASE m # k
      <3>1. task'[j][m] = task[j][m]
        BY <1>1, <2>2
      <3>2. WalkOwns(j)
        BY <1>3 DEF JobInv
      <3> QED BY <3>1, <3>2 DEF WalkOwns, InTime
    <2> QED BY <2>1, <2>2
  <1>6. SettledOnce(j)' /\ Accounted(j)' /\ SnapshotFresh(j)'
    BY ZenonT(30), <1>1, <1>3 DEF JobInv, SettledOnce, Accounted, SnapshotFresh
  <1>8. ASSUME NEW i \in Job, i # j PROVE JobInv(i)'
    BY <1>1, <1>8, JobFrame DEF IndInv
  <1> QED
    BY <1>2, <1>4, <1>41, <1>42, <1>5, <1>6, <1>8 DEF IndInv, JobInv

(* The same with the cancel part, for a task that begins no late attempt.  *)
LEMMA TaskMove ==
  ASSUME IndInv, NEW j \in Job, NEW k \in Claim, NEW t \in Task, SetTask(j, k, t),
         UNCHANGED <<row, claims, proc, held, restarts, handbacks, late>>,
         task[j][k].phase \notin Terminal \cup {"idle"},
         t.phase \notin {"idle", "claimed"},
         t.host = task[j][k].host, t.retry = task[j][k].retry,
         t.phase \in Walking => /\ task[j][k].phase \in Walking
                               /\ t.clock = task[j][k].clock /\ InTime(j, t),
         t.phase = "defer" => t.retry < MaxRetries,
         t.phase = "gate" /\ j \notin Transcription => ~row[j].cancel_requested
  PROVE  IndInv'
  <1>1. /\ task'[j][k] = t
        /\ \A m \in Claim : m # k => task'[j][m] = task[j][m]
    BY SetTaskFact DEF IndInv, TypeOK
  <1>2. JobInv(j) /\ TypeOK
    BY DEF IndInv
  <1>3. CancelSeen(j)'
    BY <1>1, <1>2 DEF JobInv, CancelSeen, WalkOwns
  <1>4. late' \in [Job -> Nat]
    BY <1>2 DEF TypeOK
  <1> QED
    BY <1>3, <1>4, TaskMoveBase

(* A walking task whose outcome is known keeps the invariant.              *)
LEMMA SettleMove ==
  ASSUME IndInv, NEW j \in Job, NEW k \in Claim,
         task[j][k].phase \in Walking,
         UNCHANGED <<row, claims, proc, held, restarts, handbacks, late>>,
         \/ \E ph \in Terminal : SetTask(j, k, Settle(task[j][k], ph))
         \/ \E limit \in 0 .. MaxRetries : SetTask(j, k, GiveBack(task[j][k], limit))
  PROVE  IndInv'
  <1>1. task[j][k] \in Task
    BY ZenonT(30) DEF IndInv, TypeOK
  <1>2. ASSUME NEW ph \in Terminal, SetTask(j, k, Settle(task[j][k], ph)) PROVE IndInv'
    <2> DEFINE t == Settle(task[j][k], ph)
    <2>1. t \in Task /\ t.phase = ph /\ t.host = task[j][k].host /\ t.retry = task[j][k].retry
      BY <1>1, SettleFact DEF Phase
    <2>2. SetTask(j, k, t)
      BY <1>2
    <2> HIDE DEF t
    <2> QED BY <2>1, <2>2, TaskMove
  <1>3. ASSUME NEW limit \in 0 .. MaxRetries, SetTask(j, k, GiveBack(task[j][k], limit))
        PROVE IndInv'
    <2> DEFINE t == GiveBack(task[j][k], limit)
    <2>1. t \in Task /\ t.phase = "requeue" /\ t.host = task[j][k].host
          /\ t.retry = task[j][k].retry
      BY <1>1, GiveBackFact
    <2>2. SetTask(j, k, t)
      BY <1>3
    <2> HIDE DEF t
    <2> QED BY <2>1, <2>2, TaskMove
  <1> QED
    BY <1>2, <1>3

(* The prelude of _execute keeps the invariant.                            *)
LEMMA BeginInv ==
  ASSUME IndInv, NEW j \in Job, NEW k \in Claim, Begin(j, k) PROVE IndInv'
  <1>1. /\ task[j][k].phase = "claimed" /\ task[j][k] \in Task
        /\ UNCHANGED <<row, claims, proc, held, restarts, handbacks, late>>
    BY DEF Begin, IndInv, TypeOK
  <1>0. WalkBudget[j] \in Nat /\ task[j][k].clock + WalkBudget[j] \in Nat
    BY <1>1, TimeoutAssumption DEF Task
  <1> DEFINE t == [task[j][k] EXCEPT !.phase = "walk",
                                     !.finish_by = task[j][k].clock + WalkBudget[j]]
  <1>2. CASE SetTask(j, k, t)
    <2>1. /\ t \in Task /\ t.phase = "walk" /\ t.host = task[j][k].host
          /\ t.retry = task[j][k].retry /\ t.clock = task[j][k].clock
          /\ t.finish_by = task[j][k].clock + WalkBudget[j]
      BY <1>0, <1>1 DEF Task, Phase
    <2> HIDE DEF t
    <2>2. task[j][k].clock <= StartSlack /\ task[j][k].clock \in Nat
      BY <1>1 DEF IndInv, JobInv, WalkOwns, InTime, Task
    <2>3. InTime(j, t)
      BY <1>0, <2>1, <2>2, TimeoutAssumption DEF InTime
    <2> QED BY <1>1, <1>2, <2>1, <2>3, TaskMove
  <1>3. \/ \E ph \in Terminal : SetTask(j, k, Settle(task[j][k], ph))
        \/ \E limit \in 0 .. MaxRetries : SetTask(j, k, GiveBack(task[j][k], limit))
        \/ SetTask(j, k, t)
    BY RetryAssumption DEF Begin
  <1> HIDE DEF t
  <1> QED BY <1>1, <1>2, <1>3, SettleMove

(* The loop head of the walk keeps the invariant.                          *)
LEMMA PollStopInv ==
  ASSUME IndInv, NEW j \in Job, NEW k \in Claim, PollStop(j, k) PROVE IndInv'
  <1> USE RetryAssumption, TimeoutAssumption
  <1>0. task[j][k] \in Task
    BY DEF IndInv, TypeOK
  <1>1. /\ task[j][k].phase = "walk" /\ task[j][k] \in Task
        /\ UNCHANGED <<row, claims, proc, held, restarts, handbacks, late>>
    BY <1>0 DEF PollStop
  <1>5. task[j][k].slot \in 0 .. AttemptCap
    BY <1>0 DEF Task
  <1>2. CASE j \notin Transcription /\ row[j].cancel_requested
    <2>1. SetTask(j, k, Settle(task[j][k], "cancelled"))
      BY <1>2 DEF PollStop
    <2> QED BY <1>1, <2>1, SettleMove
  <1>3. CASE /\ ~(j \notin Transcription /\ row[j].cancel_requested)
             /\ task[j][k].slot = AttemptCap
    <2>1. SetTask(j, k, GiveBack(task[j][k], MaxRetries))
      BY <1>3 DEF PollStop
    <2> QED BY <1>1, <2>1, SettleMove
  <1>4. CASE /\ ~(j \notin Transcription /\ row[j].cancel_requested)
             /\ task[j][k].slot # AttemptCap
    <2> DEFINE t == [task[j][k] EXCEPT !.phase = "gate"]
    <2>1. SetTask(j, k, t)
      BY <1>4 DEF PollStop
    <2>2. /\ t \in Task /\ t.phase = "gate" /\ t.host = task[j][k].host
          /\ t.retry = task[j][k].retry /\ t.clock = task[j][k].clock
          /\ t.finish_by = task[j][k].finish_by /\ t.slot = task[j][k].slot
      BY <1>1 DEF Task, Phase
    <2> HIDE DEF t
    <2>3. InTime(j, t)
      <3>1. InTime(j, task[j][k])
        BY <1>1 DEF IndInv, JobInv, WalkOwns
      <3>2. t.slot < AttemptCap
        BY <1>4, <1>5, <2>2
      <3> QED BY <1>1, <2>2, <3>1, <3>2 DEF InTime
    <2> QED BY <1>1, <1>4, <2>1, <2>2, <2>3, TaskMove
  <1> QED BY <1>2, <1>3, <1>4

(* The end of a provider attempt keeps the invariant.                      *)
LEMMA AttemptEndsInv ==
  ASSUME IndInv, NEW j \in Job, NEW k \in Claim, AttemptEnds(j, k) PROVE IndInv'
  <1> USE RetryAssumption, TimeoutAssumption
  <1>1. task[j][k] \in Task
    BY DEF IndInv, TypeOK
  <1>2. /\ task[j][k].phase = "call"
        /\ UNCHANGED <<row, claims, proc, held, restarts, handbacks, late>>
    BY DEF AttemptEnds
  <1>3. ASSUME NEW f \in {"content", "other"},
               SetTask(j, k, [task[j][k] EXCEPT !.phase = "walk", !.due = 0, !.fails = f])
        PROVE  IndInv'
    <2> DEFINE t == [task[j][k] EXCEPT !.phase = "walk", !.due = 0, !.fails = f]
    <2>1. /\ t \in Task /\ t.phase = "walk" /\ t.host = task[j][k].host
          /\ t.retry = task[j][k].retry /\ t.clock = task[j][k].clock
          /\ t.finish_by = task[j][k].finish_by
      BY <1>1 DEF Task, Phase
    <2>2. SetTask(j, k, t)
      BY <1>3
    <2> HIDE DEF t
    <2>3. InTime(j, t)
      BY <1>2, <2>1 DEF InTime, IndInv, JobInv, WalkOwns
    <2> QED BY <1>2, <2>1, <2>2, <2>3, TaskMove
  <1>4. \/ \E ph \in Terminal : SetTask(j, k, Settle(task[j][k], ph))
        \/ \E f \in {"content", "other"} :
             SetTask(j, k, [task[j][k] EXCEPT !.phase = "walk", !.due = 0, !.fails = f])
    BY DEF AttemptEnds
  <1> QED BY <1>2, <1>3, <1>4, SettleMove

(* An exception or an exhausted chain keeps the invariant.                 *)
LEMMA WalkEndsInv ==
  ASSUME IndInv, NEW j \in Job, NEW k \in Claim, WalkRaises(j, k) \/ ChainExhausted(j, k)
  PROVE  IndInv'
  <1> USE RetryAssumption
  <1>1. CASE WalkRaises(j, k)
    BY <1>1, SettleMove DEF WalkRaises
  <1>2. CASE ChainExhausted(j, k)
    BY <1>2, SettleMove DEF ChainExhausted
  <1> QED BY <1>1, <1>2

(* The decision of _requeue_or_fail keeps the invariant.                   *)
LEMMA RequeueOrFailInv ==
  ASSUME IndInv, NEW j \in Job, NEW k \in Claim, RequeueOrFail(j, k) PROVE IndInv'
  <1> USE RetryAssumption, TimeoutAssumption
  <1>1. /\ task[j][k].phase = "requeue" /\ task[j][k] \in Task
        /\ UNCHANGED <<row, claims, proc, held, restarts, handbacks, late>>
    BY SMTT(30) DEF RequeueOrFail, IndInv, TypeOK
  <1>2. PICK ph \in {"cancelled", "error", "defer"} :
          /\ SetTask(j, k, [task[j][k] EXCEPT !.phase = ph])
          /\ ph = "defer" => ~(task[j][k].retry + 1 > task[j][k].limit)
    BY DEF RequeueOrFail
  <1> DEFINE t == [task[j][k] EXCEPT !.phase = ph]
  <1>3. /\ t \in Task /\ t.phase = ph /\ t.host = task[j][k].host
        /\ t.retry = task[j][k].retry
    BY <1>1 DEF Task, Phase
  <1>4. SetTask(j, k, t)
    BY <1>2
  <1> HIDE DEF t
  <1>5. t.phase = "defer" => t.retry < MaxRetries
    BY <1>1, <1>2, <1>3 DEF Task
  <1> QED BY <1>1, <1>3, <1>4, <1>5, TaskMove

(* The finish-by gate keeps the invariant: an attempt begun past it ends   *)
(* within the walk's budget and its slack.                                 *)
LEMMA TryKeyInv ==
  ASSUME IndInv, NEW j \in Job, NEW k \in Claim, TryKey(j, k) PROVE IndInv'
  <1>1. /\ task[j][k].phase = "gate" /\ task[j][k] \in Task
        /\ UNCHANGED <<row, claims, proc, held, restarts, handbacks>>
    BY ZenonT(30) DEF TryKey, IndInv, TypeOK
  <1>2. /\ task[j][k].slot \in 0 .. AttemptCap /\ task[j][k].clock \in Nat
        /\ task[j][k].finish_by \in Nat /\ CallTimeout[j] \in Nat /\ AttemptSlack \in Nat
    BY <1>1, TimeoutAssumption DEF Task
  <1>3. InTime(j, task[j][k]) /\ row[j].status = "running" /\ row[j].started_at = k
    BY <1>1 DEF IndInv, JobInv, WalkOwns
  <1>4. task[j][k].slot + 1 \in 0 .. AttemptCap
    BY <1>1, <1>2, <1>3, RetryAssumption DEF InTime
  <1>5. CASE SetTask(j, k, GiveBack(task[j][k], MaxRetries)) /\ UNCHANGED late
    BY <1>1, <1>5, SettleMove, RetryAssumption
  <1>6. CASE /\ SetTask(j, k, [task[j][k] EXCEPT !.phase = "walk", !.slot = task[j][k].slot + 1])
             /\ UNCHANGED late
    <2> DEFINE t == [task[j][k] EXCEPT !.phase = "walk", !.slot = task[j][k].slot + 1]
    <2>1. /\ t \in Task /\ t.phase = "walk" /\ t.host = task[j][k].host
          /\ t.retry = task[j][k].retry /\ t.clock = task[j][k].clock
          /\ t.finish_by = task[j][k].finish_by
      BY <1>1, <1>4 DEF Task, Phase
    <2>2. SetTask(j, k, t)
      BY <1>6
    <2> HIDE DEF t
    <2>3. InTime(j, t)
      BY <1>1, <1>3, <2>1 DEF InTime
    <2> QED BY <1>1, <1>6, <2>1, <2>2, <2>3, TaskMove
  <1>7. CASE /\ CanFinish(j, task[j][k])
             /\ SetTask(j, k, [task[j][k] EXCEPT !.phase = "call", !.slot = task[j][k].slot + 1,
                                   !.due = task[j][k].clock + CallTimeout[j] + AttemptSlack])
             /\ late' = [late EXCEPT ![j] = @ + (IF row[j].cancel_requested THEN 1 ELSE 0)]
    <2> DEFINE d == task[j][k].clock + CallTimeout[j] + AttemptSlack
               t == [task[j][k] EXCEPT !.phase = "call", !.slot = task[j][k].slot + 1, !.due = d]
    <2>1. d \in Nat /\ d <= task[j][k].finish_by + AttemptSlack
      BY <1>2, <1>7 DEF CanFinish
    <2>2. SetTask(j, k, t)
      BY <1>7
    <2> HIDE DEF d
    <2>3. /\ t \in Task /\ t.phase = "call" /\ t.host = task[j][k].host
          /\ t.retry = task[j][k].retry /\ t.clock = task[j][k].clock
          /\ t.finish_by = task[j][k].finish_by /\ t.due = d
      BY <1>1, <1>4, <2>1 DEF Task, Phase
    <2> HIDE DEF t
    <2>4. InTime(j, t)
      BY <1>1, <1>3, <2>1, <2>3 DEF InTime
    <2>5. /\ late' \in [Job -> Nat] /\ \A i \in Job : i # j => late'[i] = late[i]
          /\ late'[j] = late[j] + (IF row[j].cancel_requested THEN 1 ELSE 0)
      BY <1>7 DEF IndInv, TypeOK
    <2>6. /\ task'[j][k] = t
          /\ \A m \in Claim : m # k => task'[j][m] = task[j][m]
      BY <2>2, <2>3, SetTaskFact DEF IndInv, TypeOK
    <2>7. \A m \in Claim : m # k => task[j][m].phase \notin Walking
      BY <1>3 DEF IndInv, JobInv, WalkOwns
    <2>8. j \notin Transcription => late[j] = 0
      <3>1. late[j] \in Nat /\ CancelSeen(j)
        BY DEF IndInv, JobInv, TypeOK
      <3> QED BY <1>1, <3>1 DEF CancelSeen
    <2>9. CancelSeen(j)'
      <3> SUFFICES ASSUME j \notin Transcription PROVE CancelSeen(j)'
        BY DEF CancelSeen
      <3>1. late'[j] \in {0, 1} /\ (late'[j] = 1 => row[j].cancel_requested)
        BY <2>5, <2>8
      <3>2. \A m \in Claim : task'[j][m].phase \notin {"gate", "claimed"}
        BY <2>3, <2>6, <2>7
      <3> QED BY <1>1, <1>3, <3>1, <3>2 DEF CancelSeen
    <2> QED BY <1>1, <2>2, <2>3, <2>4, <2>5, <2>9, TaskMoveBase
  <1> QED
    BY <1>5, <1>6, <1>7 DEF TryKey

(* Recording the outcome: the task ends, and the row is written or not.    *)
LEMMA EndTaskFact ==
  ASSUME IndInv, NEW j \in Job, NEW k \in Claim, task[j][k].phase # "idle", EndTask(j, k)
  PROVE  /\ task' \in [Job -> [Claim -> Task]] /\ task'[j][k] = IdleTask
         /\ \A m \in Claim : m # k => task'[j][m] = task[j][m]
         /\ \A i \in Job : i # j => task'[i] = task[i]
         /\ held' \in [Worker -> [Job -> 0 .. MaxClaims]]
         /\ \A w \in Worker : held'[w][j] \in {0, held[w][j]}
         /\ \A w \in Worker, i \in Job : i # j => held'[w][i] = held[w][i]
  <1>1. task[j][k].host \in Worker
    BY DEF IndInv, JobInv, TaskHosted
  <1>2. SetTask(j, k, IdleTask)
    BY DEF EndTask
  <1>3. /\ task' \in [Job -> [Claim -> Task]] /\ task'[j][k] = IdleTask
        /\ \A m \in Claim : m # k => task'[j][m] = task[j][m]
        /\ \A i \in Job : i # j => task'[i] = task[i]
    BY <1>2, IdleTaskFact, SetTaskFact DEF IndInv, TypeOK
  <1> DEFINE h == task[j][k].host
  <1>4. held' = [held EXCEPT ![h] = [held[h] EXCEPT ![j] = 0]]
    BY DEF EndTask
  <1>5. h \in Worker
    BY <1>1
  <1> HIDE DEF h
  <1>6. held \in [Worker -> [Job -> 0 .. MaxClaims]] /\ 0 \in 0 .. MaxClaims
    BY RetryAssumption DEF IndInv, TypeOK
  <1>7. [held[h] EXCEPT ![j] = 0] \in [Job -> 0 .. MaxClaims]
    BY <1>5, <1>6
  <1>8. held' \in [Worker -> [Job -> 0 .. MaxClaims]]
    BY <1>4, <1>5, <1>6, <1>7
  <1>9. \A w \in Worker : held'[w] = IF w = h THEN [held[h] EXCEPT ![j] = 0] ELSE held[w]
    BY <1>4, <1>5, <1>6
  <1>10. \A w \in Worker : held'[w][j] \in {0, held[w][j]}
    BY <1>5, <1>6, <1>9
  <1>11. \A w \in Worker, i \in Job : i # j => held'[w][i] = held[w][i]
    BY <1>5, <1>6, <1>9
  <1> QED
    BY <1>3, <1>8, <1>10, <1>11

(* A task that ends after leaving its row alone, or writing it as the      *)
(* invariant allows, keeps the invariant.                                  *)
LEMMA EndStep ==
  ASSUME IndInv, NEW j \in Job, NEW k \in Claim, task[j][k].phase # "idle", EndTask(j, k),
         UNCHANGED <<claims, proc, restarts, handbacks, late>>,
         row' \in [Job -> Row], \A i \in Job : i # j => row'[i] = row[i],
         RowClaim(j)', WalkOwns(j)', Accounted(j)', SnapshotFresh(j)', CancelSeen(j)', SettledOnce(j)'
  PROVE  IndInv'
  <1>1. /\ task' \in [Job -> [Claim -> Task]] /\ task'[j][k] = IdleTask
        /\ \A m \in Claim : m # k => task'[j][m] = task[j][m]
        /\ \A i \in Job : i # j => task'[i] = task[i]
        /\ held' \in [Worker -> [Job -> 0 .. MaxClaims]]
        /\ \A w \in Worker : held'[w][j] \in {0, held[w][j]}
        /\ \A w \in Worker, i \in Job : i # j => held'[w][i] = held[w][i]
    BY EndTaskFact
  <1>2. TypeOK' /\ claims[j] \in Nat
    BY <1>1, RetryAssumption DEF IndInv, TypeOK
  <1>3. JobInv(j)
    BY DEF IndInv
  <1>4. FreshTask(j)'
    BY <1>1, <1>3, IdleTaskFact DEF JobInv, FreshTask
  <1>5. TaskHosted(j)'
    <2>1. task'[j][k].phase = "idle" /\ task'[j][k].host = Nobody
      BY <1>1, IdleTaskFact
    <2> QED BY <1>1, <1>3, <2>1 DEF JobInv, TaskHosted
  <1>6. HeldHere(j)'
    <2> SUFFICES ASSUME NEW w \in Worker
                 PROVE  /\ held'[w][j] <= claims[j]
                        /\ \A m \in Claim : held'[w][j] = m /\ task'[j][m].phase # "idle" =>
                                            task'[j][m].host = w
      BY DEF HeldHere
    <2>1. /\ held[w][j] <= claims[j]
          /\ \A m \in Claim : held[w][j] = m /\ task[j][m].phase # "idle" => task[j][m].host = w
      BY <1>3 DEF JobInv, HeldHere
    <2>2. CASE held'[w][j] = 0
      BY <1>2, <2>2
    <2>3. CASE held'[w][j] = held[w][j]
      <3>1. ASSUME NEW m \in Claim, held'[w][j] = m, task'[j][m].phase # "idle"
            PROVE  task'[j][m].host = w
        <4>1. m # k
          BY <1>1, <3>1, IdleTaskFact
        <4>2. task'[j][m] = task[j][m]
          BY <1>1, <4>1
        <4> QED BY <2>1, <2>3, <3>1, <4>2
      <3> QED BY <2>1, <2>3, <3>1
    <2> QED BY <1>1, <2>2, <2>3
  <1>7. ASSUME NEW i \in Job, i # j PROVE JobInv(i)'
    BY <1>1, <1>7, JobFrame DEF IndInv
  <1> QED
    BY <1>2, <1>4, <1>5, <1>6, <1>7 DEF IndInv, JobInv

(* A task whose bookkeeping failed keeps the invariant.                    *)
LEMMA TaskDiesInv ==
  ASSUME IndInv, NEW j \in Job, NEW k \in Claim, TaskDies(j, k) PROVE IndInv'
  <1>1. /\ task[j][k].phase # "idle" /\ EndTask(j, k)
        /\ UNCHANGED <<row, claims, proc, restarts, handbacks, late>>
    BY DEF TaskDies
  <1>2. /\ task'[j][k] = IdleTask
        /\ \A m \in Claim : m # k => task'[j][m] = task[j][m]
    BY <1>1, EndTaskFact
  <1>3. JobInv(j) /\ row' \in [Job -> Row]
    BY <1>1 DEF IndInv, TypeOK
  <1>4. RowClaim(j)' /\ Accounted(j)'
    BY <1>1, <1>3 DEF JobInv, RowClaim, Accounted
  <1>5. WalkOwns(j)'
    BY <1>1, <1>2, <1>3, IdleTaskFact DEF JobInv, WalkOwns, InTime
  <1>6. SnapshotFresh(j)' /\ SettledOnce(j)'
    BY <1>1, <1>2, <1>3, IdleTaskFact DEF JobInv, SnapshotFresh, SettledOnce
  <1>7. CancelSeen(j)'
    BY <1>1, <1>2, <1>3, IdleTaskFact DEF JobInv, CancelSeen
  <1> QED
    BY <1>1, <1>3, <1>4, <1>5, <1>6, <1>7, EndStep

(* What the claim guard proves about the row it matches.                   *)
LEMMA OwnedRow ==
  ASSUME IndInv, NEW j \in Job, NEW k \in Claim, Owns(j, k), task[j][k].phase \in Settling
  PROVE  /\ row[j] \in Row /\ row[j].started_at = k
         /\ row[j].status \in {"running", task[j][k].phase}
         /\ task[j][k].phase = "defer" => row[j].status = "running"
         /\ task[j][k].retry = row[j].retry_count
         /\ \A m \in Claim : task[j][m].phase \notin Walking
  <1>1. JobInv(j) /\ row[j] \in Row
    BY DEF IndInv, TypeOK
  <1>2. row[j].started_at = k /\ k # 0
    BY DEF Owns
  <1>3. row[j].status \in Terminal \cup {"running"}
    BY <1>1, <1>2 DEF JobInv, RowClaim, Row, Status
  <1>4. row[j].status \in Terminal => row[j].status = task[j][k].phase
    BY <1>1, <1>2 DEF JobInv, SettledOnce
  <1>5. task[j][k].retry = row[j].retry_count
    BY <1>1, <1>2 DEF JobInv, SnapshotFresh
  <1>6. \A m \in Claim : task[j][m].phase \notin Walking
    BY <1>1, <1>2 DEF JobInv, WalkOwns
  <1> QED
    BY <1>1, <1>2, <1>3, <1>4, <1>5, <1>6

(* The requeue of _requeue_or_fail keeps the invariant.                    *)
LEMMA DeferInv ==
  ASSUME IndInv, NEW j \in Job, NEW k \in Claim, Defer(j, k) PROVE IndInv'
  <1>1. /\ task[j][k].phase = "defer" /\ EndTask(j, k)
        /\ UNCHANGED <<claims, proc, restarts, handbacks, late>>
    BY DEF Defer
  <1>2. CASE ~Owns(j, k)
    <2>1. TaskDies(j, k)
      BY <1>1, <1>2 DEF Defer, TaskDies
    <2> QED BY <2>1, TaskDiesInv
  <1>3. CASE Owns(j, k)
    <2>1. /\ task'[j][k] = IdleTask
          /\ \A m \in Claim : m # k => task'[j][m] = task[j][m]
      BY <1>1, EndTaskFact
    <2>2. /\ row[j] \in Row /\ row[j].started_at = k /\ row[j].status = "running"
          /\ task[j][k].retry = row[j].retry_count
          /\ \A m \in Claim : task[j][m].phase \notin Walking
      BY <1>1, <1>3, OwnedRow
    <2>3. JobInv(j) /\ row[j].retry_count < MaxRetries /\ row[j].retry_count \in Nat
      BY <1>1, <2>2, RetryAssumption DEF IndInv, JobInv, SnapshotFresh, Row
    <2> DEFINE c == task[j][k].retry + 1
               r == [row[j] EXCEPT !.status = "pending", !.started_at = 0, !.age = 0,
                                   !.deferred = TRUE, !.retry_count = c]
    <2>4. c = row[j].retry_count + 1 /\ c \in 0 .. MaxRetries + 1 /\ c <= MaxRetries
          /\ 0 \in 0 .. MaxClaims /\ 0 \in 0 .. StaleRunning + 1
      BY <2>2, <2>3, RetryAssumption, TimeoutAssumption
    <2>5. SetRow(j, r)
      BY <1>3 DEF Defer, Deferred
    <2> HIDE DEF c
    <2>6. /\ r \in Row /\ r.status = "pending" /\ r.started_at = 0 /\ r.retry_count = c
          /\ r.cancel_requested = row[j].cancel_requested
      BY <2>2, <2>4 DEF Row, Status
    <2> HIDE DEF r
    <2>7. row' \in [Job -> Row] /\ row'[j] = r /\ \A i \in Job : i # j => row'[i] = row[i]
      BY <2>5, <2>6, SetRowFact DEF IndInv, TypeOK
    <2>8. claims[j] \in Nat /\ handbacks[j] \in Nat
      BY DEF IndInv, TypeOK
    <2>9. RowClaim(j)'
      BY <1>1, <2>6, <2>7, <2>8 DEF RowClaim
    <2>10. Accounted(j)'
      BY <1>1, <2>2, <2>3, <2>4, <2>6, <2>7, <2>8, RetryAssumption DEF JobInv, Accounted
    <2>11. WalkOwns(j)'
      BY <2>1, <2>2, IdleTaskFact DEF WalkOwns
    <2>12. SnapshotFresh(j)' /\ SettledOnce(j)'
      BY <2>1, <2>3, <2>6, <2>7, IdleTaskFact DEF JobInv, SnapshotFresh, SettledOnce
    <2>13. CancelSeen(j)'
      <3>1. CancelSeen(j)
        BY <2>3 DEF JobInv
      <3>2. \A m \in Claim : task'[j][m].phase \notin {"gate", "claimed"}
        BY <2>1, <2>2, IdleTaskFact
      <3> QED BY <1>1, <2>2, <2>6, <2>7, <3>1, <3>2 DEF CancelSeen
    <2> QED
      BY <1>1, <2>7, <2>9, <2>10, <2>11, <2>12, <2>13, EndStep
  <1> QED BY <1>2, <1>3

(* What the terminal write makes of the row it owns.                       *)
LEMMA FinishRow ==
  ASSUME IndInv, NEW j \in Job, NEW k \in Claim, Owns(j, k), FinishWrite(j, k)
  PROVE  /\ row' \in [Job -> Row] /\ \A i \in Job : i # j => row'[i] = row[i]
         /\ SetRow(j, Finished(j, k)) /\ Finished(j, k) \in Row
         /\ row'[j].status = task[j][k].phase /\ row'[j].started_at = k
         /\ row'[j].retry_count = row[j].retry_count
  <1>1. task[j][k].phase \in Terminal /\ SetRow(j, Finished(j, k))
    BY DEF FinishWrite
  <1>2. row[j] \in Row /\ row[j].started_at = k
    BY DEF Owns, IndInv, TypeOK
  <1> DEFINE ph == task[j][k].phase
             r == [row[j] EXCEPT !.status = ph, !.audio = FALSE, !.age = 0]
  <1>3. r = Finished(j, k)
    BY DEF Finished
  <1>4. ph \in Status /\ 0 \in 0 .. StaleRunning + 1
    BY <1>1, TimeoutAssumption DEF Status
  <1> HIDE DEF ph
  <1>5. r \in Row /\ r.status = ph /\ r.started_at = k /\ r.retry_count = row[j].retry_count
    BY <1>2, <1>4 DEF Row
  <1> HIDE DEF r
  <1>6. row' \in [Job -> Row] /\ row'[j] = r /\ \A i \in Job : i # j => row'[i] = row[i]
    BY <1>1, <1>3, <1>5, SetRowFact DEF IndInv, TypeOK
  <1> QED
    BY <1>1, <1>3, <1>5, <1>6 DEF ph

(* A terminal write that will be repeated keeps the invariant.             *)
LEMMA FinishUnackedInv ==
  ASSUME IndInv, NEW j \in Job, NEW k \in Claim, FinishUnacked(j, k) PROVE IndInv'
  <1>1. /\ FinishWrite(j, k) /\ task[j][k].phase \in Terminal
        /\ UNCHANGED <<claims, task, proc, held, restarts, handbacks, late>>
    BY DEF FinishUnacked, FinishWrite
  <1>2. CASE ~Owns(j, k)
    <2>1. UNCHANGED vars
      BY <1>1, <1>2 DEF FinishWrite, vars
    <2>2. TypeOK'
      BY <2>1 DEF IndInv, TypeOK, vars
    <2> QED BY <2>1, <2>2, JobFrame DEF IndInv, vars
  <1>3. CASE Owns(j, k)
    <2>1. /\ SetRow(j, Finished(j, k)) /\ Finished(j, k) \in Row
          /\ row'[j].status = task[j][k].phase /\ row'[j].started_at = k
          /\ row'[j].retry_count = row[j].retry_count
      BY <1>1, <1>3, FinishRow
    <2>2. /\ row[j].started_at = k
          /\ \A m \in Claim : task[j][m].phase \notin Walking
      BY <1>1, <1>3, OwnedRow
    <2>3. JobInv(j)
      BY DEF IndInv
    <2>4. RowClaim(j)' /\ Accounted(j)'
      BY <1>1, <2>1, <2>2, <2>3 DEF JobInv, RowClaim, Accounted
    <2>5. FreshTask(j)' /\ TaskHosted(j)' /\ HeldHere(j)'
      BY <1>1, <2>3 DEF JobInv, FreshTask, TaskHosted, HeldHere
    <2>6. WalkOwns(j)'
      BY <1>1, <2>2 DEF WalkOwns
    <2>7. SettledOnce(j)' /\ SnapshotFresh(j)'
      BY <1>1, <2>1, <2>2, <2>3 DEF JobInv, SettledOnce, SnapshotFresh
    <2>8. CancelSeen(j)'
      BY <1>1, <2>1, <2>3 DEF JobInv, CancelSeen
    <2>9. JobInv(j)'
      BY <2>4, <2>5, <2>6, <2>7, <2>8 DEF JobInv
    <2> QED
      BY <1>1, <2>1, <2>9, RowStep
  <1> QED BY <1>2, <1>3

(* The terminal write of _finish keeps the invariant.                      *)
LEMMA FinishInv ==
  ASSUME IndInv, NEW j \in Job, NEW k \in Claim, Finish(j, k) PROVE IndInv'
  <1>1. /\ FinishWrite(j, k) /\ task[j][k].phase \in Terminal /\ EndTask(j, k)
        /\ UNCHANGED <<claims, proc, restarts, handbacks, late>>
    BY DEF Finish, FinishWrite
  <1>2. CASE ~Owns(j, k)
    <2>1. TaskDies(j, k)
      BY <1>1, <1>2 DEF FinishWrite, TaskDies
    <2> QED BY <2>1, TaskDiesInv
  <1>3. CASE Owns(j, k)
    <2>1. /\ row' \in [Job -> Row] /\ \A i \in Job : i # j => row'[i] = row[i]
          /\ row'[j].status = task[j][k].phase /\ row'[j].started_at = k
          /\ row'[j].retry_count = row[j].retry_count
      BY <1>1, <1>3, FinishRow
    <2>2. /\ row[j].started_at = k
          /\ \A m \in Claim : task[j][m].phase \notin Walking
      BY <1>1, <1>3, OwnedRow
    <2>3. /\ task'[j][k] = IdleTask
          /\ \A m \in Claim : m # k => task'[j][m] = task[j][m]
      BY <1>1, EndTaskFact
    <2>4. JobInv(j)
      BY DEF IndInv
    <2>5. RowClaim(j)' /\ Accounted(j)'
      BY <1>1, <2>1, <2>2, <2>4 DEF JobInv, RowClaim, Accounted
    <2>6. WalkOwns(j)'
      BY <2>2, <2>3, IdleTaskFact DEF WalkOwns
    <2>7. SettledOnce(j)' /\ SnapshotFresh(j)'
      BY <2>1, <2>2, <2>3, <2>4, IdleTaskFact DEF JobInv, SettledOnce, SnapshotFresh
    <2>8. CancelSeen(j)'
      BY <1>1, <2>1, <2>3, <2>4, IdleTaskFact DEF JobInv, CancelSeen
    <2> QED
      BY <1>1, <2>1, <2>5, <2>6, <2>7, <2>8, EndStep
  <1> QED BY <1>2, <1>3

(* The dispatcher's statements on many rows                                *)
LEMMA ClaimRowsFact ==
  ASSUME IndInv, NEW w \in Worker, NEW S \in SUBSET Job, ClaimableBatch(w, S), ClaimRows(S)
  PROVE  /\ row' \in [Job -> Row] /\ claims' \in [Job -> 0 .. MaxClaims]
         /\ \A j \in Job \ S : row'[j] = row[j] /\ claims'[j] = claims[j]
         /\ \A j \in S : /\ row[j] \in Row /\ row[j].status = "pending"
                         /\ claims[j] \in Nat /\ claims[j] + 1 \in Claim
                         /\ claims'[j] = claims[j] + 1
                         /\ row'[j].status = "running" /\ row'[j].started_at = claims[j] + 1
                         /\ row'[j].age = 0 /\ row'[j].retry_count = row[j].retry_count
                         /\ row'[j].cancel_requested = row[j].cancel_requested
  <1> DEFINE q(j) == [row[j] EXCEPT !.status = "running", !.started_at = claims[j] + 1, !.age = 0]
  <1>1. row \in [Job -> Row] /\ claims \in [Job -> 0 .. MaxClaims]
    BY DEF IndInv, TypeOK
  <1>2. ASSUME NEW j \in S
        PROVE  /\ row[j] \in Row /\ row[j].status = "pending" /\ claims[j] \in Nat
               /\ claims[j] + 1 \in Claim /\ claims[j] + 1 \in 0 .. MaxClaims
    BY <1>1, RetryAssumption DEF ClaimableBatch
  <1>3. ASSUME NEW j \in S
        PROVE  /\ q(j) \in Row
               /\ q(j).status = "running" /\ q(j).started_at = claims[j] + 1
               /\ q(j).age = 0 /\ q(j).retry_count = row[j].retry_count
               /\ q(j).cancel_requested = row[j].cancel_requested
    <2>1. 0 \in 0 .. StaleRunning + 1
      BY TimeoutAssumption
    <2> QED BY <1>2, <2>1 DEF Row, Status
  <1>4. row' = [j \in Job |-> IF j \in S THEN q(j) ELSE row[j]]
    BY DEF ClaimRows
  <1> HIDE DEF q
  <1>5. claims' = [j \in Job |-> IF j \in S THEN claims[j] + 1 ELSE claims[j]]
    BY DEF ClaimRows
  <1>6. row' \in [Job -> Row] /\ \A j \in Job : row'[j] = IF j \in S THEN q(j) ELSE row[j]
    BY <1>1, <1>3, <1>4
  <1>7. /\ claims' \in [Job -> 0 .. MaxClaims]
        /\ \A j \in Job : claims'[j] = IF j \in S THEN claims[j] + 1 ELSE claims[j]
    BY <1>1, <1>2, <1>5
  <1> QED
    BY <1>2, <1>3, <1>6, <1>7

(* The task a claim creates is a task of that process.                     *)
LEMMA NewTaskFact ==
  ASSUME NEW w \in Worker, NEW r \in Row
  PROVE  /\ NewTask(w, r) \in Task /\ NewTask(w, r).phase = "claimed"
         /\ NewTask(w, r).host = w /\ NewTask(w, r).retry = r.retry_count
         /\ NewTask(w, r).cancel = r.cancel_requested /\ NewTask(w, r).clock = 0
  <1>1. r.retry_count \in 0 .. MaxRetries + 1 /\ r.cancel_requested \in BOOLEAN
    BY DEF Row
  <1> QED
    BY <1>1, IdleTaskFact DEF NewTask, Task, Phase

(* The parts of a freshly claimed job's invariant that do not depend on    *)
(* whether the reply arrived.                                              *)
LEMMA ClaimedJob ==
  ASSUME IndInv, NEW w \in Worker, NEW S \in SUBSET Job, ClaimableBatch(w, S), ClaimRows(S),
         UNCHANGED handbacks, NEW j \in S
  PROVE  RowClaim(j)' /\ Accounted(j)' /\ SettledOnce(j)'
  <1>1. /\ row[j] \in Row /\ row[j].status = "pending"
        /\ claims[j] \in Nat /\ claims[j] + 1 \in Claim /\ claims'[j] = claims[j] + 1
        /\ row'[j].status = "running" /\ row'[j].started_at = claims[j] + 1
        /\ row'[j].retry_count = row[j].retry_count
    BY ClaimRowsFact
  <1>2. /\ JobInv(j) /\ handbacks[j] \in Nat /\ row[j].retry_count \in Nat
        /\ MaxRetries \in Nat
    BY <1>1, RetryAssumption DEF IndInv, TypeOK, Row
  <1> QED
    BY <1>1, <1>2 DEF JobInv, RowClaim, Accounted, SettledOnce

(* A claim whose reply is lost keeps the invariant.                        *)
LEMMA ClaimReplyLostInv ==
  ASSUME IndInv, NEW w \in Worker, NEW S \in SUBSET Job, ClaimReplyLost(w, S) PROVE IndInv'
  <1>1. /\ ClaimableBatch(w, S) /\ ClaimRows(S)
        /\ UNCHANGED <<task, proc, held, restarts, handbacks, late>>
    BY DEF ClaimReplyLost
  <1>2. TypeOK'
    BY <1>1, ClaimRowsFact DEF IndInv, TypeOK
  <1>3. ASSUME NEW j \in Job \ S PROVE JobInv(j)'
    BY <1>1, <1>3, ClaimRowsFact, JobFrame DEF IndInv
  <1>4. ASSUME NEW j \in S PROVE JobInv(j)'
    <2>1. /\ row[j].status = "pending" /\ claims[j] \in Nat
          /\ claims'[j] = claims[j] + 1 /\ row'[j].status = "running"
          /\ row'[j].started_at = claims[j] + 1 /\ row'[j].retry_count = row[j].retry_count
          /\ row'[j].cancel_requested = row[j].cancel_requested
      BY <1>1, ClaimRowsFact
    <2>2. JobInv(j) /\ \A v \in Worker : held[v][j] \in Nat
      BY DEF IndInv, TypeOK
    <2>3. RowClaim(j)' /\ Accounted(j)' /\ SettledOnce(j)'
      BY <1>1, ClaimedJob
    <2>4. \A k \in Claim : task[j][k].phase \notin Walking
      BY <2>1, <2>2 DEF JobInv, WalkOwns
    <2>5. FreshTask(j)' /\ HeldHere(j)'
      BY <1>1, <2>1, <2>2 DEF JobInv, FreshTask, HeldHere
    <2>6. TaskHosted(j)'
      BY <1>1, <2>2 DEF JobInv, TaskHosted
    <2>7. WalkOwns(j)'
      BY <1>1, <2>4 DEF WalkOwns
    <2>8. SnapshotFresh(j)'
      BY <1>1, <2>1, <2>2 DEF JobInv, SnapshotFresh, FreshTask
    <2>9. CancelSeen(j)'
      BY <1>1, <2>1, <2>2 DEF JobInv, CancelSeen
    <2> QED
      BY <2>3, <2>5, <2>6, <2>7, <2>8, <2>9 DEF JobInv
  <1> QED
    BY <1>2, <1>3, <1>4 DEF IndInv

(* A claim (_claim_batch) keeps the invariant.                             *)
LEMMA ClaimBatchInv ==
  ASSUME IndInv, NEW w \in Worker, NEW S \in SUBSET Job, ClaimBatch(w, S) PROVE IndInv'
  <1>1. /\ ClaimableBatch(w, S) /\ ClaimRows(S) /\ proc[w] = "up"
        /\ UNCHANGED <<proc, restarts, handbacks, late>>
    BY DEF ClaimBatch, ClaimableBatch
  <1>2. /\ row \in [Job -> Row] /\ task \in [Job -> [Claim -> Task]]
        /\ held \in [Worker -> [Job -> 0 .. MaxClaims]]
    BY DEF IndInv, TypeOK
  <1>21. \A j \in S : row[j] \in Row /\ claims[j] \in Nat /\ claims[j] + 1 \in Claim
    BY <1>1, ClaimRowsFact
  <1>22. \A j \in S : claims[j] + 1 \in 0 .. MaxClaims
    BY <1>21
  <1> DEFINE q(j, k) == IF j \in S /\ k = claims[j] + 1 THEN NewTask(w, row[j]) ELSE task[j][k]
             g(j) == IF j \in S THEN claims[j] + 1 ELSE held[w][j]
  <1>3. task' = [j \in Job |-> [k \in Claim |-> q(j, k)]] /\ held' = [held EXCEPT ![w] = [j \in Job |-> g(j)]]
    BY DEF ClaimBatch
  <1>4. \A j \in Job, k \in Claim : q(j, k) \in Task
    BY <1>2, <1>21, NewTaskFact
  <1>5. \A j \in Job : g(j) \in 0 .. MaxClaims
    BY <1>2, <1>22
  <1>6. /\ \A j \in S : NewTask(w, row[j]) = q(j, claims[j] + 1)
        /\ \A j \in Job, k \in Claim : ~(j \in S /\ k = claims[j] + 1) => q(j, k) = task[j][k]
        /\ \A j \in S : g(j) = claims[j] + 1
        /\ \A j \in Job \ S : g(j) = held[w][j] /\ \A k \in Claim : q(j, k) = task[j][k]
    OBVIOUS
  <1> HIDE DEF q, g
  <1>7. /\ task' \in [Job -> [Claim -> Task]]
        /\ \A j \in Job : task'[j] = [k \in Claim |-> q(j, k)]
        /\ \A j \in Job, k \in Claim : task'[j][k] = q(j, k)
    BY <1>3, <1>4
  <1>8. /\ held' \in [Worker -> [Job -> 0 .. MaxClaims]]
        /\ \A j \in Job : held'[w][j] = g(j)
        /\ \A v \in Worker, j \in Job : v # w => held'[v][j] = held[v][j]
    BY <1>2, <1>3, <1>5
  <1>9. TypeOK'
    BY <1>1, <1>7, <1>8, ClaimRowsFact DEF IndInv, TypeOK
  <1>10. ASSUME NEW j \in Job \ S PROVE JobInv(j)'
    <2>1. task'[j] = task[j]
      <3>1. \A k \in Claim : task'[j][k] = task[j][k]
        BY <1>6, <1>7
      <3>2. task[j] \in [Claim -> Task] /\ task'[j] \in [Claim -> Task]
        BY <1>2, <1>7
      <3>3. task[j] = [k \in Claim |-> task[j][k]] /\ task'[j] = [k \in Claim |-> task'[j][k]]
        BY <3>2
      <3> QED BY <3>1, <3>3
    <2>2. \A v \in Worker : held'[v][j] = held[v][j]
      BY <1>6, <1>8
    <2> QED BY <1>1, <2>1, <2>2, ClaimRowsFact, JobFrame DEF IndInv
  <1>11. ASSUME NEW j \in S PROVE JobInv(j)'
    <2>1. /\ row[j] \in Row /\ row[j].status = "pending"
          /\ claims[j] \in Nat /\ claims[j] + 1 \in Claim
          /\ claims'[j] = claims[j] + 1
          /\ row'[j].status = "running" /\ row'[j].started_at = claims[j] + 1
          /\ row'[j].age = 0 /\ row'[j].retry_count = row[j].retry_count
          /\ row'[j].cancel_requested = row[j].cancel_requested
      BY <1>1, ClaimRowsFact
    <2> DEFINE n == claims[j] + 1
    <2>2. n \in Claim /\ row'[j].started_at = n /\ claims'[j] = n /\ claims[j] < n /\ n \in Nat
      BY <2>1
    <2>3. /\ task'[j][n].phase = "claimed" /\ task'[j][n].host = w
          /\ task'[j][n].retry = row[j].retry_count
          /\ task'[j][n].cancel = row[j].cancel_requested /\ task'[j][n].clock = 0
      <3>1. task'[j][n] = NewTask(w, row[j])
        BY <1>6, <1>7, <2>2
      <3> QED BY <2>1, <3>1, NewTaskFact
    <2>4. \A k \in Claim : k # n => task'[j][k] = task[j][k]
      BY <1>6, <1>7, <2>2
    <2>5. held'[w][j] = n
      BY <1>6, <1>8
    <2> HIDE DEF n
    <2>6. JobInv(j) /\ \A v \in Worker : held[v][j] \in Nat
      BY DEF IndInv, TypeOK
    <2>7. RowClaim(j)' /\ Accounted(j)' /\ SettledOnce(j)'
      BY <1>1, ClaimedJob
    <2>8. \A k \in Claim : task[j][k].phase \notin Walking
      BY <2>1, <2>6 DEF JobInv, WalkOwns
    <2>9. FreshTask(j)'
      BY <2>1, <2>2, <2>4, <2>6 DEF JobInv, FreshTask
    <2>10. TaskHosted(j)'
      BY <1>1, <2>3, <2>4, <2>6 DEF JobInv, TaskHosted
    <2>11. HeldHere(j)'
      <3> SUFFICES ASSUME NEW v \in Worker
                   PROVE  /\ held'[v][j] <= n
                          /\ \A k \in Claim : held'[v][j] = k /\ task'[j][k].phase # "idle" =>
                                              task'[j][k].host = v
        BY <2>2 DEF HeldHere
      <3>1. CASE v = w
        BY <2>2, <2>3, <2>5, <3>1
      <3>2. CASE v # w
        <4>1. held'[v][j] = held[v][j] /\ held[v][j] <= claims[j] /\ held[v][j] \in Nat
          BY <1>8, <2>6, <3>2 DEF JobInv, HeldHere
        <4> QED BY <2>1, <2>2, <2>4, <2>6, <4>1 DEF JobInv, HeldHere
      <3> QED BY <3>1, <3>2
    <2>12. WalkOwns(j)'
      <3>1. InTime(j, task'[j][n])
        BY <2>3, TimeoutAssumption DEF InTime
      <3>2. \A k \in Claim : task'[j][k].phase \in Walking => k = n
        BY <2>4, <2>8
      <3> QED BY <2>1, <2>2, <2>3, <3>1, <3>2 DEF WalkOwns, InTime
    <2>13. SnapshotFresh(j)'
      BY <2>1, <2>2, <2>3, <2>4, <2>6 DEF JobInv, SnapshotFresh
    <2>14. CancelSeen(j)'
      BY <1>1, <2>1, <2>3, <2>4, <2>6 DEF JobInv, CancelSeen
    <2> QED
      BY <2>7, <2>9, <2>10, <2>11, <2>12, <2>13, <2>14 DEF JobInv
  <1> QED
    BY <1>9, <1>10, <1>11 DEF IndInv

(* The sweep never meets a job that is still being walked.                 *)
LEMMA StaleUnwalked ==
  ASSUME IndInv, NEW j \in Job, Stale(row[j])
  PROVE  \A k \in Claim : task[j][k].phase \notin Walking
  <1> SUFFICES ASSUME NEW k \in Claim, task[j][k].phase \in Walking PROVE FALSE
    OBVIOUS
  <1>1. row[j].age = task[j][k].clock /\ InTime(j, task[j][k])
    BY DEF IndInv, JobInv, WalkOwns
  <1>2. /\ task[j][k].clock \in Nat /\ task[j][k].finish_by \in Nat
        /\ WalkBudget[j] \in Nat
    BY TimeoutAssumption DEF IndInv, TypeOK, Task
  <1>3. task[j][k].clock <= StartSlack + WalkBudget[j] + AttemptSlack
    BY <1>1, <1>2, TimeoutAssumption DEF InTime
  <1>4. row[j].age <= StaleRunning
    BY <1>1, <1>2, <1>3, TimeoutAssumption, MarginAssumption
  <1> QED
    BY <1>1, <1>2, <1>4, TimeoutAssumption DEF Stale

(* The stale sweep (_requeue_stale_running) keeps the invariant.           *)
LEMMA SweepInv ==
  ASSUME IndInv, NEW w \in Worker, RequeueStaleRunning(w) PROVE IndInv'
  <1>1. UNCHANGED <<claims, task, proc, held, restarts, handbacks, late>>
    BY DEF RequeueStaleRunning
  <1>2. row \in [Job -> Row]
    BY DEF IndInv, TypeOK
  <1>3. ASSUME NEW j \in Job, Stale(row[j])
        PROVE  /\ Reclaimed(row[j]) \in Row /\ Reclaimed(row[j]).started_at = 0
               /\ row[j].retry_count + 1 <= MaxRetries => Reclaimed(row[j]).status = "pending"
               /\ ~(row[j].retry_count + 1 <= MaxRetries) => Reclaimed(row[j]).status = "error"
               /\ Reclaimed(row[j]).retry_count = row[j].retry_count + 1
               /\ Reclaimed(row[j]).cancel_requested = row[j].cancel_requested
    <2>1. /\ row[j].retry_count \in Nat /\ row[j].retry_count <= MaxRetries
          /\ row[j] \in Row
      BY <1>2, <1>3, RetryAssumption DEF IndInv, JobInv, Accounted, Stale, Row
    <2> DEFINE c == row[j].retry_count + 1
               u == IF c > MaxRetries THEN "error" ELSE "pending"
               r == [row[j] EXCEPT !.status = u, !.started_at = 0, !.age = 0, !.retry_count = c]
    <2>2. /\ c \in 0 .. MaxRetries + 1 /\ u \in Status
          /\ c <= MaxRetries => u = "pending"
          /\ ~(c <= MaxRetries) => u = "error"
          /\ 0 \in 0 .. MaxClaims /\ 0 \in 0 .. StaleRunning + 1
      BY <2>1, RetryAssumption, TimeoutAssumption DEF Status
    <2>3. Reclaimed(row[j]) = r
      BY DEF Reclaimed
    <2> HIDE DEF c, u
    <2>4. /\ r \in Row /\ r.started_at = 0 /\ r.status = u /\ r.retry_count = c
          /\ r.cancel_requested = row[j].cancel_requested
      BY <2>1, <2>2 DEF Row
    <2> HIDE DEF r
    <2> QED BY <2>2, <2>3, <2>4 DEF c
  <1>4. /\ row' \in [Job -> Row]
        /\ \A j \in Job : row'[j] = IF Stale(row[j]) THEN Reclaimed(row[j]) ELSE row[j]
    BY <1>2, <1>3 DEF RequeueStaleRunning
  <1>5. TypeOK'
    BY <1>1, <1>4 DEF IndInv, TypeOK
  <1>6. ASSUME NEW j \in Job, ~Stale(row[j]) PROVE JobInv(j)'
    BY <1>1, <1>4, <1>6, JobFrame DEF IndInv
  <1>7. ASSUME NEW j \in Job, Stale(row[j]) PROVE JobInv(j)'
    <2>1. /\ row'[j].started_at = 0 /\ row'[j].status \in {"pending", "error"}
          /\ row'[j].status = "pending" => row[j].retry_count + 1 <= MaxRetries
          /\ row'[j].retry_count = row[j].retry_count + 1
          /\ row'[j].cancel_requested = row[j].cancel_requested
      BY <1>3, <1>4, <1>7
    <2>2. /\ JobInv(j) /\ row[j].status = "running" /\ claims[j] \in Nat /\ handbacks[j] \in Nat
          /\ row[j].retry_count \in Nat
      BY <1>2, <1>7, RetryAssumption DEF IndInv, TypeOK, Stale, Row
    <2>3. \A k \in Claim : task[j][k].phase \notin Walking
      BY <1>7, StaleUnwalked
    <2>4. RowClaim(j)' /\ Accounted(j)'
      BY <1>1, <2>1, <2>2, RetryAssumption DEF JobInv, RowClaim, Accounted
    <2>5. FreshTask(j)' /\ HeldHere(j)'
      BY <1>1, <2>2 DEF JobInv, FreshTask, HeldHere
    <2>6. TaskHosted(j)'
      BY <1>1, <2>2 DEF JobInv, TaskHosted
    <2>7. WalkOwns(j)'
      BY <1>1, <2>3 DEF WalkOwns
    <2>8. SettledOnce(j)' /\ SnapshotFresh(j)'
      BY <1>1, <2>1, <2>2 DEF JobInv, SettledOnce, SnapshotFresh
    <2>9. CancelSeen(j)'
      BY <1>1, <2>1, <2>2 DEF JobInv, CancelSeen
    <2> QED
      BY <2>4, <2>5, <2>6, <2>7, <2>8, <2>9 DEF JobInv
  <1> QED
    BY <1>5, <1>6, <1>7 DEF IndInv

(* Worker processes                                                        *)
LEMMA ProcOnly ==
  ASSUME IndInv, UNCHANGED <<row, claims, task, held, handbacks, late>>,
         proc' \in [Worker -> {"up", "stopping", "releasing", "down"}],
         restarts' \in 0 .. MaxRestarts,
         \A w \in Worker : proc[w] \in {"up", "stopping"} => proc'[w] \in {"up", "stopping"}
  PROVE  IndInv'
  <1>1. TypeOK'
    BY DEF IndInv, TypeOK
  <1>2. ASSUME NEW j \in Job PROVE JobInv(j)'
    <2>1. JobInv(j)
      BY DEF IndInv
    <2>2. TaskHosted(j)'
      BY <2>1 DEF JobInv, TaskHosted
    <2> QED
      BY <2>1, <2>2 DEF JobInv, RowClaim, FreshTask, WalkOwns, InTime, HeldHere,
         SettledOnce, Accounted, SnapshotFresh, CancelSeen
  <1> QED
    BY <1>1, <1>2 DEF IndInv

(* Stopping, exiting and restarting a process keep the invariant.          *)
LEMMA StopExitRestartInv ==
  ASSUME IndInv, NEW w \in Worker, Stop(w) \/ Exit(w) \/ Restart(w) PROVE IndInv'
  <1>1. proc \in [Worker -> {"up", "stopping", "releasing", "down"}] /\ restarts \in 0 .. MaxRestarts
    BY DEF IndInv, TypeOK
  <1>2. UNCHANGED <<row, claims, task, held, handbacks, late>>
    BY DEF Stop, Exit, Restart
  <1>3. restarts' \in 0 .. MaxRestarts
    BY <1>1, RetryAssumption DEF Stop, Exit, Restart
  <1>4. PICK s \in {"up", "stopping", "down"} :
          /\ proc' = [proc EXCEPT ![w] = s]
          /\ proc[w] \in {"up", "stopping"} => s \in {"up", "stopping"}
    BY DEF Stop, Exit, Restart
  <1>5. /\ proc' \in [Worker -> {"up", "stopping", "releasing", "down"}]
        /\ \A v \in Worker : proc[v] \in {"up", "stopping"} => proc'[v] \in {"up", "stopping"}
    BY <1>1, <1>4
  <1> QED
    BY <1>2, <1>3, <1>5, ProcOnly

(* A process loses all its tasks.                                          *)
LEMMA GoneInv ==
  ASSUME IndInv, NEW w \in Worker, TasksGone(w), UNCHANGED <<row, claims, handbacks, late>>,
         proc' \in [Worker -> {"up", "stopping", "releasing", "down"}],
         \A v \in Worker : v # w => proc'[v] = proc[v],
         held' \in [Worker -> [Job -> 0 .. MaxClaims]],
         \A v \in Worker, j \in Job : held'[v][j] \in {0, held[v][j]},
         restarts' \in 0 .. MaxRestarts
  PROVE  IndInv'
  <1>1. task \in [Job -> [Claim -> Task]]
    BY DEF IndInv, TypeOK
  <1>2. /\ task' \in [Job -> [Claim -> Task]]
        /\ \A j \in Job, k \in Claim :
             task'[j][k] = IF task[j][k].host = w THEN IdleTask ELSE task[j][k]
    BY ZenonT(30), <1>1, IdleTaskFact DEF TasksGone
  <1>3. TypeOK'
    BY <1>2 DEF IndInv, TypeOK
  <1>4. ASSUME NEW j \in Job PROVE JobInv(j)'
    <2>1. JobInv(j) /\ claims[j] \in Nat
      BY RetryAssumption DEF IndInv, TypeOK
    <2>2. \A k \in Claim : \/ task'[j][k] = task[j][k] /\ task[j][k].host # w
                           \/ task'[j][k].phase = "idle" /\ task'[j][k].host = Nobody
      BY <1>2, IdleTaskFact
    <2>3. RowClaim(j)' /\ Accounted(j)'
      BY <2>1 DEF JobInv, RowClaim, Accounted
    <2>4. FreshTask(j)'
      BY <2>1, <2>2 DEF JobInv, FreshTask
    <2>5. WalkOwns(j)'
      <3> SUFFICES ASSUME NEW k \in Claim, task'[j][k].phase \in Walking
                   PROVE  /\ row[j].status = "running" /\ row[j].started_at = k
                          /\ row[j].age = task'[j][k].clock /\ InTime(j, task'[j][k])
        BY DEF WalkOwns, InTime
      <3>1. task'[j][k] = task[j][k]
        BY <2>2
      <3> QED BY <2>1, <3>1 DEF JobInv, WalkOwns
    <2>6. TaskHosted(j)'
      <3> SUFFICES ASSUME NEW k \in Claim
                   PROVE  IF task'[j][k].phase = "idle" THEN task'[j][k].host = Nobody
                          ELSE /\ task'[j][k].host \in Worker
                               /\ proc'[task'[j][k].host] \in {"up", "stopping"}
        BY DEF TaskHosted
      <3>1. CASE task'[j][k] = task[j][k] /\ task[j][k].host # w
        BY <2>1, <3>1 DEF JobInv, TaskHosted
      <3>2. CASE task'[j][k].phase = "idle" /\ task'[j][k].host = Nobody
        BY <3>2
      <3> QED BY <2>2, <3>1, <3>2
    <2>7. HeldHere(j)'
      <3> SUFFICES ASSUME NEW v \in Worker
                   PROVE  /\ held'[v][j] <= claims[j]
                          /\ \A k \in Claim : held'[v][j] = k /\ task'[j][k].phase # "idle" =>
                                              task'[j][k].host = v
        BY DEF HeldHere
      <3>1. CASE held'[v][j] = 0
        BY <2>1, <3>1
      <3>2. CASE held'[v][j] = held[v][j]
        BY <2>1, <2>2, <3>2 DEF JobInv, HeldHere
      <3> QED BY <3>1, <3>2
    <2>8. SettledOnce(j)'
      BY <2>1, <2>2 DEF JobInv, SettledOnce
    <2>9. SnapshotFresh(j)'
      BY <2>1, <2>2 DEF JobInv, SnapshotFresh
    <2>10. CancelSeen(j)'
      BY <2>1, <2>2 DEF JobInv, CancelSeen
    <2> QED
      BY <2>3, <2>4, <2>5, <2>6, <2>7, <2>8, <2>9, <2>10 DEF JobInv
  <1> QED
    BY <1>3, <1>4 DEF IndInv

(* Cancelling the stragglers and crashing keep the invariant.              *)
LEMMA CancelCrashInv ==
  ASSUME IndInv, NEW w \in Worker, CancelStragglers(w) \/ Crash(w) PROVE IndInv'
  <1>1. /\ proc \in [Worker -> {"up", "stopping", "releasing", "down"}]
        /\ restarts \in 0 .. MaxRestarts /\ held \in [Worker -> [Job -> 0 .. MaxClaims]]
        /\ 0 \in 0 .. MaxClaims
    BY RetryAssumption DEF IndInv, TypeOK
  <1>2. TasksGone(w) /\ UNCHANGED <<row, claims, handbacks, late>>
    BY DEF CancelStragglers, Crash
  <1>3. restarts' \in 0 .. MaxRestarts
    BY <1>1, RetryAssumption DEF CancelStragglers, Crash
  <1>4. PICK s \in {"releasing", "down"} : proc' = [proc EXCEPT ![w] = s]
    BY DEF CancelStragglers, Crash
  <1>5. /\ proc' \in [Worker -> {"up", "stopping", "releasing", "down"}]
        /\ \A v \in Worker : v # w => proc'[v] = proc[v]
    BY <1>1, <1>4
  <1>6. held' = held \/ held' = [held EXCEPT ![w] = [j \in Job |-> 0]]
    BY DEF CancelStragglers, Crash
  <1>7. /\ held' \in [Worker -> [Job -> 0 .. MaxClaims]]
        /\ \A v \in Worker, j \in Job : held'[v][j] \in {0, held[v][j]}
    BY SMTT(30), <1>1, <1>6
  <1> QED
    BY <1>2, <1>3, <1>5, <1>7, GoneInv

(* The hand-back of a stopping process never takes a row from a live walk: *)
(* the claim it is fenced on belongs to a task that was cancelled.         *)
LEMMA ReleaseClaimInv ==
  ASSUME IndInv, NEW w \in Worker, NEW j \in Job, ReleaseClaim(w, j) PROVE IndInv'
  <1>1. /\ proc[w] = "releasing" /\ held[w][j] # 0
        /\ held' = [held EXCEPT ![w] = [held[w] EXCEPT ![j] = 0]]
        /\ UNCHANGED <<claims, task, proc, restarts, late>>
    BY DEF ReleaseClaim
  <1>2. /\ held \in [Worker -> [Job -> 0 .. MaxClaims]] /\ 0 \in 0 .. MaxClaims
        /\ row[j] \in Row /\ row \in [Job -> Row] /\ handbacks \in [Job -> Nat]
    BY RetryAssumption DEF IndInv, TypeOK
  <1>3. /\ held' \in [Worker -> [Job -> 0 .. MaxClaims]]
        /\ \A v \in Worker, i \in Job : i # j => held'[v][i] = held[v][i]
        /\ \A v \in Worker : held'[v][j] \in {0, held[v][j]}
    <2>1. [held[w] EXCEPT ![j] = 0] \in [Job -> 0 .. MaxClaims]
      BY <1>2
    <2>2. held' \in [Worker -> [Job -> 0 .. MaxClaims]]
      BY <1>1, <1>2, <2>1
    <2>3. \A v \in Worker : held'[v] = IF v = w THEN [held[w] EXCEPT ![j] = 0] ELSE held[v]
      BY <1>1, <1>2
    <2> QED BY <1>2, <2>2, <2>3
  <1>4. /\ row' \in [Job -> Row] /\ handbacks' \in [Job -> Nat]
        /\ \A i \in Job : i # j => row'[i] = row[i] /\ handbacks'[i] = handbacks[i]
        /\ \/ row'[j] = row[j] /\ handbacks'[j] = handbacks[j]
           \/ /\ row[j].status = "running" /\ row[j].started_at = held[w][j]
              /\ row'[j].status = "pending" /\ row'[j].started_at = 0
              /\ row'[j].retry_count = row[j].retry_count
              /\ row'[j].cancel_requested = row[j].cancel_requested
              /\ handbacks'[j] = handbacks[j] + 1
    <2>1. CASE UNCHANGED <<row, handbacks>>
      BY <1>2, <2>1
    <2> DEFINE r == [row[j] EXCEPT !.status = "pending", !.started_at = 0, !.age = 0]
    <2>2. CASE /\ row[j].status = "running" /\ row[j].started_at = held[w][j]
               /\ SetRow(j, r) /\ handbacks' = [handbacks EXCEPT ![j] = @ + 1]
      <3>1. 0 \in 0 .. StaleRunning + 1
        BY TimeoutAssumption
      <3>2. /\ r \in Row /\ r.status = "pending" /\ r.started_at = 0
            /\ r.retry_count = row[j].retry_count
            /\ r.cancel_requested = row[j].cancel_requested
        BY <1>2, <3>1 DEF Row, Status
      <3>3. SetRow(j, r)
        BY <2>2
      <3> HIDE DEF r
      <3>4. row' \in [Job -> Row] /\ row'[j] = r /\ \A i \in Job : i # j => row'[i] = row[i]
        BY <1>2, <3>2, <3>3, SetRowFact
      <3>5. /\ handbacks' \in [Job -> Nat] /\ handbacks'[j] = handbacks[j] + 1
            /\ \A i \in Job : i # j => handbacks'[i] = handbacks[i]
        BY <1>2, <2>2
      <3> QED BY <2>2, <3>2, <3>4, <3>5
    <2> QED BY <2>1, <2>2 DEF ReleaseClaim
  <1>5. TypeOK'
    BY <1>1, <1>3, <1>4 DEF IndInv, TypeOK
  <1>6. ASSUME NEW i \in Job, i # j PROVE JobInv(i)'
    BY <1>1, <1>3, <1>4, <1>6, JobFrame DEF IndInv
  <1>7. /\ JobInv(j) /\ claims[j] \in Nat /\ handbacks[j] \in Nat
        /\ row[j].retry_count \in Nat
    BY <1>2, RetryAssumption DEF IndInv, TypeOK, Row
  <1>8. HeldHere(j)'
    <2> SUFFICES ASSUME NEW v \in Worker
                 PROVE  /\ held'[v][j] <= claims[j]
                        /\ \A k \in Claim : held'[v][j] = k /\ task[j][k].phase # "idle" =>
                                            task[j][k].host = v
      BY <1>1 DEF HeldHere
    <2>1. CASE held'[v][j] = 0
      BY <1>7, <2>1
    <2>2. CASE held'[v][j] = held[v][j]
      BY <1>7, <2>2 DEF JobInv, HeldHere
    <2> QED BY <1>3, <2>1, <2>2
  <1>9. FreshTask(j)' /\ TaskHosted(j)'
    BY <1>1, <1>7 DEF JobInv, FreshTask, TaskHosted
  <1>10. CASE row'[j] = row[j] /\ handbacks'[j] = handbacks[j]
    <2>1. RowClaim(j)' /\ Accounted(j)' /\ SettledOnce(j)' /\ SnapshotFresh(j)'
      BY <1>1, <1>7, <1>10 DEF JobInv, RowClaim, Accounted, SettledOnce, SnapshotFresh
    <2>2. WalkOwns(j)' /\ CancelSeen(j)'
      BY <1>1, <1>7, <1>10 DEF JobInv, WalkOwns, InTime, CancelSeen
    <2> QED BY <1>5, <1>6, <1>8, <1>9, <2>1, <2>2 DEF IndInv, JobInv
  <1>11. CASE /\ row[j].status = "running" /\ row[j].started_at = held[w][j]
              /\ row'[j].status = "pending" /\ row'[j].started_at = 0
              /\ row'[j].retry_count = row[j].retry_count
              /\ row'[j].cancel_requested = row[j].cancel_requested
              /\ handbacks'[j] = handbacks[j] + 1
    <2>1. \A k \in Claim : task[j][k].phase \notin Walking
      <3> SUFFICES ASSUME NEW k \in Claim, task[j][k].phase \in Walking PROVE FALSE
        OBVIOUS
      <3>1. held[w][j] = k /\ task[j][k].phase # "idle"
        BY <1>7, <1>11 DEF JobInv, WalkOwns
      <3>2. task[j][k].host = w
        BY <1>7, <3>1 DEF JobInv, HeldHere
      <3>3. proc[w] \in {"up", "stopping"}
        BY <1>7, <3>1, <3>2 DEF JobInv, TaskHosted
      <3> QED BY <1>1, <3>3
    <2>2. RowClaim(j)'
      BY <1>1, <1>7, <1>11 DEF RowClaim
    <2>3. Accounted(j)'
      BY <1>1, <1>7, <1>11, RetryAssumption DEF JobInv, Accounted
    <2>4. WalkOwns(j)'
      BY <1>1, <2>1 DEF WalkOwns
    <2>5. SettledOnce(j)' /\ SnapshotFresh(j)'
      BY <1>1, <1>7, <1>11 DEF JobInv, SettledOnce, SnapshotFresh
    <2>6. CancelSeen(j)'
      BY <1>1, <1>7, <1>11 DEF JobInv, CancelSeen
    <2> QED
      BY <1>5, <1>6, <1>8, <1>9, <2>2, <2>3, <2>4, <2>5, <2>6 DEF IndInv, JobInv
  <1> QED
    BY <1>4, <1>10, <1>11

(* Time passes for a walk and for its row alike, and never past the point  *)
(* where the timeouts of the walk have fired.                              *)
LEMMA TickInv == ASSUME IndInv, Tick PROVE IndInv'
  <1>1. UNCHANGED <<claims, proc, held, restarts, handbacks, late>>
    BY DEF Tick
  <1>2. row \in [Job -> Row] /\ task \in [Job -> [Claim -> Task]]
    BY DEF IndInv, TypeOK
  <1>21. \A j \in Job, k \in Claim : task[j][k] \in Task
    BY <1>2
  <1>3. ASSUME NEW j \in Job
        PROVE  /\ Aged(row[j]) \in Row
               /\ Aged(row[j]).status = row[j].status
               /\ Aged(row[j]).started_at = row[j].started_at
               /\ Aged(row[j]).retry_count = row[j].retry_count
               /\ Aged(row[j]).cancel_requested = row[j].cancel_requested
               /\ row[j].status = "running" /\ row[j].age <= StaleRunning =>
                    Aged(row[j]).age = row[j].age + 1
    <2> DEFINE a == row[j].age + 1
               r == [row[j] EXCEPT !.age = a]
    <2>1. row[j] \in Row /\ row[j].age \in 0 .. StaleRunning + 1
      BY <1>2 DEF Row
    <2>2. CASE ~(row[j].status = "running" /\ row[j].age <= StaleRunning)
      BY <2>1, <2>2 DEF Aged
    <2>3. CASE row[j].status = "running" /\ row[j].age <= StaleRunning
      <3>1. a \in 0 .. StaleRunning + 1
        BY <2>1, <2>3, TimeoutAssumption
      <3>2. Aged(row[j]) = r
        BY <2>3 DEF Aged
      <3> HIDE DEF a
      <3>3. /\ r \in Row /\ r.status = row[j].status /\ r.started_at = row[j].started_at
            /\ r.retry_count = row[j].retry_count
            /\ r.cancel_requested = row[j].cancel_requested /\ r.age = a
        BY <2>1, <3>1 DEF Row
      <3> HIDE DEF r
      <3> QED BY <3>2, <3>3 DEF a
    <2> QED BY <2>2, <2>3
  <1>4. ASSUME NEW j \in Job, NEW k \in Claim, task[j][k].phase \in Walking
        PROVE  LET t == [task[j][k] EXCEPT !.clock = task[j][k].clock + 1]
               IN  /\ t \in Task /\ t.phase = task[j][k].phase /\ t.host = task[j][k].host
                   /\ t.retry = task[j][k].retry /\ t.cancel = task[j][k].cancel
                   /\ t.clock = task[j][k].clock + 1 /\ t.finish_by = task[j][k].finish_by
                   /\ t.due = task[j][k].due /\ t.slot = task[j][k].slot
    <2> DEFINE c == task[j][k].clock + 1
    <2>1. task[j][k] \in Task /\ c \in Nat
      BY <1>21 DEF Task
    <2> HIDE DEF c
    <2>2. LET t == [task[j][k] EXCEPT !.clock = c]
          IN  /\ t \in Task /\ t.phase = task[j][k].phase /\ t.host = task[j][k].host
              /\ t.retry = task[j][k].retry /\ t.cancel = task[j][k].cancel
              /\ t.clock = c /\ t.finish_by = task[j][k].finish_by
              /\ t.due = task[j][k].due /\ t.slot = task[j][k].slot
      BY <2>1 DEF Task
    <2> QED BY <2>2 DEF c
  <1>5. row' \in [Job -> Row] /\ \A j \in Job : row'[j] = Aged(row[j])
    BY <1>3 DEF Tick
  <1>6. /\ task' \in [Job -> [Claim -> Task]]
        /\ \A j \in Job, k \in Claim :
             task'[j][k] = IF task[j][k].phase \in Walking
                             THEN [task[j][k] EXCEPT !.clock = task[j][k].clock + 1]
                             ELSE task[j][k]
    BY <1>2, <1>4, Zenon DEF Tick
  <1>61. ASSUME NEW j \in Job, NEW k \in Claim, task[j][k].phase \in Walking
         PROVE  /\ task'[j][k].phase = task[j][k].phase /\ task'[j][k].host = task[j][k].host
                /\ task'[j][k].retry = task[j][k].retry /\ task'[j][k].cancel = task[j][k].cancel
                /\ task'[j][k].clock = task[j][k].clock + 1
                /\ task'[j][k].finish_by = task[j][k].finish_by
                /\ task'[j][k].due = task[j][k].due /\ task'[j][k].slot = task[j][k].slot
    <2> DEFINE t == [task[j][k] EXCEPT !.clock = task[j][k].clock + 1]
    <2>1. task'[j][k] = t
      BY <1>6, <1>61
    <2>2. /\ t.phase = task[j][k].phase /\ t.host = task[j][k].host
          /\ t.retry = task[j][k].retry /\ t.cancel = task[j][k].cancel
          /\ t.clock = task[j][k].clock + 1 /\ t.finish_by = task[j][k].finish_by
          /\ t.due = task[j][k].due /\ t.slot = task[j][k].slot
      BY <1>4, <1>61
    <2> HIDE DEF t
    <2> QED BY <2>1, <2>2
  <1>7. TypeOK'
    BY <1>1, <1>5, <1>6 DEF IndInv, TypeOK
  <1>8. ASSUME NEW j \in Job PROVE JobInv(j)'
    <2>1. JobInv(j)
      BY DEF IndInv
    <2>2. /\ row'[j].status = row[j].status /\ row'[j].started_at = row[j].started_at
          /\ row'[j].retry_count = row[j].retry_count
          /\ row'[j].cancel_requested = row[j].cancel_requested
          /\ row[j].status = "running" /\ row[j].age <= StaleRunning =>
               row'[j].age = row[j].age + 1
      BY <1>3, <1>5
    <2>3. \A k \in Claim : /\ task'[j][k].phase = task[j][k].phase
                           /\ task'[j][k].host = task[j][k].host
                           /\ task'[j][k].retry = task[j][k].retry
                           /\ task'[j][k].cancel = task[j][k].cancel
      BY <1>6, <1>61
    <2>4. RowClaim(j)' /\ FreshTask(j)' /\ Accounted(j)'
      BY <1>1, <2>1, <2>2, <2>3 DEF JobInv, RowClaim, FreshTask, Accounted
    <2>5. TaskHosted(j)' /\ HeldHere(j)'
      BY <1>1, <2>1, <2>3 DEF JobInv, TaskHosted, HeldHere
    <2>6. SettledOnce(j)' /\ SnapshotFresh(j)' /\ CancelSeen(j)'
      BY <1>1, <2>1, <2>2, <2>3 DEF JobInv, SettledOnce, SnapshotFresh, CancelSeen
    <2>7. WalkOwns(j)'
      <3> SUFFICES ASSUME NEW k \in Claim, task'[j][k].phase \in Walking
                   PROVE  /\ row'[j].status = "running" /\ row'[j].started_at = k
                          /\ row'[j].age = task'[j][k].clock /\ InTime(j, task'[j][k])
        BY DEF WalkOwns, InTime
      <3>1. task[j][k].phase \in Walking
        BY <2>3
      <3>2. /\ row[j].status = "running" /\ row[j].started_at = k
            /\ row[j].age = task[j][k].clock /\ InTime(j, task[j][k])
        BY <2>1, <3>1 DEF JobInv, WalkOwns
      <3>3. /\ task'[j][k].clock = task[j][k].clock + 1
            /\ task'[j][k].finish_by = task[j][k].finish_by
            /\ task'[j][k].due = task[j][k].due /\ task'[j][k].slot = task[j][k].slot
            /\ task'[j][k].phase = task[j][k].phase
        BY <1>61, <3>1
      <3>4. ~Stale(row[j])
        BY <3>1, StaleUnwalked
      <3>5. /\ row[j].age \in Nat /\ task[j][k].clock \in Nat /\ task[j][k].finish_by \in Nat
            /\ task[j][k].due \in Nat
        BY SMTT(30), <1>2, <1>21, TimeoutAssumption DEF Row, Task
      <3>6. row'[j].age = task'[j][k].clock
        BY <2>2, <3>2, <3>3, <3>4, <3>5, TimeoutAssumption DEF Stale
      <3>7. MayWait(task[j][k])
        BY DEF Tick
      <3>8. /\ task[j][k].phase = "claimed" => task[j][k].clock < StartSlack
            /\ task[j][k].phase \in {"walk", "gate"} => task[j][k].clock < task[j][k].finish_by
            /\ task[j][k].phase = "call" => task[j][k].clock < task[j][k].due
        BY <3>7 DEF MayWait
      <3>9. InTime(j, task'[j][k])
        BY <3>2, <3>3, <3>5, <3>8, TimeoutAssumption DEF InTime
      <3> QED BY <2>2, <3>2, <3>6, <3>9
    <2> QED
      BY <2>4, <2>5, <2>6, <2>7 DEF JobInv
  <1> QED
    BY <1>7, <1>8 DEF IndInv

(* One step of any actor, or none, keeps the invariant.                    *)
LEMMA NextInv == ASSUME IndInv, [Next]_vars PROVE IndInv'
  <1>1. CASE UNCHANGED vars
    <2>1. TypeOK'
      BY <1>1 DEF IndInv, TypeOK, vars
    <2> QED BY <1>1, <2>1, JobFrame DEF IndInv, vars
  <1>2. ASSUME NEW j \in Job,
               Submit(j) \/ Cancel(j) \/ PurgeFinished(j) \/ BackoffElapses(j)
        PROVE  IndInv'
    BY <1>2, SubmitInv, CancelInv, PurgeInv, BackoffInv
  <1>3. ASSUME NEW w \in Worker, NEW S \in SUBSET Job,
               ClaimBatch(w, S) \/ ClaimReplyLost(w, S)
        PROVE  IndInv'
    BY <1>3, ClaimBatchInv, ClaimReplyLostInv
  <1>4. ASSUME NEW w \in Worker,
               RequeueStaleRunning(w) \/ Stop(w) \/ Crash(w) \/ ProcStep(w)
        PROVE  IndInv'
    BY <1>4, SweepInv, StopExitRestartInv, CancelCrashInv, ReleaseClaimInv DEF ProcStep
  <1>5. ASSUME NEW j \in Job, NEW k \in Claim, TaskStep(j, k) \/ FinishUnacked(j, k)
        PROVE  IndInv'
    BY <1>5, BeginInv, PollStopInv, TryKeyInv, AttemptEndsInv, WalkEndsInv, RequeueOrFailInv,
       DeferInv, FinishInv, TaskDiesInv, FinishUnackedInv DEF TaskStep
  <1> QED
    BY <1>1, <1>2, <1>3, <1>4, <1>5, TickInv DEF Next

(* The strengthened invariant holds of every reachable state.              *)
THEOREM Invariance == Spec => []IndInv
  <1>1. Init => IndInv
    BY InitInv
  <1>2. IndInv /\ [Next]_vars => IndInv'
    BY NextInv
  <1> QED
    BY <1>1, <1>2, PTL DEF Spec

(* Rows, tasks, processes and counters stay within their types; the bound  *)
(* on retry_count is the content: no mixture of requeue and sweep passes   *)
(* MaxRetries + 1.                                                         *)
THEOREM TypeCorrect == Spec => []TypeOK
  <1>1. IndInv => TypeOK
    BY DEF IndInv
  <1> QED
    BY <1>1, Invariance, PTL

(* One execution at a time: a task that still walks providers holds the    *)
(* current claim of its row, whatever sweeps, restarts and hand-backs do   *)
(* (the finish-by gate against _STALE_RUNNING_S).                          *)
THEOREM OneExecution == Spec => []SoleExecution
  <1>1. IndInv => SoleExecution
    BY DEF IndInv, JobInv, WalkOwns, SoleExecution
  <1> QED
    BY <1>1, Invariance, PTL

(* Every claim of a job is paid by a counted retry or by a hand-back.      *)
THEOREM BudgetExact == Spec => []ExecutionBudget
  <1>1. IndInv => ExecutionBudget
    BY DEF IndInv, JobInv, Accounted, ExecutionBudget
  <1> QED
    BY <1>1, Invariance, PTL

(* After a client's cancel at most one more attempt of a chat job begins.  *)
THEOREM CancelBounded == Spec => []CancelBudget
  <1>1. IndInv => CancelBudget
    BY DEF IndInv, JobInv, CancelSeen, CancelBudget
  <1> QED
    BY <1>1, Invariance, PTL

(* A step moves the status of a job along an arrow of the life cycle and   *)
(* counts a claim exactly when it starts an execution.                     *)
LEMMA StatusStep ==
  ASSUME IndInv, [Next]_vars, NEW j \in Job
  PROVE  \/ row'[j].status = row[j].status /\ claims'[j] = claims[j]
         \/ /\ row[j].status = "pending" /\ row'[j].status = "running"
            /\ claims'[j] = claims[j] + 1
         \/ /\ claims'[j] = claims[j]
            /\ \/ row[j].status = "none" /\ row'[j].status = "pending"
               \/ row[j].status = "running" /\ row'[j].status = "pending"
               \/ row[j].status = "pending" /\ row'[j].status = "cancelled"
               \/ row[j].status = "running" /\ row'[j].status \in Terminal
               \/ row[j].status \in Terminal /\ row'[j].status = "purged"
  <1> DEFINE G == \/ row'[j].status = row[j].status /\ claims'[j] = claims[j]
                  \/ /\ row[j].status = "pending" /\ row'[j].status = "running"
                     /\ claims'[j] = claims[j] + 1
                  \/ /\ claims'[j] = claims[j]
                     /\ \/ row[j].status = "none" /\ row'[j].status = "pending"
                        \/ row[j].status = "running" /\ row'[j].status = "pending"
                        \/ row[j].status = "pending" /\ row'[j].status = "cancelled"
                        \/ row[j].status = "running" /\ row'[j].status \in Terminal
                        \/ row[j].status \in Terminal /\ row'[j].status = "purged"
  <1>0. /\ row \in [Job -> Row] /\ claims \in [Job -> 0 .. MaxClaims]
        /\ \A i \in Job : row[i] \in Row
    BY DEF IndInv, TypeOK
  <1>1. ASSUME UNCHANGED <<row, claims>> PROVE G
    BY <1>1
  <1>2. ASSUME NEW i \in Job, NEW r, SetRow(i, r), UNCHANGED claims,
               \/ r.status = row[i].status
               \/ row[i].status = "none" /\ r.status = "pending"
               \/ row[i].status = "running" /\ r.status = "pending"
               \/ row[i].status = "pending" /\ r.status = "cancelled"
               \/ row[i].status = "running" /\ r.status \in Terminal
               \/ row[i].status \in Terminal /\ r.status = "purged"
        PROVE  G
    <2>1. row'[j] = IF j = i THEN r ELSE row[j]
      BY <1>0, <1>2 DEF SetRow
    <2> QED BY <1>2, <2>1
  <1>3. ASSUME NEW i \in Job, Submit(i) PROVE G
    <2> DEFINE r == [NoRow EXCEPT !.status = "pending", !.audio = (i \in Transcription)]
    <2>1. r.status = "pending"
      <3>1. \A b \in BOOLEAN : [NoRow EXCEPT !.status = "pending", !.audio = b].status = "pending"
        BY NoRowFact DEF Row
      <3>2. (i \in Transcription) \in BOOLEAN
        OBVIOUS
      <3> QED BY <3>1, <3>2, Zenon
    <2>2. SetRow(i, r) /\ UNCHANGED claims /\ row[i].status = "none"
      BY <1>3 DEF Submit
    <2> HIDE DEF r, G
    <2> QED BY <1>2, <2>1, <2>2
  <1>4. ASSUME NEW i \in Job, Cancel(i) PROVE G
    <2>1. /\ [row[i] EXCEPT !.status = "cancelled", !.audio = FALSE].status = "cancelled"
          /\ [row[i] EXCEPT !.cancel_requested = TRUE].status = row[i].status
      BY <1>0 DEF Row
    <2> HIDE DEF G
    <2> QED BY <1>2, <1>4, <2>1 DEF Cancel
  <1>5. ASSUME NEW i \in Job, PurgeFinished(i) PROVE G
    <2>1. [NoRow EXCEPT !.status = "purged"].status = "purged"
      BY NoRowFact DEF Row
    <2> HIDE DEF G
    <2> QED BY <1>2, <1>5, <2>1 DEF PurgeFinished
  <1>6. ASSUME NEW i \in Job, BackoffElapses(i) PROVE G
    <2>1. [row[i] EXCEPT !.deferred = FALSE].status = row[i].status
      BY <1>0 DEF Row
    <2> HIDE DEF G
    <2> QED BY <1>2, <1>6, <2>1 DEF BackoffElapses
  <1>7. ASSUME NEW w \in Worker, NEW S \in SUBSET Job, ClaimBatch(w, S) \/ ClaimReplyLost(w, S)
        PROVE  G
    <2>1. ClaimableBatch(w, S) /\ ClaimRows(S)
      BY <1>7 DEF ClaimBatch, ClaimReplyLost
    <2>2. CASE j \notin S
      BY <1>0, <2>1, <2>2 DEF ClaimRows
    <2>3. CASE j \in S
      BY <2>1, <2>3, ClaimRowsFact
    <2> QED BY <2>2, <2>3
  <1>8. ASSUME NEW w \in Worker, RequeueStaleRunning(w) PROVE G
    <2>1. row'[j] = IF Stale(row[j]) THEN Reclaimed(row[j]) ELSE row[j]
      BY <1>0, <1>8 DEF RequeueStaleRunning
    <2>2. Reclaimed(row[j]).status \in {"pending", "error"}
      BY <1>0 DEF Reclaimed, Row
    <2>3. UNCHANGED claims
      BY <1>8 DEF RequeueStaleRunning
    <2> QED BY <2>1, <2>2, <2>3 DEF Stale
  <1>9. ASSUME NEW w \in Worker, NEW i \in Job, ReleaseClaim(w, i) PROVE G
    <2>1. [row[i] EXCEPT !.status = "pending", !.started_at = 0, !.age = 0].status = "pending"
      BY <1>0 DEF Row
    <2> HIDE DEF G
    <2> QED BY <1>1, <1>2, <1>9, <2>1 DEF ReleaseClaim
  <1>10. ASSUME NEW i \in Job, NEW k \in Claim, Defer(i, k) PROVE G
    <2>1. CASE Owns(i, k)
      <3>1. Deferred(i, k).status = "pending"
        BY <1>0 DEF Deferred, Row
      <3>2. row[i].status = "running" /\ SetRow(i, Deferred(i, k)) /\ UNCHANGED claims
        BY <1>10, <2>1, OwnedRow DEF Defer
      <3> HIDE DEF G
      <3> QED BY <1>2, <3>1, <3>2
    <2>2. CASE ~Owns(i, k)
      BY <1>10, <2>2 DEF Defer
    <2> QED BY <2>1, <2>2
  <1>11. ASSUME NEW i \in Job, NEW k \in Claim, FinishWrite(i, k), UNCHANGED claims PROVE G
    <2>1. CASE Owns(i, k)
      <3>1. task[i][k].phase \in Terminal /\ SetRow(i, Finished(i, k))
        BY <1>11, <2>1 DEF FinishWrite
      <3>2. row[i].status \in {"running", task[i][k].phase}
        BY <2>1, <3>1, OwnedRow
      <3>3. Finished(i, k).status = task[i][k].phase
        BY <1>0 DEF Finished, Row
      <3> HIDE DEF G
      <3> QED BY <1>2, <1>11, <3>1, <3>2, <3>3
    <2>2. CASE ~Owns(i, k)
      BY <1>11, <2>2 DEF FinishWrite
    <2> QED BY <2>1, <2>2
  <1>12. ASSUME Tick PROVE G
    <2>1. row'[j] = Aged(row[j]) /\ UNCHANGED claims
      BY <1>12 DEF Tick
    <2>2. Aged(row[j]).status = row[j].status
      BY <1>0 DEF Aged, Row
    <2> QED BY <2>1, <2>2
  <1> HIDE DEF G
  <1>13. ASSUME NEW w \in Worker, RequeueStaleRunning(w) \/ Stop(w) \/ Crash(w) \/ ProcStep(w)
         PROVE  G
    BY <1>1, <1>8, <1>9, <1>13 DEF ProcStep, Stop, Crash, CancelStragglers, Exit, Restart
  <1>14. ASSUME NEW i \in Job, NEW k \in Claim, TaskStep(i, k) \/ FinishUnacked(i, k) PROVE G
    <2>1. CASE Finish(i, k) \/ FinishUnacked(i, k)
      BY <1>11, <2>1 DEF Finish, FinishUnacked
    <2>2. CASE Begin(i, k) \/ PollStop(i, k) \/ TryKey(i, k) \/ AttemptEnds(i, k)
               \/ WalkRaises(i, k) \/ ChainExhausted(i, k) \/ RequeueOrFail(i, k) \/ TaskDies(i, k)
      BY <1>1, <2>2 DEF Begin, PollStop, TryKey, AttemptEnds, WalkRaises, ChainExhausted,
         RequeueOrFail, TaskDies
    <2> QED BY <1>10, <1>14, <2>1, <2>2 DEF TaskStep
  <1> QED
    BY <1>1, <1>3, <1>4, <1>5, <1>6, <1>7, <1>12, <1>13, <1>14 DEF Next, vars, G

(* A status a client has seen as final is never rewritten: the claim guard *)
(* of _finish and _requeue_or_fail keeps late writers out.                 *)
THEOREM FinalIsFinal == Spec => TerminalStable
  <1>1. IndInv /\ [Next]_vars =>
          [\A j \in Job : row[j].status \in Terminal =>
             row'[j].status \in {row[j].status, "purged"}]_vars
    <2> SUFFICES ASSUME IndInv, [Next]_vars, NEW j \in Job, row[j].status \in Terminal
                 PROVE  row'[j].status \in {row[j].status, "purged"}
      OBVIOUS
    <2> QED BY StatusStep
  <1> QED
    BY <1>1, Invariance, PTL DEF Spec, TerminalStable

-----------------------------------------------------------------------------
(* The queue implements the life cycle its clients rely on. What the       *)
(* invariant leaves open is the number of executions: a hand-back is free, *)
(* so it has to be paid for by a stop of a process.                        *)

HIDE DEF Claim, Walking

(* The processes that may still hand a job back are finitely many.         *)
LEMMA ReleasableFinite ==
  ASSUME NEW j \in Job
  PROVE  IsFiniteSet(Releasable(j)) /\ Cardinality(Releasable(j)) \in Nat
  <1>1. IsFiniteSet(Releasable(j))
    BY WorkersAssumption, FS_Subset DEF Releasable
  <1> QED
    BY <1>1, FS_CardinalityType

(* A step after which no further process can hand the job back costs       *)
(* nothing.                                                                *)
LEMMA NoneAdded ==
  ASSUME TypeOK, NEW j \in Job, NEW R, R \subseteq Releasable(j)
  PROVE  Cardinality(R) \in Nat /\ Cardinality(R) <= Cardinality(Releasable(j))
  <1>1. IsFiniteSet(Releasable(j)) /\ Cardinality(Releasable(j)) \in Nat
    BY ReleasableFinite
  <1>2. IsFiniteSet(R) /\ Cardinality(R) <= Cardinality(Releasable(j))
    BY <1>1, FS_Subset
  <1> QED
    BY <1>2, FS_CardinalityType

(* What the steps other than Stop and a successful ReleaseClaim do to the  *)
(* two sides of the balance.                                               *)
LEMMA Quiet ==
  ASSUME TypeOK, TypeOK', StopsPay, handbacks' = handbacks, restarts <= restarts',
         \A w \in Worker : proc'[w] \in {"stopping", "releasing"} =>
                             proc[w] \in {"stopping", "releasing"},
         \A w \in Worker, j \in Job : proc'[w] \in {"stopping", "releasing"} =>
                                        held'[w][j] \in {0, held[w][j]}
  PROVE  StopsPay'
  <1> SUFFICES ASSUME NEW j \in Job
               PROVE  handbacks'[j] + Cardinality(Releasable(j)') <= restarts'
    BY DEF StopsPay
  <1>1. Releasable(j)' \subseteq Releasable(j)
    BY DEF Releasable
  <1>2. /\ Cardinality(Releasable(j)') \in Nat
        /\ Cardinality(Releasable(j)') <= Cardinality(Releasable(j))
    BY <1>1, NoneAdded
  <1>3. Cardinality(Releasable(j)) \in Nat
    BY ReleasableFinite
  <1>4. handbacks[j] \in Nat /\ restarts \in Nat /\ restarts' \in Nat
    BY RetryAssumption DEF TypeOK
  <1>5. handbacks[j] + Cardinality(Releasable(j)) <= restarts
    BY DEF StopsPay
  <1> QED
    BY <1>2, <1>3, <1>4, <1>5

(* A stop adds at most its own process.                                    *)
LEMMA StopPays ==
  ASSUME TypeOK, StopsPay, NEW w \in Worker, Stop(w) PROVE StopsPay'
  <1> SUFFICES ASSUME NEW j \in Job
               PROVE  handbacks'[j] + Cardinality(Releasable(j)') <= restarts'
    BY DEF StopsPay
  <1>1. /\ handbacks' = handbacks /\ held' = held /\ restarts' = restarts + 1
        /\ \A v \in Worker : v # w => proc'[v] = proc[v]
    BY DEF Stop, TypeOK
  <1>2. Releasable(j)' \subseteq Releasable(j) \cup {w}
    BY <1>1 DEF Releasable
  <1>3. IsFiniteSet(Releasable(j)) /\ Cardinality(Releasable(j)) \in Nat
    BY ReleasableFinite
  <1>4. /\ IsFiniteSet(Releasable(j) \cup {w})
        /\ Cardinality(Releasable(j) \cup {w}) \in
             {Cardinality(Releasable(j)), Cardinality(Releasable(j)) + 1}
    BY <1>3, FS_AddElement
  <1>5. /\ IsFiniteSet(Releasable(j)')
        /\ Cardinality(Releasable(j)') <= Cardinality(Releasable(j) \cup {w})
    BY <1>2, <1>4, FS_Subset
  <1>6. Cardinality(Releasable(j)') \in Nat
    BY <1>5, FS_CardinalityType
  <1>7. /\ handbacks[j] \in Nat /\ restarts \in Nat
        /\ handbacks[j] + Cardinality(Releasable(j)) <= restarts
    BY RetryAssumption DEF TypeOK, StopsPay
  <1> QED
    BY <1>1, <1>3, <1>4, <1>5, <1>6, <1>7

(* A hand-back spends what the stop paid: the entry is gone afterwards.    *)
LEMMA ReleasePays ==
  ASSUME TypeOK, TypeOK', StopsPay, NEW w \in Worker, NEW i \in Job, ReleaseClaim(w, i)
  PROVE  StopsPay'
  <1>1. /\ proc' = proc /\ restarts' = restarts /\ proc[w] = "releasing" /\ held[w][i] # 0
        /\ held' = [held EXCEPT ![w] = [held[w] EXCEPT ![i] = 0]]
    BY DEF ReleaseClaim
  <1>2. /\ held'[w][i] = 0
        /\ \A v \in Worker, j \in Job : v # w \/ j # i => held'[v][j] = held[v][j]
    BY <1>1 DEF TypeOK
  <1>3. CASE handbacks' = handbacks
    <2>1. restarts <= restarts'
      BY <1>1, RetryAssumption DEF TypeOK
    <2> QED BY <1>1, <1>2, <1>3, <2>1, Quiet
  <1>4. CASE handbacks' = [handbacks EXCEPT ![i] = handbacks[i] + 1]
    <2> SUFFICES ASSUME NEW j \in Job
                 PROVE  handbacks'[j] + Cardinality(Releasable(j)') <= restarts'
      BY DEF StopsPay
    <2>1. /\ handbacks[j] \in Nat /\ restarts \in Nat
          /\ handbacks[j] + Cardinality(Releasable(j)) <= restarts
      BY RetryAssumption DEF TypeOK, StopsPay
    <2>2. IsFiniteSet(Releasable(j)) /\ Cardinality(Releasable(j)) \in Nat
      BY ReleasableFinite
    <2>3. CASE j # i
      <3>1. Releasable(j)' = Releasable(j)
        BY <1>1, <1>2, <2>3 DEF Releasable
      <3>2. handbacks'[j] = handbacks[j]
        BY <1>4, <2>3 DEF TypeOK
      <3> QED BY <1>1, <2>1, <3>1, <3>2
    <2>4. CASE j = i
      <3>1. Releasable(j)' = Releasable(j) \ {w} /\ w \in Releasable(j)
        BY <1>1, <1>2, <2>4 DEF Releasable
      <3>2. Cardinality(Releasable(j) \ {w}) = Cardinality(Releasable(j)) - 1
        BY <2>2, <3>1, FS_RemoveElement
      <3>3. handbacks'[j] = handbacks[j] + 1
        BY <1>4, <2>4 DEF TypeOK
      <3> QED BY <1>1, <2>1, <2>2, <3>1, <3>2, <3>3
    <2> QED BY <2>3, <2>4
  <1> QED
    BY <1>3, <1>4 DEF ReleaseClaim

(* Every step keeps the balance.                                           *)
LEMMA NextPays ==
  ASSUME IndInv, IndInv', StopsPay, [Next]_vars PROVE StopsPay'
  <1>0. TypeOK /\ TypeOK' /\ restarts \in Nat
    BY RetryAssumption DEF IndInv, TypeOK
  <1>1. CASE UNCHANGED <<handbacks, restarts, proc, held>>
    <2>1. restarts <= restarts'
      BY <1>0, <1>1
    <2> QED BY <1>0, <1>1, <2>1, Quiet
  <1>2. ASSUME NEW w \in Worker, NEW S \in SUBSET Job, ClaimBatch(w, S) PROVE StopsPay'
    <2>1. /\ UNCHANGED <<handbacks, restarts, proc>> /\ proc[w] = "up"
          /\ \A v \in Worker : v # w => held'[v] = held[v]
      BY <1>0, <1>2 DEF ClaimBatch, ClaimableBatch, TypeOK
    <2>2. restarts <= restarts'
      BY <1>0, <2>1
    <2> QED BY <1>0, <2>1, <2>2, Quiet
  <1>3. ASSUME NEW j \in Job, NEW k \in Claim, Defer(j, k) \/ Finish(j, k) \/ TaskDies(j, k)
        PROVE  StopsPay'
    <2>1. /\ UNCHANGED <<handbacks, restarts, proc>> /\ EndTask(j, k)
          /\ task[j][k].phase # "idle"
      BY <1>3 DEF Defer, Finish, FinishWrite, TaskDies
    <2>2. \A v \in Worker, i \in Job : held'[v][i] \in {0, held[v][i]}
      BY <2>1, EndTaskFact
    <2>3. restarts <= restarts'
      BY <1>0, <2>1
    <2> QED BY <1>0, <2>1, <2>2, <2>3, Quiet
  <1>4. ASSUME NEW w \in Worker, CancelStragglers(w) \/ Exit(w) \/ Restart(w) \/ Crash(w)
        PROVE  StopsPay'
    <2>1. handbacks' = handbacks /\ restarts <= restarts'
      BY <1>0, <1>4 DEF CancelStragglers, Exit, Restart, Crash
    <2>2. \A v \in Worker : proc'[v] \in {"stopping", "releasing"} =>
                              proc[v] \in {"stopping", "releasing"}
      BY <1>0, <1>4 DEF CancelStragglers, Exit, Restart, Crash, TypeOK
    <2>3. \A v \in Worker, j \in Job : held'[v][j] \in {0, held[v][j]}
      BY SMTT(30), <1>0, <1>4 DEF CancelStragglers, Exit, Restart, Crash, TypeOK
    <2> QED BY <1>0, <2>1, <2>2, <2>3, Quiet
  <1>5. ASSUME NEW w \in Worker, RequeueStaleRunning(w) \/ Stop(w) \/ Crash(w) \/ ProcStep(w)
        PROVE  StopsPay'
    <2>1. CASE RequeueStaleRunning(w)
      BY <1>1, <2>1 DEF RequeueStaleRunning
    <2>2. CASE Stop(w)
      BY <1>0, <2>2, StopPays
    <2>3. ASSUME NEW j \in Job, ReleaseClaim(w, j) PROVE StopsPay'
      BY <1>0, <2>3, ReleasePays
    <2> QED BY <1>4, <1>5, <2>1, <2>2, <2>3 DEF ProcStep
  <1>6. ASSUME NEW j \in Job, NEW k \in Claim, TaskStep(j, k) \/ FinishUnacked(j, k)
        PROVE  StopsPay'
    <2>1. CASE Begin(j, k) \/ PollStop(j, k) \/ TryKey(j, k) \/ AttemptEnds(j, k)
               \/ WalkRaises(j, k) \/ ChainExhausted(j, k) \/ RequeueOrFail(j, k)
               \/ FinishUnacked(j, k)
      BY <1>1, <2>1 DEF Begin, PollStop, TryKey, AttemptEnds, WalkRaises, ChainExhausted,
         RequeueOrFail, FinishUnacked
    <2> QED BY <1>3, <1>6, <2>1 DEF TaskStep
  <1>7. ASSUME NEW j \in Job, Submit(j) \/ Cancel(j) \/ PurgeFinished(j) \/ BackoffElapses(j)
        PROVE  StopsPay'
    BY <1>1, <1>7 DEF Submit, Cancel, PurgeFinished, BackoffElapses
  <1>8. ASSUME NEW w \in Worker, NEW S \in SUBSET Job, ClaimReplyLost(w, S) PROVE StopsPay'
    BY <1>1, <1>8 DEF ClaimReplyLost
  <1>9. CASE Tick
    BY <1>1, <1>9 DEF Tick
  <1>10. CASE UNCHANGED vars
    BY <1>1, <1>10 DEF vars
  <1> QED
    BY <1>2, <1>5, <1>6, <1>7, <1>8, <1>9, <1>10 DEF Next

(* The balance holds of every reachable state.                             *)
THEOREM Balance == Spec => []StopsPay
  <1>1. Init => StopsPay
    <2> SUFFICES ASSUME Init, NEW j \in Job
                 PROVE  handbacks[j] + Cardinality(Releasable(j)) <= restarts
      BY DEF StopsPay
    <2>1. Releasable(j) = {} /\ handbacks[j] = 0 /\ restarts = 0
      BY DEF Init, Releasable
    <2> QED BY <2>1, FS_EmptySet
  <1>2. IndInv /\ IndInv' /\ StopsPay /\ [Next]_vars => StopsPay'
    BY NextPays
  <1> QED
    BY <1>1, <1>2, Invariance, PTL DEF Spec

(* A job is given back for free at most once per stop of a process, so a   *)
(* client never pays more executions than retries and operator restarts.   *)
THEOREM HandbackPaid == Spec => []HandbackBudget
  <1>1. IndInv /\ StopsPay => HandbackBudget
    <2> SUFFICES ASSUME IndInv, StopsPay, NEW j \in Job PROVE handbacks[j] <= restarts
      BY DEF HandbackBudget
    <2>1. handbacks[j] \in Nat /\ restarts \in Nat
      BY RetryAssumption DEF IndInv, TypeOK
    <2>2. handbacks[j] + Cardinality(Releasable(j)) <= restarts
      BY DEF StopsPay
    <2> QED BY <2>1, <2>2, ReleasableFinite
  <1> QED
    BY <1>1, Invariance, Balance, PTL

(* The queue implements JobLifecycle: a client sees only its arrows, and   *)
(* at most MaxRetries + 1 + MaxRestarts executions of its job.             *)
THEOREM Refinement == Spec => ImplementsLifecycle
  <1>1. Init => Lifecycle!Init
    BY NoRowFact DEF Init, Lifecycle!Init
  <1>2. IndInv /\ HandbackBudget /\ [Next]_vars => [Lifecycle!Next]_(Lifecycle!vars)
    <2> SUFFICES ASSUME IndInv, HandbackBudget, [Next]_vars, IndInv', NEW j \in Job
                 PROVE  Lifecycle!JobStep(j)
      BY NextInv DEF Lifecycle!Next
    <2>1. /\ claims[j] \in Nat /\ handbacks[j] <= MaxRestarts
          /\ row[j].retry_count \in Nat
      <3>1. handbacks[j] <= restarts
        BY DEF HandbackBudget
      <3> QED BY <3>1, RetryAssumption DEF IndInv, TypeOK, Row
    <2>2. row[j].status = "pending" => claims[j] < MaxRetries + 1 + MaxRestarts
      <3>1. Accounted(j) /\ handbacks[j] \in Nat
        BY DEF IndInv, JobInv, TypeOK
      <3> QED BY <2>1, <3>1, RetryAssumption DEF Accounted
    <2> DEFINE s == [i \in Job |-> row[i].status]
    <2>3. s[j] = row[j].status /\ s'[j] = row'[j].status
      OBVIOUS
    <2> HIDE DEF s
    <2> QED
      BY <2>2, <2>3, StatusStep
      DEF s, Lifecycle!JobStep, Lifecycle!Submitted, Lifecycle!Executed, Lifecycle!HandedBack,
          Lifecycle!Withdrawn, Lifecycle!Settled, Lifecycle!Deleted, Lifecycle!Stays,
          Lifecycle!Moves, Lifecycle!Ended
  <1> QED
    BY <1>1, <1>2, Invariance, HandbackPaid, PTL DEF Spec, ImplementsLifecycle, Lifecycle!Spec
-----------------------------------------------------------------------------
(***************************************************************************)
(* What makes a dispatcher look at the queue (DispatcherWake).             *)
(***************************************************************************)
(* A job in flight is running, and only these are; a job that was told of  *)
(* is due until it is claimed; a job not yet submitted has no backoff.     *)
FlightsRun == \A j \in Due: j \in inflight <=> status[j] = "running"
ToldIsDue == told \subseteq Disp!Ready
NewIsRipe == \A j \in Due: status[j] = "none" => ripe[j]

(* From the end of a tick that claimed nothing to the end of the wait.     *)
HeardSinceTick ==
  (loop = "wait" \/ (loop = "settle" /\ ~claimed)) /\ ~wake /\ Disp!Free > 0
    => told \cap Disp!Ready = {}

DispInv == Disp!TypeOK /\ FlightsRun /\ ToldIsDue /\ NewIsRipe /\ HeardSinceTick

(* The instance counts the way this module does.                           *)
LEMMA DispCounts ==
  ASSUME NEW S
  PROVE  Disp!Cardinality(S) = Cardinality(S)
  BY Zenon DEF Disp!Cardinality, Cardinality

(* The number of free slots is a number, and is not negative.              *)
LEMMA FreeType ==
  ASSUME IsFiniteSet(Due), Disp!TypeOK
  PROVE  /\ IsFiniteSet(inflight) /\ Disp!Cardinality(inflight) \in Nat
         /\ Disp!Free \in Nat /\ Disp!Free = Slots - Disp!Cardinality(inflight)
  <1>1. IsFiniteSet(inflight)
    BY FS_Subset DEF Disp!TypeOK
  <1>2. Disp!Cardinality(inflight) \in Nat
    BY <1>1, FS_CardinalityType, DispCounts
  <1> QED
    BY <1>1, <1>2, WakeAssumption DEF Disp!TypeOK, Disp!Free

(* A job that ends leaves its slot.                                        *)
LEMMA SlotFreed ==
  ASSUME IsFiniteSet(Due), Disp!TypeOK, NEW j \in Due
  PROVE  Disp!Cardinality(inflight \ {j}) <= Slots
  <1>1. Cardinality(inflight \ {j}) <= Cardinality(inflight)
    BY FreeType, FS_Subset
  <1>2. Cardinality(inflight \ {j}) \in Nat /\ Cardinality(inflight) \in Nat
    BY FreeType, FS_Subset, FS_CardinalityType
  <1>3. Cardinality(inflight) <= Slots
    BY DispCounts DEF Disp!TypeOK
  <1>4. Cardinality(inflight \ {j}) <= Slots
    BY <1>1, <1>2, <1>3, WakeAssumption
  <1> QED
    BY <1>4, DispCounts

(* A claim fits the free slots; it takes nothing only if nothing is due or *)
(* no slot is free.                                                        *)
LEMMA ClaimFits ==
  ASSUME IsFiniteSet(Due), DispInv, NEW batch \in SUBSET Disp!Ready,
         Disp!Cardinality(batch) = IF Disp!Cardinality(Disp!Ready) < Disp!Free
                                   THEN Disp!Cardinality(Disp!Ready) ELSE Disp!Free
  PROVE  /\ Disp!Cardinality(inflight \cup batch) <= Slots
         /\ batch = {} => Disp!Ready = {} \/ Disp!Free = 0
  <1>1. IsFiniteSet(Disp!Ready) /\ IsFiniteSet(batch)
    BY FS_Subset DEF Disp!Ready
  <1>2. /\ Disp!Cardinality(Disp!Ready) \in Nat /\ Disp!Cardinality(batch) \in Nat
        /\ Disp!Cardinality(Disp!Ready) = 0 => Disp!Ready = {}
        /\ batch = {} => Disp!Cardinality(batch) = 0
    BY <1>1, FS_CardinalityType, FS_EmptySet, DispCounts
  <1>3. Disp!Cardinality(batch) <= Disp!Free
    BY <1>2, FreeType DEF DispInv
  <1>4. inflight \cap batch = {}
    BY DEF DispInv, FlightsRun, Disp!Ready, Disp!TypeOK
  <1>5. Disp!Cardinality(inflight \cup batch) = Disp!Cardinality(inflight) + Disp!Cardinality(batch)
    <2>1. Cardinality(inflight \cup batch)
            = Cardinality(inflight) + Cardinality(batch) - Cardinality(inflight \cap batch)
      BY <1>1, FreeType, FS_Union DEF DispInv
    <2>2. Cardinality(inflight \cap batch) = 0
      BY <1>4, FS_EmptySet
    <2>3. Cardinality(inflight) \in Nat /\ Cardinality(batch) \in Nat
      BY <1>1, FreeType, FS_CardinalityType DEF DispInv
    <2>4. Cardinality(inflight \cup batch) = Cardinality(inflight) + Cardinality(batch)
      BY <2>1, <2>2, <2>3
    <2> QED
      BY <2>4, DispCounts, Zenon
  <1>6. Disp!Cardinality(inflight \cup batch) <= Slots
    BY <1>2, <1>3, <1>5, FreeType, WakeAssumption DEF DispInv
  <1>7. batch = {} => Disp!Ready = {} \/ Disp!Free = 0
    BY <1>2
  <1> QED
    BY <1>6, <1>7

(* The tick's claim.                                                       *)
LEMMA TickClaimHears ==
  ASSUME IsFiniteSet(Due), DispInv, Disp!TickClaim
  PROVE  DispInv'
  <1>1. PICK batch \in SUBSET Disp!Ready:
          /\ Disp!Cardinality(batch) = IF Disp!Cardinality(Disp!Ready) < Disp!Free
                                       THEN Disp!Cardinality(Disp!Ready) ELSE Disp!Free
          /\ status' = [j \in Due |-> IF j \in batch THEN "running" ELSE status[j]]
          /\ inflight' = inflight \cup batch
          /\ told' = told \ batch
          /\ claimed' = (batch # {})
    BY DEF Disp!TickClaim, Disp!_claim_batch
  <1>2. UNCHANGED <<ripe, wake, listener, stopping>> /\ loop' = "settle"
    BY DEF Disp!TickClaim
  <1>3. /\ Disp!Cardinality(inflight \cup batch) <= Slots
        /\ batch = {} => Disp!Ready = {} \/ Disp!Free = 0
    BY <1>1, ClaimFits
  <1>4. batch \subseteq Due
    BY DEF Disp!Ready
  <1>5. Disp!TypeOK'
    BY <1>1, <1>2, <1>3, <1>4 DEF DispInv, Disp!TypeOK
  <1>6. FlightsRun' /\ NewIsRipe'
    BY <1>1, <1>2, <1>4 DEF DispInv, FlightsRun, NewIsRipe, Disp!TypeOK
  <1>7. Disp!Ready' = Disp!Ready \ batch
    BY <1>1, <1>2 DEF Disp!Ready
  <1>8. ToldIsDue'
    BY <1>1, <1>7 DEF DispInv, ToldIsDue
  <1>9. HeardSinceTick'
    <2>1. CASE batch = {}
      <3>1. inflight' = inflight
        BY <1>1, <2>1
      <3>2. Disp!Free' = Disp!Free
        BY <3>1 DEF Disp!Free
      <3>3. CASE Disp!Ready = {}
        BY <1>7, <3>3 DEF HeardSinceTick
      <3>4. CASE Disp!Free = 0
        BY <3>2, <3>4 DEF HeardSinceTick
      <3> QED
        BY <1>3, <2>1, <3>3, <3>4
    <2>2. CASE batch # {}
      <3>1. loop' = "settle" /\ claimed' = TRUE
        BY <1>1, <1>2, <2>2
      <3> QED
        BY <3>1 DEF HeardSinceTick
    <2> QED
      BY <2>1, <2>2
  <1> QED
    BY <1>5, <1>6, <1>8, <1>9 DEF DispInv

(* A submission: its NOTIFY sets the event, or nobody was told.            *)
LEMMA SubmitHears ==
  ASSUME DispInv, NEW j \in Due, Disp!submit_job(j)
  PROVE  DispInv'
  <1>1. /\ UNCHANGED <<ripe, loop, claimed, inflight, listener, stopping>>
        /\ status[j] = "none" /\ status' = [status EXCEPT ![j] = "pending"]
        /\ \/ wake' = TRUE /\ told' = told \cup {j}
           \/ UNCHANGED <<wake, told>>
    BY DEF Disp!submit_job, Disp!Deliver
  <1>2. j \notin told /\ j \notin inflight /\ ripe[j]
    BY <1>1 DEF DispInv, ToldIsDue, Disp!Ready, FlightsRun, NewIsRipe
  <1>3. Disp!TypeOK'
    BY <1>1 DEF DispInv, Disp!TypeOK
  <1>4. FlightsRun' /\ NewIsRipe'
    BY <1>1, <1>2 DEF DispInv, FlightsRun, NewIsRipe, Disp!TypeOK
  <1>5. Disp!Ready' = Disp!Ready \cup {j}
    BY <1>1, <1>2 DEF DispInv, Disp!Ready, Disp!TypeOK
  <1>6. ToldIsDue'
    BY <1>1, <1>5 DEF DispInv, ToldIsDue
  <1>7. Disp!Free' = Disp!Free
    BY <1>1 DEF Disp!Free
  <1>8. HeardSinceTick'
    <2>1. CASE wake' = TRUE
      BY <2>1 DEF HeardSinceTick
    <2>2. CASE UNCHANGED <<wake, told>>
      BY <1>1, <1>2, <1>5, <1>7, <2>2 DEF DispInv, HeardSinceTick
    <2> QED
      BY <1>1, <2>1, <2>2
  <1> QED
    BY <1>3, <1>4, <1>6, <1>8 DEF DispInv

(* A job that ended or goes back sets the event.                           *)
LEMMA EndHears ==
  ASSUME IsFiniteSet(Due), DispInv, NEW j \in Due, Disp!Finish(j) \/ Disp!Requeue(j)
  PROVE  DispInv'
  <1>1. /\ UNCHANGED <<loop, claimed, listener, stopping, told>>
        /\ j \in inflight /\ inflight' = inflight \ {j} /\ wake' = TRUE
        /\ \/ status' = [status EXCEPT ![j] = "done"] /\ ripe' = ripe
           \/ status' = [status EXCEPT ![j] = "pending"] /\ ripe' = [ripe EXCEPT ![j] = FALSE]
    BY DEF Disp!Finish, Disp!Requeue, Disp!Callbacks
  <1>2. j \notin told
    BY <1>1 DEF DispInv, ToldIsDue, FlightsRun, Disp!Ready
  <1>3. Disp!TypeOK'
    <2>1. /\ status' \in [Due -> {"none", "pending", "running", "done"}]
          /\ ripe' \in [Due -> BOOLEAN]
      BY <1>1 DEF DispInv, Disp!TypeOK
    <2> QED
      BY <1>1, <2>1, SlotFreed DEF DispInv, Disp!TypeOK
  <1>4. FlightsRun' /\ NewIsRipe'
    BY <1>1 DEF DispInv, FlightsRun, NewIsRipe, Disp!TypeOK
  <1>5. Disp!Ready \ {j} \subseteq Disp!Ready'
    BY <1>1 DEF DispInv, Disp!Ready, Disp!TypeOK
  <1>6. ToldIsDue'
    BY <1>1, <1>2, <1>5 DEF DispInv, ToldIsDue
  <1>7. HeardSinceTick'
    BY <1>1 DEF HeardSinceTick
  <1> QED
    BY <1>3, <1>4, <1>6, <1>7 DEF DispInv

(* The rest: the connection, the loop, the passing of a backoff, a stop.   *)
LEMMA LoopHears ==
  ASSUME DispInv,
         \/ Disp!Lose \/ Disp!Notice \/ Disp!Connect \/ Disp!TickBegin \/ Disp!TickFail
         \/ Disp!TickEnd \/ Disp!Woken \/ Disp!TimedOut \/ Disp!Stop
         \/ UNCHANGED Disp!vars
  PROVE  DispInv'
  <1>1. /\ UNCHANGED <<status, ripe, inflight>> /\ told' \in {told, {}}
        /\ \/ UNCHANGED <<loop, claimed, wake>>
           \/ loop' \in {"top", "tick", "ended"}
           \/ told' = {}
           \/ UNCHANGED <<claimed, wake>> /\ loop = "settle" /\ loop' = "wait" /\ ~claimed
    BY DEF Disp!Lose, Disp!Notice, Disp!Connect, Disp!TickBegin, Disp!TickFail,
      Disp!TickEnd, Disp!Woken, Disp!TimedOut, Disp!Stop, Disp!vars
  <1>2. Disp!TypeOK'
    BY DEF DispInv, Disp!TypeOK, Disp!Lose, Disp!Notice, Disp!Connect, Disp!TickBegin,
      Disp!TickFail, Disp!TickEnd, Disp!Woken, Disp!TimedOut, Disp!Stop, Disp!vars
  <1>3. Disp!Ready' = Disp!Ready /\ Disp!Free' = Disp!Free
    BY <1>1 DEF Disp!Ready, Disp!Free
  <1>4. FlightsRun' /\ NewIsRipe' /\ ToldIsDue'
    BY <1>1, <1>3 DEF DispInv, FlightsRun, NewIsRipe, ToldIsDue
  <1>5. HeardSinceTick'
    BY <1>1, <1>3 DEF DispInv, HeardSinceTick
  <1> QED
    BY <1>2, <1>4, <1>5 DEF DispInv

(* A backoff passes: the job was not one that was told of.                 *)
LEMMA RipenHears ==
  ASSUME DispInv, NEW j \in Due, Disp!Ripen(j)
  PROVE  DispInv'
  <1>1. /\ UNCHANGED <<status, loop, claimed, wake, inflight, listener, stopping, told>>
        /\ ~ripe[j] /\ ripe' = [ripe EXCEPT ![j] = TRUE]
    BY DEF Disp!Ripen
  <1>2. j \notin told
    BY <1>1 DEF DispInv, ToldIsDue, Disp!Ready
  <1>3. Disp!TypeOK' /\ FlightsRun' /\ NewIsRipe'
    BY <1>1 DEF DispInv, FlightsRun, NewIsRipe, Disp!TypeOK
  <1>4. Disp!Ready \subseteq Disp!Ready' /\ Disp!Ready' \subseteq Disp!Ready \cup {j}
    BY <1>1 DEF DispInv, Disp!Ready, Disp!TypeOK
  <1>5. Disp!Free' = Disp!Free
    BY <1>1 DEF Disp!Free
  <1>6. ToldIsDue'
    BY <1>1, <1>4 DEF DispInv, ToldIsDue
  <1>7. HeardSinceTick'
    BY <1>1, <1>2, <1>4, <1>5 DEF DispInv, HeardSinceTick
  <1> QED
    BY <1>3, <1>6, <1>7 DEF DispInv

(* The invariant of the dispatcher: it holds at first, every step keeps    *)
(* it, and it is enough.                                                   *)
LEMMA DispFacts ==
  /\ Disp!Init => DispInv
  /\ DispInv /\ [Disp!Next]_(Disp!vars) => DispInv'
  /\ DispInv => Disp!DispatchSound
  <1>1. Disp!Init => DispInv
    <2> SUFFICES ASSUME Disp!Init PROVE DispInv
      OBVIOUS
    <2>1. Disp!Cardinality({}) <= Slots
      BY DispCounts, FS_EmptySet, WakeAssumption
    <2>2. Disp!TypeOK
      BY <2>1 DEF Disp!Init, Disp!TypeOK
    <2> QED
      BY <2>2 DEF Disp!Init, DispInv, FlightsRun, ToldIsDue, NewIsRipe, HeardSinceTick
  <1>2. DispInv /\ [Disp!Next]_(Disp!vars) => DispInv'
    BY WakeAssumption, TickClaimHears, SubmitHears, EndHears, LoopHears, RipenHears
    DEF Disp!Next, Disp!Dispatch
  <1>3. DispInv => Disp!DispatchSound
    BY DEF DispInv, HeardSinceTick, Disp!NoLostWake, Disp!DispatchSound
  <1> QED
    BY <1>1, <1>2, <1>3

(* The dispatcher holds no more jobs than it has slots, and never sleeps,  *)
(* with a free slot, on a job whose NOTIFY reached it: neither a NOTIFY    *)
(* during a tick nor a slot freed during one is lost (_dispatch,           *)
(* _wait_stop_or_wake).                                                    *)
THEOREM NoWakeLost == SpecAll => []DispatchSound
  <1> DEFINE Inv == which = "dispatch" => DispInv
  <1>1. InitAll => Inv
    BY DispFacts DEF InitAll
  <1>2. Inv /\ [NextAll]_allVars => Inv'
    <2> SUFFICES ASSUME Inv, [NextAll]_allVars, which' = "dispatch" PROVE DispInv'
      OBVIOUS
    <2>1. which' = which /\ [Disp!Next]_(Disp!vars)
      BY DEF NextAll, Queueing, Dispatching, Asking, Reading, FileKeeping, allVars, dispatchVars, Disp!vars
    <2> QED
      BY <2>1, DispFacts
  <1>3. Inv => DispatchSound
    BY DispFacts DEF DispatchSound
  <1> QED
    BY <1>1, <1>2, <1>3, PTL DEF SpecAll
-----------------------------------------------------------------------------
(***************************************************************************)
(* What a client is told about its jobs (JobReads).                        *)
(***************************************************************************)
ReadsId == 1 .. MaxId
ReadsStatus == {"none", "open", "pending", "running", "done", "cancelled", "gone"}
ReadsRow == [status: ReadsStatus, flag: BOOLEAN, task: BOOLEAN]
ReadsRun == [outcome: {"none", "done", "cancelled"}, cancel: BOOLEAN, last_seq: Nat]
ListClient ==
  [op: {"list"}, pc: {"plain", "agent", "page", "complete"}, hw: Nat, after: Nat,
   quiet: BOOLEAN, listed: Seq(SUBSET ReadsId), due: SUBSET ReadsId]
BulkClient ==
  [op: {"bulk"}, pc: {"next", "agent", "mirror"}, wanted: SUBSET ReadsId,
   selected: SUBSET ReadsId, saw: UNION {[S -> ReadsStatus] : S \in SUBSET ReadsId},
   cancelled: SUBSET ReadsId, requested: SUBSET ReadsId, already: Nat]
PollClient ==
  [op: {"poll"}, pc: {"run", "events"}, id: Agent, after: Nat, got: Seq(Nat),
   outcome: {"none", "done", "cancelled"}, last_seq: Nat, finished: BOOLEAN]

ReadsType ==
  /\ readsRow \in [ReadsId -> ReadsRow] /\ run \in [Agent -> ReadsRun]
  /\ \/ client = Reads!Idle \/ client \in ListClient \/ client \in BulkClient
     \/ client \in PollClient

(* A row and its run agree on how the job ended; only a running job is     *)
(* executed.                                                               *)
RowAgrees(i) ==
  /\ readsRow[i].task => readsRow[i].status = "running"
  /\ i \in Agent =>
       /\ run[i].outcome # "none" => readsRow[i].status \in {run[i].outcome, "gone"}
       /\ readsRow[i].status \in {"done", "cancelled"} => run[i].outcome = readsRow[i].status

(* What no step takes back.                                                *)
RowMoves(i) ==
  /\ readsRow[i].status \in {"done", "cancelled", "gone"} =>
       readsRow'[i].status \in {readsRow[i].status, "gone"}
  /\ readsRow[i].status \notin {"none", "open"} => readsRow'[i].status \notin {"none", "open"}
  /\ readsRow[i].flag => readsRow'[i].flag
  /\ i \in Agent =>
       /\ run[i].outcome # "none" => run'[i] = run[i]
       /\ run[i].cancel => run'[i].cancel
       /\ run[i].last_seq <= run'[i].last_seq

(* Every job due up to b is gone or listed.                                *)
ListedUpTo(b) ==
  \A i \in client.due: i <= b =>
    readsRow[i].status = "gone" \/ \E n \in 1 .. Len(client.listed): i \in client.listed[n]

InOrder(pages) ==
  \A m, n \in 1 .. Len(pages): m < n => \A i \in pages[m], k \in pages[n]: i < k

Ended(S) == \A i \in S: readsRow[i].status \notin {"pending", "running"}

ListKnows ==
  client.op = "list" =>
    /\ \A i \in client.due:
         /\ i <= client.hw /\ i \in Labelled /\ (AgentOpen \/ i \notin Agent) /\ Reads!Shown(i)
         /\ readsRow[i].status \notin {"none", "open"}
    /\ client.pc = "plain" => client.quiet
    /\ client.pc = "agent" => Ended(client.due \ Agent)
    /\ client.pc \in {"page", "complete"} /\ client.quiet => Ended(client.due)
    /\ client.pc \in {"plain", "agent"} => client.after = 0
    /\ InOrder(client.listed)
    /\ client.pc # "complete" =>
         \A n \in 1 .. Len(client.listed): \A i \in client.listed[n]: i <= client.after
    /\ client.pc # "complete" => ListedUpTo(client.after)
    /\ client.pc = "complete" => ListedUpTo(client.hw)

(* The jobs a bulk cancel selected had been committed.                     *)
AskedRows ==
  /\ client.wanted \cup client.cancelled \cup client.requested \subseteq client.selected
  /\ \A i \in client.selected: readsRow[i].status \notin {"none", "open"}

BulkKnows ==
  client.op = "bulk" =>
    /\ client.wanted \cap (client.cancelled \cup client.requested) = {}
    /\ client.pc \in {"agent", "mirror"} => client.wanted # {} /\ Reads!Current \in Agent
    /\ AskedRows
    /\ Reads!CancelAnswersTrue

PollKnowsRun ==
  client.op = "poll" =>
    /\ client.after <= run[client.id].last_seq
    /\ client.got = [k \in 1 .. client.after |-> k]
    /\ client.outcome # "none" =>
         run[client.id].outcome # "none" /\ client.last_seq = run[client.id].last_seq
    /\ client.finished => client.outcome # "none" /\ client.after >= client.last_seq

ReadsInv ==
  /\ ReadsType /\ (\A i \in ReadsId: RowAgrees(i))
  /\ ListKnows /\ BulkKnows /\ PollKnowsRun

(* The kind of client is told by its operation.                            *)
LEMMA ClientKind ==
  ASSUME ReadsType
  PROVE  /\ client.op = "list" => client \in ListClient
         /\ client.op = "bulk" => client \in BulkClient
         /\ client.op = "poll" => client \in PollClient
  BY DEF ReadsType, Reads!Idle, ListClient, BulkClient, PollClient

(* The instance counts the way this module does.                           *)
LEMMA ReadsCounts ==
  ASSUME NEW S
  PROVE  Reads!Cardinality(S) = Cardinality(S)
  BY Zenon DEF Reads!Cardinality, Cardinality

(* Sets of ids are finite, and have a first and a last one.                *)
LEMMA IdSets ==
  ASSUME NEW S \in SUBSET ReadsId
  PROVE  /\ IsFiniteSet(S) /\ Cardinality(S) \in Nat
         /\ S # {} => /\ Reads!Min(S) \in S /\ \A y \in S: Reads!Min(S) <= y
                      /\ Reads!Max(S) \in S /\ \A y \in S: y <= Reads!Max(S)
  <1>1. IsFiniteSet(S) /\ Cardinality(S) \in Nat
    <2>1. IsFiniteSet(1 .. MaxId)
      BY FS_Interval, ReadsAssumption
    <2>2. IsFiniteSet(S)
      BY <2>1, FS_Subset DEF ReadsId
    <2> QED
      BY <2>2, FS_CardinalityType
  <1>2. ASSUME S # {} PROVE \E x \in S: \A y \in S: x <= y
    BY <1>2, Least, ReadsAssumption DEF ReadsId
  <1>3. ASSUME S # {} PROVE \E x \in S: \A y \in S: x >= y
    <2> DEFINE T == {n \in Nat: \E x \in S: n = MaxId - x}
    <2>1. PICK x \in S: TRUE
      BY <1>3
    <2>2. \A z \in S: z \in Nat /\ MaxId - z \in Nat
      BY ReadsAssumption DEF ReadsId
    <2>3. MaxId - x \in T
      BY <2>2
    <2>4. T \in SUBSET Nat /\ T # {}
      BY <2>3
    <2> HIDE DEF T
    <2>5. PICK t \in T: \A n \in T: t <= n
      BY <2>4, Least
    <2>6. PICK z \in S: t = MaxId - z
      BY DEF T
    <2>7. ASSUME NEW y \in S PROVE z >= y
      <3>1. MaxId - y \in T
        BY <2>2 DEF T
      <3>2. MaxId - z <= MaxId - y
        BY <2>5, <2>6, <3>1
      <3> QED
        BY <2>2, <3>2, ReadsAssumption
    <2> QED
      BY <2>7
  <1>4. S # {} => Reads!Min(S) \in S /\ \A y \in S: Reads!Min(S) <= y
    BY <1>2, Zenon DEF Reads!Min
  <1>5. S # {} => Reads!Max(S) \in S /\ \A y \in S: Reads!Max(S) >= y
    BY <1>3, Zenon DEF Reads!Max
  <1>6. S # {} => \A y \in S: y <= Reads!Max(S)
    BY <1>5, ReadsAssumption DEF ReadsId
  <1> QED
    BY <1>1, <1>4, <1>5, <1>6

(* A page: the first rows, and all of them if they are few.                *)
LEMMA FirstRows ==
  ASSUME NEW S \in SUBSET ReadsId
  PROVE  /\ Reads!FirstIds(S, Limit) \subseteq S
         /\ \A i \in Reads!FirstIds(S, Limit): \A k \in S: k < i => k \in Reads!FirstIds(S, Limit)
         /\ S # {} => Reads!FirstIds(S, Limit) # {}
         /\ ~(Reads!Cardinality(S) > Limit) => Reads!FirstIds(S, Limit) = S
  <1> DEFINE Below(i) == {k \in S: k < i}
  <1>1. Reads!FirstIds(S, Limit) = {i \in S: Cardinality(Below(i)) < Limit}
    BY ReadsCounts DEF Reads!FirstIds
  <1>2. \A i \in S: i \in Nat
    BY ReadsAssumption DEF ReadsId
  <1>3. ASSUME NEW i \in S
        PROVE  /\ Cardinality(Below(i)) \in Nat /\ Cardinality(Below(i)) < Cardinality(S)
               /\ Cardinality(S) \in Nat
    <2>1. IsFiniteSet(S) /\ Cardinality(S) \in Nat
      BY IdSets
    <2>2. Below(i) \in SUBSET S /\ i \notin Below(i)
      BY <1>2
    <2> HIDE DEF Below
    <2>3. IsFiniteSet(Below(i)) /\ Cardinality(Below(i)) <= Cardinality(S)
          /\ Cardinality(Below(i)) # Cardinality(S)
      BY <2>1, <2>2, FS_Subset
    <2> QED
      BY <2>1, <2>3, FS_CardinalityType
  <1>4. ASSUME NEW i \in S, NEW k \in S, k < i, Cardinality(Below(i)) < Limit
        PROVE  Cardinality(Below(k)) < Limit
    <2>1. Below(k) \in SUBSET Below(i)
      BY <1>2, <1>4
    <2>2. Below(i) \in SUBSET S
      OBVIOUS
    <2> HIDE DEF Below
    <2>3. IsFiniteSet(Below(i))
      BY <2>2, IdSets, FS_Subset
    <2>4. Cardinality(Below(k)) <= Cardinality(Below(i))
      BY <2>1, <2>3, FS_Subset
    <2> QED
      BY <1>3, <1>4, <2>4, ReadsAssumption
  <1>5. ASSUME S # {} PROVE \E i \in S: Cardinality(Below(i)) < Limit
    <2>1. Reads!Min(S) \in S /\ \A y \in S: Reads!Min(S) <= y
      BY <1>5, IdSets
    <2>2. Below(Reads!Min(S)) = {}
      BY <1>2, <2>1
    <2> HIDE DEF Below
    <2> QED
      BY <2>1, <2>2, FS_EmptySet, ReadsAssumption
  <1>6. ASSUME ~(Reads!Cardinality(S) > Limit) PROVE \A i \in S: Cardinality(Below(i)) < Limit
    <2>1. ~(Cardinality(S) > Limit)
      BY <1>6, ReadsCounts
    <2> HIDE DEF Below
    <2> QED
      BY <1>3, <2>1, ReadsAssumption
  <1> HIDE DEF Below
  <1> QED
    BY <1>1, <1>4, <1>5, <1>6

(* No row yet, nobody asking.                                              *)
LEMMA ReadsInit == Reads!Init => ReadsInv
  <1> SUFFICES ASSUME Reads!Init PROVE ReadsInv
    OBVIOUS
  <1>1. ReadsType
    BY DEF Reads!Init, Reads!Id, ReadsType, ReadsId, ReadsRow, ReadsStatus, ReadsRun
  <1>2. client.op = "idle"
    BY DEF Reads!Init, Reads!Idle
  <1>3. ASSUME NEW i \in ReadsId PROVE RowAgrees(i)
    BY DEF Reads!Init, Reads!Id, ReadsId, RowAgrees
  <1> QED
    BY <1>1, <1>2, <1>3 DEF ReadsInv, ListKnows, BulkKnows, PollKnowsRun

(* A step that leaves the client alone keeps what it knows.                *)
LEMMA ListKept ==
  ASSUME ReadsInv, ReadsType', \A i \in ReadsId: RowMoves(i), client' = client
  PROVE  ListKnows'
  <1> SUFFICES ASSUME client.op = "list" PROVE ListKnows'
    BY DEF ListKnows
  <1>1. client \in ListClient
    BY ClientKind DEF ReadsInv
  <1>2. client.due \in SUBSET ReadsId
    BY <1>1 DEF ListClient
  <1>3. ASSUME NEW i \in client.due
        PROVE  /\ readsRow[i].status \notin {"none", "open"} => readsRow'[i].status \notin {"none", "open"}
               /\ readsRow[i].status = "gone" => readsRow'[i].status = "gone"
               /\ readsRow[i].status \notin {"none", "open", "pending", "running"} =>
                    readsRow'[i].status \notin {"pending", "running"}
    <2>1. i \in ReadsId /\ readsRow[i].status \in ReadsStatus /\ RowMoves(i)
      BY <1>2 DEF ReadsInv, ReadsType, ReadsRow
    <2> QED
      BY <2>1 DEF RowMoves, ReadsStatus
  <1>4. ListKnows
    BY DEF ReadsInv
  <1>5. \A i \in client.due: readsRow[i].status \notin {"none", "open"}
    BY <1>4 DEF ListKnows
  <1>6. \A S \in SUBSET client.due: Ended(S) => Ended(S)'
    BY <1>3, <1>5 DEF Ended
  <1>7. \A b: ListedUpTo(b) => ListedUpTo(b)'
    BY <1>3 DEF ListedUpTo
  <1> QED
    BY <1>3, <1>4, <1>6, <1>7 DEF ListKnows, InOrder, Ended, ListedUpTo, Reads!Shown

(* So do the answers of a bulk cancel that is asked nothing new.           *)
LEMMA AnswersKept ==
  ASSUME ReadsInv, \A i \in ReadsId: RowMoves(i) /\ RowAgrees(i)', client.op = "bulk",
         client'.wanted = client.wanted, client'.selected = client.selected,
         client'.cancelled = client.cancelled, client'.requested = client.requested,
         client'.already = client.already
  PROVE  AskedRows' /\ Reads!CancelAnswersTrue'
  <1>1. client \in BulkClient
    BY ClientKind DEF ReadsInv
  <1>2. client.cancelled \in SUBSET ReadsId /\ client.requested \in SUBSET ReadsId
        /\ client.selected \in SUBSET ReadsId
    BY <1>1 DEF BulkClient
  <1>3. BulkKnows
    BY DEF ReadsInv
  <1>4. ASSUME NEW i \in client.cancelled
        PROVE  readsRow'[i].status \in {"cancelled", "gone"} /\ ~readsRow'[i].task
    BY <1>2, <1>3 DEF BulkKnows, Reads!CancelAnswersTrue, RowMoves, RowAgrees
  <1>5. ASSUME NEW i \in client.requested, readsRow'[i].status \in {"pending", "running"}
        PROVE  readsRow'[i].flag \/ (i \in Agent /\ run'[i].cancel)
    <2>1. i \in ReadsId /\ RowMoves(i) /\ readsRow[i].status \in ReadsStatus
      BY <1>2 DEF ReadsInv, ReadsType, ReadsRow
    <2>2. readsRow[i].status \in {"pending", "running"} =>
            readsRow[i].flag \/ (i \in Agent /\ run[i].cancel)
      BY <1>3 DEF BulkKnows, Reads!CancelAnswersTrue, Reads!NonTerminal
    <2>3. readsRow[i].status \in {"none", "open", "pending", "running"}
      BY <1>5, <2>1 DEF RowMoves, ReadsStatus
    <2>4. readsRow[i].status \notin {"none", "open"}
      BY <1>3 DEF BulkKnows, AskedRows
    <2> QED
      BY <2>1, <2>2, <2>3, <2>4 DEF RowMoves
  <1>6. ASSUME NEW i \in client.selected \ (client.wanted \cup client.cancelled \cup client.requested)
        PROVE  readsRow'[i].status \notin {"pending", "running"}
    <2>1. i \in ReadsId /\ RowMoves(i) /\ readsRow[i].status \in ReadsStatus
      BY <1>2 DEF ReadsInv, ReadsType, ReadsRow
    <2>2. readsRow[i].status \notin {"pending", "running", "none", "open"}
      BY <1>3, <1>6 DEF BulkKnows, AskedRows, Reads!CancelAnswersTrue, Reads!NonTerminal
    <2> QED
      BY <2>1, <2>2 DEF RowMoves, ReadsStatus
  <1>7. AskedRows'
    BY <1>2, <1>3 DEF AskedRows, BulkKnows, RowMoves
  <1>8. Reads!CancelAnswersTrue'
    BY <1>3, <1>4, <1>5, <1>6 DEF BulkKnows, Reads!CancelAnswersTrue, Reads!NonTerminal
  <1> QED
    BY <1>7, <1>8

(* A bulk cancel stays true while only the jobs move.                      *)
LEMMA BulkKept ==
  ASSUME ReadsInv, \A i \in ReadsId: RowMoves(i) /\ RowAgrees(i)', client' = client
  PROVE  BulkKnows'
  BY AnswersKept DEF ReadsInv, BulkKnows, Reads!Current

(* So does what a poll has read of its run.                                *)
LEMMA PollKept ==
  ASSUME ReadsInv, ReadsType', \A i \in ReadsId: RowMoves(i), client' = client
  PROVE  PollKnowsRun'
  <1> SUFFICES ASSUME client.op = "poll" PROVE PollKnowsRun'
    BY DEF PollKnowsRun
  <1>1. client \in PollClient
    BY ClientKind DEF ReadsInv
  <1>2. client.id \in Agent /\ client.id \in ReadsId /\ client.after \in Nat
    BY <1>1, ReadsAssumption DEF PollClient, ReadsId
  <1>3. RowMoves(client.id) /\ PollKnowsRun
    BY <1>2 DEF ReadsInv
  <1>4. run[client.id].last_seq \in Nat /\ run'[client.id].last_seq \in Nat
    BY <1>2 DEF ReadsInv, ReadsType, ReadsRun
  <1>5. client.after <= run'[client.id].last_seq
    BY <1>2, <1>3, <1>4 DEF RowMoves, PollKnowsRun
  <1> QED
    BY <1>2, <1>3, <1>5 DEF RowMoves, PollKnowsRun

(* The jobs move, whatever the client does.                                *)
LEMMA JobsMove ==
  ASSUME ReadsInv, Reads!Jobs
  PROVE  /\ client' = client /\ ReadsType'
         /\ \A i \in ReadsId: RowMoves(i) /\ RowAgrees(i)'
  <1>1. PICK j \in ReadsId:
          \/ Reads!Allocate(j) \/ Reads!Commit(j) \/ Reads!Rollback(j) \/ Reads!Claim(j)
          \/ Reads!Emit(j) \/ Reads!End(j) \/ Reads!Requeue(j) \/ Reads!Purge(j)
    BY DEF Reads!Jobs, Reads!Id, ReadsId
  <1>2. client' = client
    BY <1>1 DEF Reads!Allocate, Reads!Commit, Reads!Rollback, Reads!Claim, Reads!Emit, Reads!End,
                Reads!Requeue, Reads!Purge
  <1>3. readsRow \in [ReadsId -> ReadsRow] /\ run \in [Agent -> ReadsRun]
        /\ readsRow[j] \in ReadsRow /\ RowAgrees(j)
    BY DEF ReadsInv, ReadsType
  <1>4. j \in Agent => run[j] \in ReadsRun
    BY <1>3
  <1>5. /\ readsRow' \in [ReadsId -> ReadsRow] /\ run' \in [Agent -> ReadsRun]
        /\ \A i \in ReadsId: i # j => readsRow'[i] = readsRow[i] /\ (i \in Agent => run'[i] = run[i])
        /\ RowMoves(j) /\ RowAgrees(j)'
    <2>1. CASE Reads!Allocate(j) \/ Reads!Commit(j) \/ Reads!Rollback(j) \/ Reads!Purge(j)
      <3>1. PICK s \in {"open", "pending", "gone"}:
              /\ readsRow' = [readsRow EXCEPT ![j].status = s] /\ run' = run
              /\ s = "open" => readsRow[j].status = "none"
              /\ s = "pending" => readsRow[j].status = "open"
              /\ s = "gone" => readsRow[j].status \in {"open", "done", "cancelled"}
        BY <2>1 DEF Reads!Allocate, Reads!Commit, Reads!Rollback, Reads!Purge, Reads!Set, Reads!Terminal
      <3>2. /\ readsRow' \in [ReadsId -> ReadsRow] /\ readsRow'[j].status = s
            /\ readsRow'[j].flag = readsRow[j].flag /\ readsRow'[j].task = readsRow[j].task
            /\ \A i \in ReadsId: i # j => readsRow'[i] = readsRow[i]
        BY <1>3, <3>1 DEF ReadsRow, ReadsStatus
      <3>3. /\ run'[j] = run[j]
            /\ j \in Agent => run[j].last_seq \in Nat /\ run[j].outcome \in {"none", "done", "cancelled"}
        BY <1>4, <3>1 DEF ReadsRun
      <3>4. ~readsRow[j].task
        BY <1>3, <3>1 DEF RowAgrees
      <3>5. RowMoves(j)
        BY <3>1, <3>2, <3>3 DEF RowMoves
      <3>6. RowAgrees(j)'
        BY <1>3, <3>1, <3>2, <3>3, <3>4 DEF RowAgrees
      <3> QED
        BY <1>3, <3>1, <3>2, <3>5, <3>6
    <2>2. CASE Reads!Claim(j) \/ Reads!Requeue(j)
      <3>1. PICK s \in {"pending", "running"}:
              /\ readsRow' = [readsRow EXCEPT ![j].status = s, ![j].task = (s = "running")]
              /\ run' = run /\ readsRow[j].status \in {"pending", "running"}
        BY <2>2 DEF Reads!Claim, Reads!Requeue
      <3>2. /\ readsRow' \in [ReadsId -> ReadsRow] /\ readsRow'[j].status = s
            /\ readsRow'[j].flag = readsRow[j].flag /\ readsRow'[j].task = (s = "running")
            /\ \A i \in ReadsId: i # j => readsRow'[i] = readsRow[i]
        BY <1>3, <3>1 DEF ReadsRow, ReadsStatus
      <3>3. /\ run'[j] = run[j]
            /\ j \in Agent => run[j].last_seq \in Nat /\ run[j].outcome \in {"none", "done", "cancelled"}
        BY <1>4, <3>1 DEF ReadsRun
      <3>4. RowMoves(j)
        BY <3>1, <3>2, <3>3 DEF RowMoves
      <3>5. RowAgrees(j)'
        BY <1>3, <3>1, <3>2, <3>3 DEF RowAgrees
      <3> QED
        BY <1>3, <3>1, <3>2, <3>4, <3>5
    <2>3. CASE Reads!Emit(j)
      <3>1. /\ j \in Agent /\ readsRow[j].status = "running" /\ readsRow' = readsRow
            /\ run' = [run EXCEPT ![j].last_seq = @ + 1]
        BY <2>3 DEF Reads!Emit
      <3>2. /\ run' \in [Agent -> ReadsRun] /\ run'[j].outcome = run[j].outcome
            /\ run'[j].cancel = run[j].cancel /\ run'[j].last_seq = run[j].last_seq + 1
            /\ \A i \in Agent: i # j => run'[i] = run[i]
        BY <1>3, <3>1 DEF ReadsRun
      <3>3. run[j].last_seq \in Nat /\ run[j].outcome = "none"
        BY <1>3, <1>4, <3>1 DEF RowAgrees, ReadsRun
      <3> QED
        BY <1>3, <3>1, <3>2, <3>3 DEF RowMoves, RowAgrees
    <2>4. CASE Reads!End(j)
      <3>1. PICK s \in {"done", "cancelled"}:
              /\ readsRow' = [readsRow EXCEPT ![j].status = s, ![j].task = FALSE]
              /\ run' = IF j \in Agent
                        THEN [run EXCEPT ![j].outcome = s, ![j].last_seq = @ + 1] ELSE run
        BY <2>4 DEF Reads!End, Reads!Terminal
      <3>2. readsRow[j].status = "running"
        BY <2>4 DEF Reads!End
      <3>3. /\ readsRow' \in [ReadsId -> ReadsRow] /\ readsRow'[j].status = s
            /\ readsRow'[j].flag = readsRow[j].flag /\ readsRow'[j].task = FALSE
            /\ \A i \in ReadsId: i # j => readsRow'[i] = readsRow[i]
        BY <1>3, <3>1 DEF ReadsRow, ReadsStatus
      <3>4. CASE j \notin Agent
        <4>1. run' = run
          BY <3>1, <3>4
        <4> QED
          BY <1>3, <3>2, <3>3, <3>4, <4>1 DEF RowMoves, RowAgrees
      <3>5. CASE j \in Agent
        <4>1. /\ run' \in [Agent -> ReadsRun] /\ run'[j].outcome = s
              /\ run'[j].cancel = run[j].cancel /\ run'[j].last_seq = run[j].last_seq + 1
              /\ \A i \in Agent: i # j => run'[i] = run[i]
          BY <1>3, <3>1, <3>5 DEF ReadsRun
        <4>2. run[j].last_seq \in Nat /\ run[j].outcome = "none"
          BY <1>3, <1>4, <3>2, <3>5 DEF RowAgrees, ReadsRun
        <4> QED
          BY <1>3, <3>2, <3>3, <3>5, <4>1, <4>2 DEF RowMoves, RowAgrees
      <3> QED
        BY <3>4, <3>5
    <2> QED
      BY <1>1, <2>1, <2>2, <2>3, <2>4
  <1>6. ReadsType'
    BY <1>2, <1>5 DEF ReadsInv, ReadsType
  <1>7. ASSUME NEW i \in ReadsId, i # j PROVE RowMoves(i) /\ RowAgrees(i)'
    <2>1. readsRow'[i] = readsRow[i] /\ (i \in Agent => run'[i] = run[i]) /\ RowAgrees(i)
      BY <1>5, <1>7 DEF ReadsInv
    <2>2. i \in Agent => run[i].last_seq \in Nat
      BY <1>3 DEF ReadsRun
    <2> QED
      BY <2>1, <2>2 DEF RowMoves, RowAgrees
  <1> QED
    BY <1>2, <1>5, <1>6, <1>7

(* A step of the jobs keeps the invariant.                                 *)
LEMMA JobsKeep ==
  ASSUME ReadsInv, Reads!Jobs
  PROVE  ReadsInv'
  BY JobsMove, ListKept, BulkKept, PollKept DEF ReadsInv

(* Rows that stay as they are agree as they did.                           *)
LEMMA RowsStay ==
  ASSUME ReadsInv, readsRow' = readsRow, run' = run
  PROVE  \A i \in ReadsId: RowAgrees(i)'
  BY DEF ReadsInv, RowAgrees

(* The first reads of a listing: the watermark and the probes.             *)
LEMMA ListBeginKeeps ==
  ASSUME ReadsInv, Reads!ListBegin
  PROVE  ReadsInv'
  <1> DEFINE due == {i \in Reads!Filtered: Reads!Shown(i)}
             hw == Reads!Max0(Reads!Committed)
  <1>1. /\ readsRow' = readsRow /\ run' = run
        /\ client' = [op |-> "list", pc |-> "plain", hw |-> hw, after |-> 0,
                      quiet |-> TRUE, listed |-> <<>>, due |-> due]
    BY DEF Reads!ListBegin
  <1>2. Reads!Committed \in SUBSET ReadsId
    BY DEF Reads!Committed, Reads!Id, ReadsId
  <1>3. hw \in Nat /\ \A i \in Reads!Committed: i <= hw
    <2>1. CASE Reads!Committed = {}
      BY <2>1 DEF Reads!Max0
    <2>2. CASE Reads!Committed # {}
      <3>1. /\ Reads!Max(Reads!Committed) \in Reads!Committed
            /\ \A i \in Reads!Committed: i <= Reads!Max(Reads!Committed)
        BY <1>2, <2>2, IdSets
      <3>2. hw = Reads!Max(Reads!Committed)
        BY <2>2 DEF Reads!Max0
      <3>3. Reads!Max(Reads!Committed) \in Nat
        <4>1. \A x \in ReadsId: x \in Nat
          BY ReadsAssumption DEF ReadsId
        <4> QED
          BY <1>2, <3>1, <4>1
      <3> QED
        BY <3>1, <3>2, <3>3
    <2> QED
      BY <2>1, <2>2
  <1>4. /\ due \in SUBSET Reads!Committed
        /\ \A i \in due: i \in Labelled /\ (AgentOpen \/ i \notin Agent) /\ Reads!Shown(i)
    BY DEF Reads!Filtered
  <1>5. \A i \in due: readsRow[i].status \notin {"none", "open"}
    BY <1>4 DEF Reads!Committed, Reads!Terminal, Reads!NonTerminal
  <1> HIDE DEF due, hw
  <1>6. /\ client' \in ListClient /\ client'.op = "list" /\ client'.pc = "plain" /\ client'.quiet
        /\ client'.after = 0 /\ client'.listed = <<>> /\ client'.due = due /\ client'.hw = hw
    BY <1>1, <1>2, <1>3, <1>4, EmptySeq DEF ListClient
  <1>7. \A i \in due: ~(i <= 0)
    BY <1>2, <1>4, ReadsAssumption DEF ReadsId
  <1>8. ListKnows'
    BY <1>1, <1>3, <1>4, <1>5, <1>6, <1>7 DEF ListKnows, InOrder, ListedUpTo, Reads!Shown
  <1> QED
    BY <1>1, <1>6, <1>8, RowsStay DEF ReadsInv, ReadsType, BulkKnows, PollKnowsRun

(* A job that is due and not gone is one the filter finds.                 *)
LEMMA DueIsFiltered ==
  ASSUME ReadsInv, client.op = "list", NEW i \in client.due
  PROVE  /\ i \in ReadsId /\ i <= client.hw /\ Reads!Shown(i)
         /\ readsRow[i].status # "gone" => i \in Reads!Filtered
         /\ i \in Agent => i \in Readable
  <1>1. client \in ListClient
    BY ClientKind DEF ReadsInv
  <1>2. i \in ReadsId /\ i <= client.hw /\ Reads!Shown(i) /\ i \in Labelled
        /\ (AgentOpen \/ i \notin Agent) /\ readsRow[i].status \notin {"none", "open"}
    BY <1>1 DEF ReadsInv, ListKnows, ListClient
  <1>3. readsRow[i].status \in ReadsStatus
    BY <1>2 DEF ReadsInv, ReadsType, ReadsRow
  <1> QED
    BY <1>2, <1>3 DEF Reads!Filtered, Reads!Committed, Reads!Id, ReadsId, Reads!Terminal,
                      Reads!NonTerminal, ReadsStatus, Reads!Shown

(* The two probes: what they found over is over for good.                  *)
LEMMA QuietKeeps ==
  ASSUME ReadsInv, Reads!QuietPlain \/ Reads!QuietAgent
  PROVE  ReadsInv'
  <1>1. client.op = "list" /\ client \in ListClient /\ readsRow' = readsRow /\ run' = run
    BY ClientKind DEF ReadsInv, Reads!QuietPlain, Reads!QuietAgent
  <1>2. PICK p \in {"agent", "page"}, q \in BOOLEAN:
          /\ client' = [client EXCEPT !.quiet = q, !.pc = p]
          /\ client.pc \in {"plain", "agent"}
          /\ p = "agent" => Ended(client.due \ Agent)
          /\ p = "page" /\ q => Ended(client.due)
    <2>1. CASE Reads!QuietPlain
      <3>1. client.pc = "plain" /\ client.quiet = TRUE
        BY <1>1, <2>1 DEF Reads!QuietPlain, ReadsInv, ListKnows, ListClient
      <3>2. CASE Reads!Live(Reads!Filtered \ Agent) # {}
        <4>1. client' = [client EXCEPT !.quiet = FALSE, !.pc = "page"]
          BY <2>1, <3>2 DEF Reads!QuietPlain
        <4> QED
          BY <3>1, <4>1
      <3>3. CASE Reads!Live(Reads!Filtered \ Agent) = {}
        <4>1. Ended(client.due \ Agent)
          <5> SUFFICES ASSUME NEW i \in client.due, i \notin Agent
                       PROVE  readsRow[i].status \notin {"pending", "running"}
            BY DEF Ended
          <5>1. i <= client.hw /\ (readsRow[i].status # "gone" => i \in Reads!Filtered)
            BY <1>1, DueIsFiltered
          <5> QED
            BY <3>3, <5>1 DEF Reads!Live, Reads!NonTerminal
        <4>2. ~AgentOpen => Ended(client.due)
          BY <1>1, <4>1 DEF Ended, ReadsInv, ListKnows
        <4>3. client' = [client EXCEPT !.quiet = TRUE, !.pc = IF AgentOpen THEN "agent" ELSE "page"]
          <5>1. client' = [client EXCEPT !.pc = IF AgentOpen THEN "agent" ELSE "page"]
            BY <2>1, <3>3 DEF Reads!QuietPlain
          <5> QED
            BY <1>1, <3>1, <5>1 DEF ListClient
        <4> QED
          BY <3>1, <4>1, <4>2, <4>3
      <3> QED
        BY <3>2, <3>3
    <2>2. CASE Reads!QuietAgent
      <3> DEFINE q == Reads!Live(Reads!Filtered \cap Readable) = {}
      <3>1. client.pc = "agent" /\ client' = [client EXCEPT !.quiet = q, !.pc = "page"]
        BY <2>2 DEF Reads!QuietAgent
      <3>2. ASSUME q PROVE Ended(client.due)
        <4> SUFFICES ASSUME NEW i \in client.due
                     PROVE  readsRow[i].status \notin {"pending", "running"}
          BY DEF Ended
        <4>1. /\ i <= client.hw /\ (readsRow[i].status # "gone" => i \in Reads!Filtered)
              /\ i \in Agent => i \in Readable
          BY <1>1, DueIsFiltered
        <4>2. CASE i \in Agent
          BY <3>2, <4>1, <4>2 DEF Reads!Live, Reads!NonTerminal
        <4>3. CASE i \notin Agent
          BY <1>1, <3>1, <4>3 DEF ReadsInv, ListKnows, Ended
        <4> QED
          BY <4>2, <4>3
      <3>3. q \in BOOLEAN
        OBVIOUS
      <3> HIDE DEF q
      <3> QED
        BY <3>1, <3>2, <3>3
    <2> QED
      BY <2>1, <2>2
  <1>3. /\ client' \in ListClient /\ client'.op = "list" /\ client'.pc = p /\ client'.quiet = q
        /\ client'.hw = client.hw /\ client'.after = client.after /\ client'.listed = client.listed
        /\ client'.due = client.due
    BY <1>1, <1>2 DEF ListClient
  <1>4. ListKnows'
    BY <1>1, <1>2, <1>3 DEF ReadsInv, ListKnows, InOrder, ListedUpTo, Ended, Reads!Shown
  <1> QED
    BY <1>1, <1>3, <1>4, RowsStay DEF ReadsInv, ReadsType, BulkKnows, PollKnowsRun

(* Another page behind the ones before it.                                 *)
LEMMA PageAdded ==
  ASSUME NEW pages \in Seq(SUBSET ReadsId), NEW page \in SUBSET ReadsId, NEW b \in Nat,
         InOrder(pages), \A n \in 1 .. Len(pages): \A i \in pages[n]: i <= b,
         \A i \in page: i > b
  PROVE  /\ Append(pages, page) \in Seq(SUBSET ReadsId) /\ InOrder(Append(pages, page))
         /\ \A i: (\E n \in 1 .. Len(pages): i \in pages[n]) \/ i \in page <=>
                  \E n \in 1 .. Len(Append(pages, page)): i \in Append(pages, page)[n]
  <1> DEFINE all == Append(pages, page)
  <1>1. /\ all \in Seq(SUBSET ReadsId) /\ Len(all) = Len(pages) + 1 /\ Len(pages) \in Nat
        /\ \A n \in 1 .. Len(pages): all[n] = pages[n]
        /\ all[Len(pages) + 1] = page
    BY AppendProperties, LenProperties
  <1> HIDE DEF all
  <1>2. InOrder(all)
    <2> SUFFICES ASSUME NEW m \in 1 .. Len(all), NEW n \in 1 .. Len(all), m < n,
                        NEW i \in all[m], NEW k \in all[n]
                 PROVE  i < k
      BY DEF InOrder
    <2>1. m \in 1 .. Len(pages) /\ all[m] = pages[m]
      BY <1>1
    <2>2. CASE n \in 1 .. Len(pages)
      BY <1>1, <2>1, <2>2 DEF InOrder
    <2>3. CASE n = Len(pages) + 1
      <3>1. i <= b /\ k > b /\ k \in ReadsId
        BY <1>1, <2>1, <2>3
      <3>2. i \in ReadsId
        BY <2>1, ElementOfSeq
      <3> QED
        BY <3>1, <3>2, ReadsAssumption DEF ReadsId
    <2> QED
      BY <1>1, <2>2, <2>3
  <1>3. ASSUME NEW i
        PROVE  (\E n \in 1 .. Len(pages): i \in pages[n]) \/ i \in page <=>
                  \E n \in 1 .. Len(all): i \in all[n]
    <2>1. 1 .. Len(all) = (1 .. Len(pages)) \cup {Len(pages) + 1}
      BY <1>1
    <2> QED
      BY <1>1, <2>1
  <1> QED
    BY <1>1, <1>2, <1>3 DEF all

(* A page lists what is due up to its cursor, the last one the rest.       *)
LEMMA PageKeeps ==
  ASSUME ReadsInv, Reads!Page
  PROVE  ReadsInv'
  <1> DEFINE rest == Reads!Rest
             first == Reads!FirstIds(rest, Limit)
             page == {i \in first: Reads!Shown(i)}
             more == Reads!Cardinality(rest) > Limit
             all == Append(client.listed, page)
             upto == IF more THEN Reads!NextAfter ELSE client.after
             pc == IF more THEN "page" ELSE "complete"
  <1>1. /\ client.op = "list" /\ client.pc = "page" /\ readsRow' = readsRow /\ run' = run
        /\ client' = [client EXCEPT !.listed = all, !.after = upto, !.pc = pc]
    BY DEF Reads!Page
  <1>2. client \in ListClient /\ ListKnows
    BY <1>1, ClientKind DEF ReadsInv
  <1>3. rest \in SUBSET ReadsId /\ \A i \in rest: i > client.after
    BY DEF Reads!Rest, Reads!Filtered, Reads!Committed, Reads!Id, ReadsId
  <1>4. /\ first \subseteq rest /\ (rest # {} => first # {}) /\ (~more => first = rest)
        /\ \A i \in first: \A k \in rest: k < i => k \in first
    BY <1>3, FirstRows
  <1>5. page \in SUBSET ReadsId /\ \A i \in page: i > client.after
    BY <1>3, <1>4
  <1>6. client.listed \in Seq(SUBSET ReadsId) /\ client.after \in Nat /\ client.hw \in Nat
        /\ client.due \in SUBSET ReadsId
    BY <1>2 DEF ListClient
  <1>7. InOrder(client.listed) /\ \A n \in 1 .. Len(client.listed): \A i \in client.listed[n]: i <= client.after
    BY <1>1, <1>2 DEF ListKnows
  <1>8. /\ all \in Seq(SUBSET ReadsId) /\ InOrder(all)
        /\ \A i: (\E n \in 1 .. Len(client.listed): i \in client.listed[n]) \/ i \in page <=>
                 \E n \in 1 .. Len(all): i \in all[n]
    BY <1>5, <1>6, <1>7, PageAdded
  <1>9. more => /\ upto \in first /\ upto \in Nat /\ upto > client.after
                /\ \A i \in first: i <= upto
    <2> SUFFICES ASSUME more PROVE /\ upto \in first /\ upto \in Nat /\ upto > client.after
                                   /\ \A i \in first: i <= upto
      OBVIOUS
    <2>1. rest # {}
      <3>1. Cardinality(rest) > Limit
        BY ReadsCounts
      <3>2. rest = {} => Cardinality(rest) = 0
        BY FS_EmptySet
      <3> QED
        BY <3>1, <3>2, ReadsAssumption
    <2>2. first \in SUBSET ReadsId /\ first # {}
      BY <1>3, <1>4, <2>1
    <2>3. upto = Reads!Max(first)
      BY DEF Reads!NextAfter
    <2> HIDE DEF first, upto, rest
    <2>4. upto \in first /\ \A i \in first: i <= upto
      BY <2>2, <2>3, IdSets
    <2> QED
      BY <1>3, <1>4, <2>2, <2>4, ReadsAssumption DEF ReadsId
  <1>10. ASSUME NEW i \in client.due, readsRow[i].status # "gone",
                i <= upto \/ ~more
         PROVE  (\E n \in 1 .. Len(client.listed): i \in client.listed[n]) \/ i \in page
    <2>1. i \in Reads!Filtered /\ i <= client.hw /\ Reads!Shown(i) /\ i \in ReadsId
      BY <1>1, <1>10, DueIsFiltered
    <2>2. CASE i <= client.after
      BY <1>1, <1>2, <1>10, <2>2 DEF ListKnows, ListedUpTo
    <2>3. CASE ~(i <= client.after)
      <3>1. i > client.after
        BY <1>6, <2>1, <2>3, ReadsAssumption DEF ReadsId
      <3>2. i \in rest
        BY <2>1, <3>1 DEF Reads!Rest
      <3>3. CASE ~more
        BY <1>4, <2>1, <3>2, <3>3
      <3>4. CASE more
        <4>1. i = upto \/ i < upto
          BY <1>9, <1>10, <2>1, <3>4, ReadsAssumption DEF ReadsId
        <4>2. i \in first
          BY <1>4, <1>9, <3>2, <3>4, <4>1
        <4> QED
          BY <2>1, <4>2
      <3> QED
        BY <3>3, <3>4
    <2> QED
      BY <2>2, <2>3
  <1>11. upto \in Nat /\ pc \in {"page", "complete"} /\ (pc = "page" <=> more) /\ client.after <= upto
    BY <1>6, <1>9
  <1>12. \A i \in page: pc = "page" => i <= upto
    BY <1>9
  <1> HIDE DEF rest, first, page, more, all, upto, pc
  <1>13. /\ client' \in ListClient /\ client'.op = "list" /\ client'.pc = pc
         /\ client'.quiet = client.quiet /\ client'.hw = client.hw /\ client'.after = upto
         /\ client'.listed = all /\ client'.due = client.due
    BY <1>1, <1>2, <1>8, <1>11 DEF ListClient
  <1>14. ASSUME NEW i \in client.due, readsRow[i].status # "gone", i <= upto \/ pc = "complete"
         PROVE  \E n \in 1 .. Len(all): i \in all[n]
    BY <1>8, <1>10, <1>11, <1>14
  <1>15. /\ pc = "page" => ListedUpTo(client.after)'
         /\ pc = "complete" => ListedUpTo(client.hw)'
    BY <1>1, <1>13, <1>14 DEF ListedUpTo
  <1>16. ASSUME pc = "page", NEW n \in 1 .. Len(all), NEW i \in all[n]
         PROVE  i <= upto
    <2>1. CASE i \in page
      BY <1>12, <1>16, <2>1
    <2>2. CASE \E m \in 1 .. Len(client.listed): i \in client.listed[m]
      <3>1. i <= client.after
        BY <1>7, <2>2
      <3>2. i \in ReadsId
        BY <1>8, <1>16, ElementOfSeq
      <3> QED
        BY <1>6, <1>11, <3>1, <3>2, ReadsAssumption DEF ReadsId
    <2> QED
      BY <1>8, <2>1, <2>2
  <1>17. client.quiet => Ended(client.due)
    BY <1>1, <1>2 DEF ListKnows
  <1>18. ListKnows'
    BY <1>1, <1>2, <1>8, <1>11, <1>13, <1>15, <1>16, <1>17 DEF ListKnows, Ended, Reads!Shown, InOrder
  <1> QED
    BY <1>1, <1>13, <1>18, RowsStay DEF ReadsInv, ReadsType, BulkKnows, PollKnowsRun

(* A bulk cancel begins.                                                   *)
LEMMA BulkSelectKeeps ==
  ASSUME ReadsInv, Reads!BulkSelect
  PROVE  ReadsInv'
  <1> DEFINE sel == {i \in Reads!Filtered: readsRow[i].status \in Reads!NonTerminal}
             saw == [i \in sel |-> readsRow[i].status]
  <1>1. /\ readsRow' = readsRow /\ run' = run
        /\ client' = [op |-> "bulk", pc |-> "next", wanted |-> sel, selected |-> sel, saw |-> saw,
                      cancelled |-> {}, requested |-> {}, already |-> 0]
    BY DEF Reads!BulkSelect
  <1>2. sel \in SUBSET ReadsId /\ \A i \in sel: readsRow[i].status \in {"pending", "running"}
    BY DEF Reads!Filtered, Reads!Committed, Reads!Id, ReadsId, Reads!NonTerminal
  <1>3. saw \in UNION {[S -> ReadsStatus] : S \in SUBSET ReadsId}
    <2>1. saw \in [sel -> ReadsStatus]
      BY <1>2 DEF ReadsInv, ReadsType, ReadsRow
    <2> QED
      BY <1>2, <2>1
  <1> HIDE DEF sel, saw
  <1>4. /\ client' \in BulkClient /\ client'.op = "bulk" /\ client'.pc = "next"
        /\ client'.wanted = sel /\ client'.selected = sel
        /\ client'.cancelled = {} /\ client'.requested = {} /\ client'.already = 0
    BY <1>1, <1>2, <1>3 DEF BulkClient
  <1>5. {} \cup {} \cup sel = sel /\ Reads!Cardinality(sel) \in Nat
    BY <1>2, IdSets, ReadsCounts
  <1>6. Reads!CancelAnswersTrue'
    BY <1>1, <1>4, <1>5 DEF Reads!CancelAnswersTrue
  <1>7. BulkKnows'
    BY <1>1, <1>2, <1>4, <1>6 DEF BulkKnows, AskedRows
  <1> QED
    BY <1>1, <1>4, <1>7, RowsStay DEF ReadsInv, ReadsType, ListKnows, PollKnowsRun

(* The next job of a bulk cancel.                                          *)
LEMMA CurrentIs ==
  ASSUME ReadsInv, client.op = "bulk", client.wanted # {}
  PROVE  /\ Reads!Current \in client.wanted /\ Reads!Current \in ReadsId
         /\ readsRow[Reads!Current] \in ReadsRow
         /\ readsRow[Reads!Current].status \notin {"none", "open"}
         /\ RowAgrees(Reads!Current)
  <1>1. client.wanted \in SUBSET ReadsId
    BY ClientKind DEF ReadsInv, BulkClient
  <1>2. Reads!Current \in client.wanted
    BY <1>1, IdSets DEF Reads!Current
  <1> QED
    BY <1>1, <1>2 DEF ReadsInv, ReadsType, BulkKnows, AskedRows

(* An answer about it that is true of the rows as they are after the step. *)
LEMMA AnswerKeeps ==
  ASSUME ReadsInv, client.op = "bulk", client.wanted # {},
         NEW a \in {"cancelled", "cancel_requested", "already_terminal"}, Reads!Answer(a),
         readsRow' \in [ReadsId -> ReadsRow], run' \in [Agent -> ReadsRun],
         \A i \in ReadsId: RowMoves(i) /\ RowAgrees(i)',
         a = "cancelled" => readsRow'[Reads!Current].status \in {"cancelled", "gone"},
         a = "cancel_requested" => readsRow'[Reads!Current].flag,
         a = "already_terminal" => readsRow'[Reads!Current].status \notin {"pending", "running"}
  PROVE  ReadsInv'
  <1> DEFINE c == Reads!Current
             can == IF a = "cancelled" THEN client.cancelled \cup {c} ELSE client.cancelled
             req == IF a = "cancel_requested" THEN client.requested \cup {c} ELSE client.requested
             alr == IF a = "already_terminal" THEN client.already + 1 ELSE client.already
             want == client.wanted \ {c}
  <1>1. client \in BulkClient /\ BulkKnows
    BY ClientKind DEF ReadsInv
  <1>2. c \in client.wanted /\ c \in ReadsId
    BY CurrentIs
  <1>3. client' = [client EXCEPT !.pc = "next", !.wanted = want, !.cancelled = can,
                                 !.requested = req, !.already = alr]
    BY DEF Reads!Answer
  <1>4. /\ client.wanted \in SUBSET ReadsId /\ client.cancelled \in SUBSET ReadsId
        /\ client.requested \in SUBSET ReadsId /\ client.already \in Nat
        /\ client.selected \in SUBSET ReadsId
    BY <1>1 DEF BulkClient
  <1>5. want \in SUBSET ReadsId /\ can \in SUBSET ReadsId /\ req \in SUBSET ReadsId /\ alr \in Nat
    BY <1>2, <1>4
  <1>6. c \notin client.cancelled \cup client.requested /\ want \cap (can \cup req) = {}
    BY <1>1, <1>2 DEF BulkKnows
  <1>7. alr + Cardinality(can \cup req \cup want) = Cardinality(client.selected)
    <2> DEFINE U == client.cancelled \cup client.requested \cup client.wanted
    <2>1. client.already + Cardinality(U) = Cardinality(client.selected)
      BY <1>1, ReadsCounts DEF BulkKnows, Reads!CancelAnswersTrue
    <2>2. U \in SUBSET ReadsId /\ c \in U
      BY <1>2, <1>4
    <2>3. CASE a # "already_terminal"
      <3>1. can \cup req \cup want = U
        BY <1>2, <2>3
      <3>2. alr = client.already
        BY <2>3
      <3> QED
        BY <2>1, <3>1, <3>2
    <2>4. CASE a = "already_terminal"
      <3>1. can \cup req \cup want = U \ {c}
        BY <1>6, <2>4
      <3>2. alr = client.already + 1
        BY <2>4
      <3> HIDE DEF U, alr, can, req, want
      <3>3. Cardinality(U \ {c}) = Cardinality(U) - 1 /\ Cardinality(U) \in Nat
        BY <2>2, IdSets, FS_RemoveElement
      <3>4. (client.already + 1) + (Cardinality(U) - 1) = Cardinality(client.selected)
        BY ONLY <1>4, <2>1, <3>3
      <3>5. Cardinality(can \cup req \cup want) = Cardinality(U) - 1
        BY ONLY <3>1, <3>3
      <3> QED
        BY ONLY <3>2, <3>4, <3>5
    <2> QED
      BY <2>3, <2>4
  <1> HIDE DEF c, can, req, alr, want
  <1>8. /\ client' \in BulkClient /\ client'.op = "bulk" /\ client'.pc = "next"
        /\ client'.wanted = want /\ client'.selected = client.selected
        /\ client'.cancelled = can /\ client'.requested = req /\ client'.already = alr
    BY <1>1, <1>3, <1>5 DEF BulkClient
  <1>9. ASSUME NEW i \in can PROVE readsRow'[i].status \in {"cancelled", "gone"} /\ ~readsRow'[i].task
    <2>1. i \in ReadsId /\ RowMoves(i) /\ RowAgrees(i)'
      BY <1>5, <1>9
    <2>2. readsRow'[i].status \in {"cancelled", "gone"}
      <3>1. CASE i \in client.cancelled
        BY <1>1, <2>1, <3>1 DEF BulkKnows, Reads!CancelAnswersTrue, RowMoves
      <3>2. CASE i \notin client.cancelled
        BY <1>9, <3>2 DEF can, c
      <3> QED
        BY <3>1, <3>2
    <2> QED
      BY <2>1, <2>2 DEF RowAgrees
  <1>10. ASSUME NEW i \in req, readsRow'[i].status \in {"pending", "running"}
         PROVE  readsRow'[i].flag \/ (i \in Agent /\ run'[i].cancel)
    <2>1. i \in ReadsId /\ RowMoves(i) /\ readsRow[i].status \in ReadsStatus
      BY <1>5, <1>10 DEF ReadsInv, ReadsType, ReadsRow
    <2>2. CASE i \in client.requested
      <3>1. readsRow[i].status \notin {"none", "open"}
        BY <1>1, <2>2 DEF BulkKnows, AskedRows
      <3>2. readsRow[i].status \in {"pending", "running"}
        BY <1>10, <2>1, <3>1 DEF RowMoves, ReadsStatus
      <3>3. readsRow[i].flag \/ (i \in Agent /\ run[i].cancel)
        BY <1>1, <2>2, <3>2 DEF BulkKnows, Reads!CancelAnswersTrue, Reads!NonTerminal
      <3> QED
        BY <2>1, <3>3 DEF RowMoves
    <2>3. CASE i \notin client.requested
      BY <1>10, <2>3 DEF req, c
    <2> QED
      BY <2>2, <2>3
  <1>11. ASSUME NEW i \in client.selected \ (want \cup can \cup req)
         PROVE  readsRow'[i].status \notin {"pending", "running"}
    <2>1. i \in ReadsId /\ RowMoves(i) /\ readsRow[i].status \in ReadsStatus
      BY <1>4 DEF ReadsInv, ReadsType, ReadsRow
    <2>2. CASE i = c
      BY <1>11, <2>2 DEF c, can, req
    <2>3. CASE i # c
      <3>1. i \notin client.wanted \cup client.cancelled \cup client.requested
        BY <1>11, <2>3 DEF want, can, req
      <3>2. readsRow[i].status \notin {"pending", "running", "none", "open"}
        BY <1>1, <1>11, <3>1 DEF BulkKnows, AskedRows, Reads!CancelAnswersTrue, Reads!NonTerminal
      <3> QED
        BY <2>1, <3>2 DEF RowMoves, ReadsStatus
    <2> QED
      BY <2>2, <2>3
  <1>12. Reads!CancelAnswersTrue'
    BY <1>7, <1>8, <1>9, <1>10, <1>11, ReadsCounts DEF Reads!CancelAnswersTrue, Reads!NonTerminal
  <1>13. AskedRows'
    <2>1. want \cup can \cup req \subseteq client.selected
      BY <1>1, <1>2 DEF BulkKnows, AskedRows, want, can, req
    <2>2. \A i \in client.selected: readsRow'[i].status \notin {"none", "open"}
      BY <1>1, <1>4 DEF BulkKnows, AskedRows, RowMoves
    <2> QED
      BY <1>8, <2>1, <2>2 DEF AskedRows
  <1>14. BulkKnows'
    BY <1>6, <1>8, <1>12, <1>13 DEF BulkKnows
  <1> QED
    BY <1>8, <1>14 DEF ReadsInv, ReadsType, ListKnows, PollKnowsRun

(* Rows that stay as they are move as any may.                             *)
LEMMA RowsRest ==
  ASSUME ReadsInv, NEW i \in ReadsId, readsRow'[i] = readsRow[i], i \in Agent => run'[i] = run[i]
  PROVE  RowMoves(i) /\ RowAgrees(i)'
  <1>1. i \in Agent => run[i].last_seq \in Nat
    BY DEF ReadsInv, ReadsType, ReadsRun
  <1>2. RowAgrees(i)
    BY DEF ReadsInv
  <1> QED
    BY <1>1, <1>2 DEF RowMoves, RowAgrees

(* A plain job, under its row lock.                                        *)
LEMMA CancelPlainKeeps ==
  ASSUME ReadsInv, Reads!_cancel_plain
  PROVE  ReadsInv'
  <1> PICK c : c = Reads!Current
    OBVIOUS
  <1>1. client.op = "bulk" /\ client.wanted # {} /\ c \notin Agent /\ run' = run
    BY DEF Reads!_cancel_plain, Reads!Cancelling
  <1>2. /\ c \in ReadsId /\ readsRow[c] \in ReadsRow /\ RowAgrees(c)
        /\ readsRow \in [ReadsId -> ReadsRow] /\ run \in [Agent -> ReadsRun]
    BY <1>1, CurrentIs DEF ReadsInv, ReadsType
  <1>3. CASE /\ readsRow[c].status = "pending" /\ readsRow' = Reads!Set(c, "cancelled")
             /\ Reads!Answer("cancelled")
    <2>1. readsRow' = [readsRow EXCEPT ![c].status = "cancelled"]
      BY <1>3 DEF Reads!Set
    <2>2. /\ readsRow' \in [ReadsId -> ReadsRow] /\ readsRow'[c].status = "cancelled"
          /\ readsRow'[c].flag = readsRow[c].flag /\ readsRow'[c].task = readsRow[c].task
          /\ \A i \in ReadsId: i # c => readsRow'[i] = readsRow[i]
      BY <1>2, <2>1 DEF ReadsRow, ReadsStatus
    <2>3. RowMoves(c) /\ RowAgrees(c)'
      BY <1>1, <1>2, <1>3, <2>2 DEF RowMoves, RowAgrees
    <2>4. \A i \in ReadsId: RowMoves(i) /\ RowAgrees(i)'
      BY <1>1, <2>2, <2>3, RowsRest
    <2> QED
      BY <1>1, <1>2, <1>3, <2>2, <2>4, AnswerKeeps
  <1>4. CASE /\ readsRow[c].status = "running" /\ readsRow' = [readsRow EXCEPT ![c].flag = TRUE]
             /\ Reads!Answer("cancel_requested")
    <2>2. /\ readsRow' \in [ReadsId -> ReadsRow] /\ readsRow'[c].status = readsRow[c].status
          /\ readsRow'[c].flag = TRUE /\ readsRow'[c].task = readsRow[c].task
          /\ \A i \in ReadsId: i # c => readsRow'[i] = readsRow[i]
      BY <1>2, <1>4 DEF ReadsRow, ReadsStatus
    <2>3. RowMoves(c) /\ RowAgrees(c)'
      BY <1>1, <1>2, <1>4, <2>2 DEF RowMoves, RowAgrees
    <2>4. \A i \in ReadsId: RowMoves(i) /\ RowAgrees(i)'
      BY <1>1, <2>2, <2>3, RowsRest
    <2> QED
      BY <1>1, <1>2, <1>4, <2>2, <2>4, AnswerKeeps
  <1>5. CASE /\ readsRow[c].status \notin {"pending", "running"} /\ readsRow' = readsRow
             /\ Reads!Answer("already_terminal")
    <2>1. \A i \in ReadsId: RowMoves(i) /\ RowAgrees(i)'
      BY <1>1, <1>5, RowsRest
    <2> QED
      BY <1>1, <1>2, <1>5, <2>1, AnswerKeeps
  <1> QED
    BY <1>3, <1>4, <1>5 DEF Reads!_cancel_plain, Reads!NonTerminal

(* A bulk step that answers nothing yet and leaves the rows alone.         *)
LEMMA BulkGoesOn ==
  ASSUME ReadsInv, client.op = "bulk", client.wanted # {}, Reads!Current \in Agent,
         NEW p \in {"agent", "mirror"}, client' = [client EXCEPT !.pc = p],
         readsRow' \in [ReadsId -> ReadsRow], run' \in [Agent -> ReadsRun],
         \A i \in ReadsId: RowMoves(i) /\ RowAgrees(i)'
  PROVE  ReadsInv'
  <1>1. client \in BulkClient /\ BulkKnows
    BY ClientKind DEF ReadsInv
  <1>2. /\ client' \in BulkClient /\ client'.op = "bulk" /\ client'.pc = p
        /\ client'.wanted = client.wanted /\ client'.selected = client.selected
        /\ client'.cancelled = client.cancelled /\ client'.requested = client.requested
        /\ client'.already = client.already
    BY <1>1 DEF BulkClient
  <1>3. Reads!Current' = Reads!Current
    BY <1>2 DEF Reads!Current
  <1>4. AskedRows' /\ Reads!CancelAnswersTrue'
    BY <1>2, AnswersKept
  <1> QED
    BY <1>1, <1>2, <1>3, <1>4 DEF ReadsInv, ReadsType, BulkKnows, ListKnows, PollKnowsRun

(* The steps of the cancel of an agent run.                                *)
LEMMA AgentReadKeeps ==
  ASSUME ReadsInv, Reads!AgentRead
  PROVE  ReadsInv'
  <1>1. /\ client.op = "bulk" /\ client.wanted # {} /\ Reads!Current \in Agent
        /\ readsRow' = readsRow /\ run' = run
    BY DEF Reads!AgentRead, Reads!Cancelling
  <1>2. /\ readsRow' \in [ReadsId -> ReadsRow] /\ run' \in [Agent -> ReadsRun]
        /\ \A i \in ReadsId: RowMoves(i) /\ RowAgrees(i)'
    BY <1>1, RowsRest DEF ReadsInv, ReadsType
  <1>3. CASE /\ run[Reads!Current].outcome # "none" \/ readsRow[Reads!Current].status = "gone"
             /\ Reads!Answer("already_terminal")
    <2>1. run[Reads!Current].outcome \in {"none", "done", "cancelled"} /\ RowAgrees(Reads!Current)
      BY <1>1, CurrentIs DEF ReadsInv, ReadsType, ReadsRun
    <2>2. readsRow'[Reads!Current].status \notin {"pending", "running"}
      BY <1>1, <1>3, <2>1 DEF RowAgrees
    <2> QED
      BY <1>1, <1>2, <1>3, <2>2, AnswerKeeps
  <1>4. CASE client' = [client EXCEPT !.pc = "agent"]
    BY <1>1, <1>2, <1>4, BulkGoesOn
  <1> QED
    BY <1>3, <1>4 DEF Reads!AgentRead

(* cancel_run under its own lock: cancelled, asked, or ended meanwhile.    *)
LEMMA CancelRunKeeps ==
  ASSUME ReadsInv, Reads!cancel_run
  PROVE  ReadsInv'
  <1> PICK c : c = Reads!Current
    OBVIOUS
  <1>1. client.op = "bulk" /\ client.wanted # {} /\ c \in Agent
    BY DEF Reads!cancel_run, ReadsInv, BulkKnows
  <1>2. /\ c \in ReadsId /\ readsRow[c] \in ReadsRow /\ run[c] \in ReadsRun /\ RowAgrees(c)
        /\ readsRow \in [ReadsId -> ReadsRow] /\ run \in [Agent -> ReadsRun]
    BY <1>1, CurrentIs DEF ReadsInv, ReadsType
  <1>3. CASE /\ run[c].outcome = "none" /\ readsRow[c].status = "pending"
             /\ readsRow' = Reads!Set(c, "cancelled")
             /\ run' = [run EXCEPT ![c].outcome = "cancelled", ![c].last_seq = @ + 1]
             /\ Reads!Answer("cancelled")
    <2>1. readsRow' = [readsRow EXCEPT ![c].status = "cancelled"]
      BY <1>3 DEF Reads!Set
    <2>2. /\ readsRow' \in [ReadsId -> ReadsRow] /\ readsRow'[c].status = "cancelled"
          /\ readsRow'[c].flag = readsRow[c].flag /\ readsRow'[c].task = readsRow[c].task
          /\ \A i \in ReadsId: i # c => readsRow'[i] = readsRow[i]
      BY <1>2, <2>1 DEF ReadsRow, ReadsStatus
    <2>3. /\ run' \in [Agent -> ReadsRun] /\ run'[c].outcome = "cancelled"
          /\ run'[c].cancel = run[c].cancel /\ run'[c].last_seq = run[c].last_seq + 1
          /\ \A i \in Agent: i # c => run'[i] = run[i]
      BY <1>1, <1>2, <1>3 DEF ReadsRun
    <2>4. run[c].last_seq \in Nat
      BY <1>2 DEF ReadsRun
    <2>5. RowMoves(c)
      BY <1>1, <1>3, <2>2, <2>3, <2>4 DEF RowMoves
    <2>6. RowAgrees(c)'
      BY <1>1, <1>2, <1>3, <2>2, <2>3 DEF RowAgrees
    <2>7. \A i \in ReadsId: RowMoves(i) /\ RowAgrees(i)'
      BY <2>2, <2>3, <2>5, <2>6, RowsRest
    <2> QED
      BY <1>1, <1>3, <2>2, <2>3, <2>7, AnswerKeeps
  <1>4. CASE /\ run[c].outcome = "none" /\ readsRow[c].status = "running"
             /\ run' = [run EXCEPT ![c].cancel = TRUE] /\ readsRow' = readsRow
             /\ client' = [client EXCEPT !.pc = "mirror"]
    <2>1. /\ run' \in [Agent -> ReadsRun] /\ run'[c].outcome = run[c].outcome
          /\ run'[c].cancel = TRUE /\ run'[c].last_seq = run[c].last_seq
          /\ \A i \in Agent: i # c => run'[i] = run[i]
      BY <1>1, <1>2, <1>4 DEF ReadsRun
    <2>2. run[c].last_seq \in Nat
      BY <1>2 DEF ReadsRun
    <2>3. RowMoves(c)
      BY <1>4, <2>1, <2>2 DEF RowMoves
    <2>4. RowAgrees(c)'
      BY <1>1, <1>2, <1>4, <2>1 DEF RowAgrees
    <2>5. \A i \in ReadsId: RowMoves(i) /\ RowAgrees(i)'
      BY <1>4, <2>1, <2>3, <2>4, RowsRest
    <2> QED
      BY <1>1, <1>2, <1>4, <2>1, <2>5, BulkGoesOn
  <1>5. CASE /\ run[c].outcome # "none" /\ readsRow' = readsRow /\ run' = run
             /\ Reads!Answer(IF run[c].outcome = "cancelled" THEN "cancelled" ELSE "already_terminal")
    <2>1. \A i \in ReadsId: RowMoves(i) /\ RowAgrees(i)'
      BY <1>5, RowsRest
    <2>2. run[c].outcome \in {"done", "cancelled"} /\ readsRow'[c].status \in {run[c].outcome, "gone"}
      BY <1>1, <1>2, <1>5 DEF RowAgrees, ReadsRun
    <2>3. CASE run[c].outcome = "cancelled"
      BY <1>1, <1>2, <1>5, <2>1, <2>2, <2>3, AnswerKeeps
    <2>4. CASE run[c].outcome # "cancelled"
      BY <1>1, <1>2, <1>5, <2>1, <2>2, <2>4, AnswerKeeps
    <2> QED
      BY <2>3, <2>4
  <1> QED
    BY <1>3, <1>4, <1>5 DEF Reads!cancel_run

(* The flag on the job row.                                                *)
LEMMA MirrorKeeps ==
  ASSUME ReadsInv, Reads!Mirror
  PROVE  ReadsInv'
  <1> PICK c : c = Reads!Current
    OBVIOUS
  <1>1. /\ client.op = "bulk" /\ client.wanted # {} /\ run' = run
        /\ readsRow' = [readsRow EXCEPT ![c].flag = TRUE] /\ Reads!Answer("cancel_requested")
    BY DEF Reads!Mirror, ReadsInv, BulkKnows
  <1>2. /\ c \in ReadsId /\ readsRow[c] \in ReadsRow /\ RowAgrees(c)
        /\ readsRow \in [ReadsId -> ReadsRow] /\ run \in [Agent -> ReadsRun]
    BY <1>1, CurrentIs DEF ReadsInv, ReadsType
  <1>3. /\ readsRow' \in [ReadsId -> ReadsRow] /\ readsRow'[c].status = readsRow[c].status
        /\ readsRow'[c].flag = TRUE /\ readsRow'[c].task = readsRow[c].task
        /\ \A i \in ReadsId: i # c => readsRow'[i] = readsRow[i]
    BY <1>1, <1>2 DEF ReadsRow, ReadsStatus
  <1>4. c \in Agent => run[c].last_seq \in Nat
    BY <1>2 DEF ReadsRun
  <1>5. RowMoves(c) /\ RowAgrees(c)'
    BY <1>1, <1>2, <1>3, <1>4 DEF RowMoves, RowAgrees
  <1>6. \A i \in ReadsId: RowMoves(i) /\ RowAgrees(i)'
    BY <1>1, <1>3, <1>5, RowsRest
  <1> QED
    BY <1>1, <1>2, <1>3, <1>6, AnswerKeeps

(* The events of a run are polled.                                         *)
LEMMA PollBeginKeeps ==
  ASSUME ReadsInv, NEW i \in ReadsId, Reads!PollBegin(i)
  PROVE  ReadsInv'
  <1>1. /\ i \in Agent /\ readsRow' = readsRow /\ run' = run
        /\ client' = [op |-> "poll", pc |-> "run", id |-> i, after |-> 0, got |-> <<>>,
                      outcome |-> "none", last_seq |-> 0, finished |-> FALSE]
    BY DEF Reads!PollBegin
  <1>2. client' \in PollClient /\ client'.op = "poll" /\ client'.id = i /\ client'.after = 0
        /\ client'.got = <<>> /\ client'.outcome = "none" /\ client'.finished = FALSE
    BY <1>1, EmptySeq DEF PollClient
  <1>3. run[i].last_seq \in Nat
    BY <1>1 DEF ReadsInv, ReadsType, ReadsRun
  <1>4. <<>> = [k \in 1 .. 0 |-> k]
    OBVIOUS
  <1>5. PollKnowsRun'
    BY <1>1, <1>2, <1>3, <1>4 DEF PollKnowsRun
  <1> QED
    BY <1>1, <1>2, <1>5, RowsStay DEF ReadsInv, ReadsType, ListKnows, BulkKnows

(* The run as it is now.                                                   *)
LEMMA PollRunKeeps ==
  ASSUME ReadsInv, Reads!PollRun
  PROVE  ReadsInv'
  <1>1. /\ client.op = "poll" /\ ~client.finished /\ readsRow' = readsRow /\ run' = run
        /\ client' = [client EXCEPT !.pc = "events", !.outcome = run[client.id].outcome,
                                    !.last_seq = run[client.id].last_seq]
    BY DEF Reads!PollRun
  <1>2. client \in PollClient /\ PollKnowsRun
    BY <1>1, ClientKind DEF ReadsInv
  <1>3. run[client.id] \in ReadsRun
    BY <1>2 DEF ReadsInv, ReadsType, PollClient
  <1>4. /\ client' \in PollClient /\ client'.op = "poll" /\ client'.id = client.id
        /\ client'.after = client.after /\ client'.got = client.got
        /\ client'.outcome = run[client.id].outcome /\ client'.last_seq = run[client.id].last_seq
        /\ client'.finished = client.finished
    BY <1>1, <1>2, <1>3 DEF PollClient, ReadsRun
  <1>5. PollKnowsRun'
    BY <1>1, <1>2, <1>4 DEF PollKnowsRun
  <1> QED
    BY <1>1, <1>4, <1>5, RowsStay DEF ReadsInv, ReadsType, ListKnows, BulkKnows

(* Counting on from where one stopped.                                     *)
LEMMA CountsOn ==
  ASSUME NEW a \in Nat, NEW b \in Nat, a <= b
  PROVE  /\ [k \in 1 .. a |-> k] \o [k \in 1 .. (b - a) |-> a + k] = [k \in 1 .. b |-> k]
         /\ [k \in 1 .. b |-> k] \in Seq(Nat)
  <1> DEFINE s == [k \in 1 .. a |-> k]
             t == [k \in 1 .. (b - a) |-> a + k]
             u == [k \in 1 .. b |-> k]
  <1>1. b - a \in Nat
    OBVIOUS
  <1>2. s \in Seq(Nat) /\ Len(s) = a /\ \A k \in 1 .. a: s[k] = k
    OBVIOUS
  <1>3. t \in Seq(Nat) /\ Len(t) = b - a /\ \A k \in 1 .. (b - a): t[k] = a + k
    BY <1>1
  <1>4. u \in Seq(Nat) /\ Len(u) = b /\ \A k \in 1 .. b: u[k] = k
    OBVIOUS
  <1> HIDE DEF s, t, u
  <1>5. /\ s \o t \in Seq(Nat) /\ Len(s \o t) = Len(s) + Len(t)
        /\ \A i \in 1 .. Len(s) + Len(t): (s \o t)[i] = IF i <= Len(s) THEN s[i] ELSE t[i - Len(s)]
    BY <1>2, <1>3, ConcatProperties
  <1>6. Len(s \o t) = Len(u)
    BY <1>2, <1>3, <1>4, <1>5
  <1>7. ASSUME NEW i \in 1 .. Len(s \o t) PROVE (s \o t)[i] = u[i]
    <2>1. i \in 1 .. b /\ i \in 1 .. Len(s) + Len(t)
      BY <1>2, <1>3, <1>5
    <2>2. CASE i <= a
      BY <1>2, <1>4, <1>5, <2>1, <2>2
    <2>3. CASE ~(i <= a)
      <3>1. i - a \in 1 .. (b - a)
        BY <2>1, <2>3
      <3>2. t[i - a] = a + (i - a)
        BY <1>3, <3>1
      <3>3. (s \o t)[i] = t[i - a]
        BY <1>2, <1>5, <2>1, <2>3
      <3> QED
        BY <1>4, <2>1, <3>2, <3>3
    <2> QED
      BY <2>2, <2>3
  <1>8. s \o t = u
    BY <1>4, <1>5, <1>6, <1>7, SeqEqual
  <1> QED
    BY <1>4, <1>8 DEF s, t, u

(* The events after the last one, as many as a page holds.                 *)
LEMMA PollEventsKeeps ==
  ASSUME ReadsInv, Reads!PollEvents
  PROVE  ReadsInv'
  <1> DEFINE last == Reads!Min({client.after + Limit, run[client.id].last_seq})
             fin == Reads!Finished(last)
             more == [k \in 1 .. (last - client.after) |-> client.after + k]
             out == IF fin THEN client.outcome ELSE "none"
             seq == IF fin THEN client.last_seq ELSE 0
  <1>1. /\ client.op = "poll" /\ readsRow' = readsRow /\ run' = run
        /\ client' = [client EXCEPT !.pc = "run", !.got = client.got \o more, !.after = last,
                                    !.finished = fin, !.outcome = out, !.last_seq = seq]
    BY DEF Reads!PollEvents
  <1>2. client \in PollClient /\ PollKnowsRun
    BY <1>1, ClientKind DEF ReadsInv
  <1>3. client.after \in Nat /\ run[client.id].last_seq \in Nat
        /\ client.last_seq \in Nat /\ client.outcome \in {"none", "done", "cancelled"}
    BY <1>2 DEF ReadsInv, ReadsType, PollClient, ReadsRun
  <1>4. last \in Nat /\ client.after <= last /\ last <= run[client.id].last_seq
    <2>1. client.after <= run[client.id].last_seq
      BY <1>1, <1>2 DEF PollKnowsRun
    <2> DEFINE a == client.after + Limit
               b == run[client.id].last_seq
    <2>2. a \in Nat /\ b \in Nat /\ client.after <= a
      BY <1>3, ReadsAssumption
    <2> HIDE DEF a, b
    <2>3. \E x \in {a, b}: \A y \in {a, b}: x <= y
      BY <2>2
    <2>4. Reads!Min({a, b}) \in {a, b} /\ \A y \in {a, b}: Reads!Min({a, b}) <= y
      BY <2>3, Zenon DEF Reads!Min
    <2>5. Reads!Min({a, b}) \in Nat /\ client.after <= Reads!Min({a, b}) /\ Reads!Min({a, b}) <= b
      BY <2>1, <2>2, <2>4 DEF b
    <2> QED
      BY <2>5 DEF a, b
  <1> HIDE DEF last
  <1>5. client.got \o more = [k \in 1 .. last |-> k] /\ [k \in 1 .. last |-> k] \in Seq(Nat)
    <2>1. client.got = [k \in 1 .. client.after |-> k]
      BY <1>1, <1>2 DEF PollKnowsRun
    <2>2. /\ [k \in 1 .. client.after |-> k] \o more = [k \in 1 .. last |-> k]
          /\ [k \in 1 .. last |-> k] \in Seq(Nat)
      BY ONLY <1>3, <1>4, CountsOn
    <2> HIDE DEF more
    <2> QED
      BY ONLY <2>1, <2>2
  <1>6. fin \in BOOLEAN /\ (fin => client.outcome # "none" /\ last >= client.last_seq)
    BY DEF Reads!Finished
  <1>7. out \in {"none", "done", "cancelled"} /\ seq \in Nat /\ (out # "none" => fin)
        /\ (fin => out = client.outcome /\ seq = client.last_seq)
    BY <1>3
  <1> HIDE DEF more, fin, out, seq
  <1>8. /\ client' \in PollClient /\ client'.op = "poll" /\ client'.id = client.id
        /\ client'.after = last /\ client'.got = [k \in 1 .. last |-> k] /\ client'.finished = fin
        /\ client'.outcome = out /\ client'.last_seq = seq
    BY <1>1, <1>2, <1>4, <1>5, <1>6, <1>7 DEF PollClient
  <1>9. PollKnowsRun'
    BY <1>1, <1>2, <1>4, <1>6, <1>7, <1>8 DEF PollKnowsRun
  <1> QED
    BY <1>1, <1>8, <1>9, RowsStay DEF ReadsInv, ReadsType, ListKnows, BulkKnows

(* Nothing happens.                                                        *)
LEMMA ReadsStutter ==
  ASSUME ReadsInv, UNCHANGED Reads!vars
  PROVE  ReadsInv'
  BY DEF Reads!vars, ReadsInv, ReadsType, RowAgrees, ListKnows, BulkKnows, PollKnowsRun, InOrder,
         Ended, ListedUpTo, AskedRows, Reads!CancelAnswersTrue, Reads!Current, Reads!Shown

(* The invariant holds at first, every step keeps it, and it is enough.    *)
LEMMA ReadsFacts ==
  /\ Reads!Init => ReadsInv
  /\ ReadsInv /\ [Reads!Next]_(Reads!vars) => ReadsInv'
  /\ ReadsInv => Reads!WalkExact /\ Reads!QuietIsFinal /\ Reads!CancelAnswersTrue /\ Reads!EventsWhole
  <1>1. ReadsInv /\ [Reads!Next]_(Reads!vars) => ReadsInv'
    BY JobsKeep, ListBeginKeeps, QuietKeeps, PageKeeps, BulkSelectKeeps, CancelPlainKeeps,
       AgentReadKeeps, CancelRunKeeps, MirrorKeeps, PollBeginKeeps, PollRunKeeps, PollEventsKeeps,
       ReadsStutter DEF Reads!Next, Reads!Id, ReadsId
  <1>2. ReadsInv => Reads!WalkExact /\ Reads!QuietIsFinal
    BY DEF ReadsInv, ListKnows, InOrder, ListedUpTo, Ended, Reads!WalkExact, Reads!QuietIsFinal,
           Reads!NonTerminal
  <1>3. ReadsInv => Reads!CancelAnswersTrue
    BY DEF ReadsInv, BulkKnows, Reads!CancelAnswersTrue
  <1>4. ReadsInv => Reads!EventsWhole
    <2> SUFFICES ASSUME ReadsInv, client.op = "poll", client.finished
                 PROVE  /\ client.got = [k \in 1 .. run[client.id].last_seq |-> k]
                        /\ run[client.id].outcome # "none"
      BY DEF Reads!EventsWhole
    <2>1. client.after \in Nat /\ run[client.id].last_seq \in Nat
      BY ClientKind DEF ReadsInv, ReadsType, PollClient, ReadsRun
    <2>2. client.after = run[client.id].last_seq
      BY <2>1 DEF ReadsInv, PollKnowsRun
    <2> QED
      BY <2>2 DEF ReadsInv, PollKnowsRun
  <1> QED
    BY <1>1, <1>2, <1>3, <1>4, ReadsInit

-----------------------------------------------------------------------------
(***************************************************************************)
(* The bytes a run returned (JobFiles).                                    *)
(***************************************************************************)
FileText == {"png", "odd", "text"}
FileEntry ==
  [state: {"open", "done", "purged"}, content: FileText \cup {"none"}, ref: BOOLEAN,
   expires: Int, expired: BOOLEAN, at: Nat]
FilePoll ==
  [pc: {"idle", "row", "blobs", "answered"}, job: FileJob \cup {0}, file: FileEntry,
   now: Nat, content: FileText \cup {"none"}, expired: BOOLEAN]
FileTool ==
  [pc: {"idle", "batch", "clear"}, cutoff: Nat, execute: BOOLEAN, todo: SUBSET FileJob,
   job: FileJob \cup {0}]

FilesType ==
  /\ now \in Nat /\ inTable \in BOOLEAN
  /\ meta \in [FileJob -> FileEntry] /\ made \in [FileJob -> FileEntry]
  /\ blob \in [FileJob -> FileText \cup {"none"}]
  /\ poll \in FilePoll /\ tool \in FileTool

(* What the run of an ended job returned, and an entry that accounts for   *)
(* it at time t: the text is elsewhere, is here, or was cleared after it   *)
(* expired.                                                                *)
Returned(f) ==
  f.state = "done" /\ f.content \in FileText /\ f.expires = f.at + TTL /\ f.at <= now
Accounts(e, f, t) ==
  /\ e.state = "done" /\ e.expires = f.expires /\ e.at = f.at
  /\ \/ e.ref /\ ~e.expired /\ e.content = "none"
     \/ ~e.ref /\ ~e.expired /\ e.content = f.content
     \/ ~e.ref /\ e.expired /\ e.content = "none" /\ f.expires < t

(* A stored entry accounts for its file, with its bytes beside it; a row   *)
(* is purged after its retention.                                          *)
FileKept(j) ==
  /\ meta[j].state # "open" => Returned(made[j])
  /\ meta[j].state = "done" =>
       /\ Accounts(meta[j], made[j], now)
       /\ meta[j].ref => blob[j] = made[j].content
  /\ meta[j].state = "purged" => now - made[j].at > Retention

(* The entry a poll read still points to where the bytes are.              *)
PollKnows ==
  /\ poll.pc # "idle" => poll.job \in FileJob /\ meta[poll.job].state # "open"
  /\ poll.pc \in {"row", "blobs"} =>
       (meta[poll.job].state = "done" => meta[poll.job].ref = poll.file.ref)
  /\ poll.pc = "row" => Accounts(poll.file, made[poll.job], now)
  /\ poll.pc = "blobs" =>
       /\ poll.now <= now /\ now - poll.now <= Slow
       /\ Accounts(poll.file, made[poll.job], poll.now)

ToolKnows ==
  /\ tool.cutoff <= now
  /\ tool.pc = "clear" => tool.job \in FileJob

FilesInv ==
  /\ FilesType /\ (\A j \in FileJob: FileKept(j))
  /\ PollKnows /\ ToolKnows /\ Files!ServedAsInline

(* Comparing the timestamps as strings compares the times.                 *)
LEMMA IsoOrder ==
  ASSUME NEW a \in Nat, NEW b \in Nat
  PROVE  Files!IsoLess(a, b) <=> a < b
  BY DEF Files!IsoLess, Files!Seconds, Files!Mark

(* The records a poll and the clearing script begin with.                  *)
LEMMA FilesBegin ==
  /\ Files!Open \in FileEntry /\ Files!Gone \in FileEntry
  /\ Files!Open.state = "open" /\ Files!Gone.state = "purged"
  /\ Files!Open.ref = FALSE /\ Files!Open.expired = FALSE
  /\ Files!NoPoll \in FilePoll /\ Files!NoPoll.pc = "idle"
  /\ Files!NoTool \in FileTool /\ Files!NoTool.pc = "idle" /\ Files!NoTool.cutoff = 0
  <1>1. /\ Files!Open \in FileEntry /\ Files!Open.state = "open"
        /\ Files!Open.ref = FALSE /\ Files!Open.expired = FALSE
    BY DEF Files!Open, Files!Nothing, Files!Never, FileEntry, FileText
  <1>2. Files!Gone \in FileEntry /\ Files!Gone.state = "purged"
    BY <1>1 DEF Files!Gone, FileEntry
  <1>3. Files!NoPoll \in FilePoll /\ Files!NoPoll.pc = "idle"
    BY <1>1 DEF Files!NoPoll, Files!Nothing, FilePoll, FileText
  <1>4. Files!NoTool \in FileTool /\ Files!NoTool.pc = "idle" /\ Files!NoTool.cutoff = 0
    BY DEF Files!NoTool, FileTool
  <1> QED
    BY <1>1, <1>2, <1>3, <1>4

(* Nothing returned yet.                                                   *)
LEMMA FilesInit == Files!Init => FilesInv
  <1> SUFFICES ASSUME Files!Init PROVE FilesInv
    OBVIOUS
  <1>1. FilesType
    BY FilesBegin DEF Files!Init, FilesType, FileText, Files!Nothing
  <1>2. \A j \in FileJob: meta[j].state = "open"
    BY FilesBegin DEF Files!Init
  <1>3. poll.pc = "idle" /\ tool.pc = "idle" /\ tool.cutoff = 0 /\ now = 0
    BY FilesBegin DEF Files!Init
  <1> QED
    BY <1>1, <1>2, <1>3 DEF FilesInv, FileKept, PollKnows, ToolKnows, Files!ServedAsInline

(* What is stored of a file and what is put beside it.                     *)
LEMMA StoredFile ==
  ASSUME FilesType, NEW f \in FileEntry, f.content \in FileText, f.state = "done",
         ~f.ref, ~f.expired
  PROVE  /\ Files!store_files(f).entry \in FileEntry
         /\ Files!store_files(f).data \in FileText \cup {"none"}
         /\ Accounts(Files!store_files(f).entry, f, now)
         /\ Files!store_files(f).entry.ref => Files!store_files(f).data = f.content
  BY DEF Files!store_files, Files!_decode_exact, Files!Reencoded, Files!Binary, Files!Nothing,
         FileEntry, FileText, Accounts, FilesType

(* The run ends.                                                           *)
LEMMA CompleteKeeps ==
  ASSUME FilesInv, NEW j \in FileJob, Files!Complete(j)
  PROVE  FilesInv'
  <1>1. /\ meta[j].state = "open" /\ UNCHANGED <<now, inTable, poll, tool>>
        /\ \E c \in FileText:
             LET f == [Files!Open EXCEPT !.state = "done", !.content = c, !.expires = now + TTL,
                                         !.at = now]
             IN /\ meta' = [meta EXCEPT ![j] = Files!store_files(f).entry]
                /\ blob' = [blob EXCEPT ![j] = Files!store_files(f).data]
                /\ made' = [made EXCEPT ![j] = f]
    BY Zenon DEF Files!Complete, FileText
  <1>2. PICK c \in FileText:
             LET f == [Files!Open EXCEPT !.state = "done", !.content = c, !.expires = now + TTL,
                                         !.at = now]
             IN /\ meta' = [meta EXCEPT ![j] = Files!store_files(f).entry]
                /\ blob' = [blob EXCEPT ![j] = Files!store_files(f).data]
                /\ made' = [made EXCEPT ![j] = f]
    BY <1>1, Zenon
  <1>3. FilesType
    BY DEF FilesInv
  <1> DEFINE f == [Files!Open EXCEPT !.state = "done", !.content = c, !.expires = now + TTL,
                                     !.at = now]
             e == Files!store_files(f).entry
             d == Files!store_files(f).data
  <1>4. /\ f \in FileEntry /\ f.content \in FileText /\ f.state = "done" /\ ~f.ref /\ ~f.expired
        /\ f.expires = f.at + TTL /\ f.at = now
    <2>1. now \in Nat /\ now + TTL \in Int
      BY <1>3, FilesAssumption DEF FilesType
    <2> QED
      BY <2>1, FilesBegin DEF FileEntry
  <1>5. meta' = [meta EXCEPT ![j] = e] /\ blob' = [blob EXCEPT ![j] = d] /\ made' = [made EXCEPT ![j] = f]
    BY <1>2, Zenon
  <1> HIDE DEF f
  <1>6. /\ e \in FileEntry /\ d \in FileText \cup {"none"} /\ Accounts(e, f, now)
        /\ e.ref => d = f.content
    BY <1>3, <1>4, StoredFile
  <1> HIDE DEF e, d
  <1>7. FilesType'
    BY <1>1, <1>3, <1>4, <1>5, <1>6 DEF FilesType
  <1>8. /\ meta'[j] = e /\ blob'[j] = d /\ made'[j] = f
        /\ \A i \in FileJob: i # j => meta'[i] = meta[i] /\ blob'[i] = blob[i] /\ made'[i] = made[i]
    BY <1>3, <1>5 DEF FilesType
  <1>9. ASSUME NEW i \in FileJob PROVE FileKept(i)'
    <2>1. CASE i = j
      <3>1. e.state = "done"
        BY <1>6 DEF Accounts
      <3>2. Returned(f)
        BY <1>3, <1>4 DEF Returned, FilesType
      <3>3. now' = now
        BY <1>1
      <3> QED
        BY <1>6, <1>8, <2>1, <3>1, <3>2, <3>3 DEF FileKept, Returned, Accounts
    <2>2. CASE i # j
      BY <1>1, <1>8, <2>2 DEF FilesInv, FileKept, Returned, Accounts
    <2> QED
      BY <2>1, <2>2
  <1>10. poll.pc # "idle" => poll.job \in FileJob /\ poll.job # j
    BY <1>1 DEF FilesInv, PollKnows
  <1>11. PollKnows' /\ Files!ServedAsInline'
    <2>1. CASE poll.pc = "idle"
      BY <1>1, <2>1 DEF PollKnows, Files!ServedAsInline
    <2>2. CASE poll.pc # "idle"
      <3>1. meta'[poll.job] = meta[poll.job] /\ made'[poll.job] = made[poll.job]
            /\ poll' = poll /\ now' = now
        BY <1>1, <1>8, <1>10, <2>2
      <3> QED
        BY <2>2, <3>1 DEF FilesInv, PollKnows, Files!ServedAsInline, Accounts
    <2> QED
      BY <2>1, <2>2
  <1>12. ToolKnows'
    BY <1>1 DEF FilesInv, ToolKnows
  <1> QED
    BY <1>7, <1>9, <1>11, <1>12 DEF FilesInv

(* Retention.                                                              *)
LEMMA PurgeKeeps ==
  ASSUME FilesInv, NEW j \in FileJob, Files!Purge(j)
  PROVE  FilesInv'
  <1>1. /\ meta[j].state = "done" /\ now - meta[j].at > Retention
        /\ meta' = [meta EXCEPT ![j] = Files!Gone] /\ blob' = [blob EXCEPT ![j] = "none"]
        /\ UNCHANGED <<now, inTable, made, poll, tool>>
    BY DEF Files!Purge, Files!Nothing
  <1>2. FilesType'
    BY <1>1, FilesBegin DEF FilesInv, FilesType
  <1>3. /\ meta'[j] = Files!Gone /\ \A i \in FileJob: i # j => meta'[i] = meta[i] /\ blob'[i] = blob[i]
    BY <1>1 DEF FilesInv, FilesType
  <1>4. ASSUME NEW i \in FileJob PROVE FileKept(i)'
    <2>1. CASE i = j
      <3>1. Returned(made[j]) /\ meta[j].at = made[j].at
        BY <1>1 DEF FilesInv, FileKept, Accounts
      <3> QED
        BY <1>1, <1>3, <2>1, <3>1, FilesBegin DEF FileKept, Returned
    <2>2. CASE i # j
      BY <1>1, <1>3, <2>2 DEF FilesInv, FileKept, Returned, Accounts
    <2> QED
      BY <2>1, <2>2
  <1>5. PollKnows'
    BY <1>1, <1>3, FilesBegin DEF FilesInv, PollKnows, Accounts
  <1> QED
    BY <1>1, <1>2, <1>4, <1>5 DEF FilesInv, ToolKnows, Files!ServedAsInline

(* The clock, a deployment, the end of a poll.                             *)
LEMMA IdleFilesKeep ==
  ASSUME FilesInv,
         Files!Tick \/ Files!Deploy \/ Files!PollEnd \/ UNCHANGED Files!vars
  PROVE  FilesInv'
  <1>1. CASE Files!Tick
    <2>1. /\ now' = now + 1 /\ (poll.pc = "blobs" => now - poll.now < Slow)
          /\ UNCHANGED <<inTable, meta, blob, made, poll, tool>>
      BY <1>1 DEF Files!Tick
    <2>2. now \in Nat /\ poll.now \in Nat /\ tool.cutoff \in Nat /\ FilesType'
      BY <2>1 DEF FilesInv, FilesType, FilePoll, FileTool
    <2>3. ASSUME NEW j \in FileJob PROVE FileKept(j)'
      <3>1. made[j].at \in Nat /\ made[j].expires \in Int
        BY DEF FilesInv, FilesType, FileEntry
      <3> QED
        BY <2>1, <2>2, <3>1, FilesAssumption DEF FilesInv, FileKept, Returned, Accounts
    <2>4. poll.pc # "idle" => made[poll.job].expires \in Int
      BY DEF FilesInv, PollKnows, FilesType, FileEntry
    <2>5. PollKnows'
      BY <2>1, <2>2, <2>4, FilesAssumption DEF FilesInv, PollKnows, Accounts
    <2> QED
      BY <2>1, <2>2, <2>3, <2>5 DEF FilesInv, ToolKnows, Files!ServedAsInline
  <1>2. CASE Files!Deploy
    BY <1>2 DEF Files!Deploy, FilesInv, FilesType, FileKept, PollKnows, ToolKnows, Returned,
                Accounts, Files!ServedAsInline
  <1>3. CASE Files!PollEnd
    BY <1>3, FilesBegin DEF Files!PollEnd, FilesInv, FilesType, FileKept, PollKnows, ToolKnows,
                Returned, Accounts, Files!ServedAsInline
  <1>4. CASE UNCHANGED Files!vars
    BY <1>4 DEF Files!vars, FilesInv, FilesType, FileKept, PollKnows, ToolKnows, Returned,
                Accounts, Files!ServedAsInline
  <1> QED
    BY <1>1, <1>2, <1>3, <1>4

(* A poll reads the row, then takes the time.                              *)
LEMMA PollStartsKeep ==
  ASSUME FilesInv, (\E j \in FileJob: Files!PollRow(j)) \/ Files!live_files
  PROVE  FilesInv'
  <1>1. CASE \E j \in FileJob: Files!PollRow(j)
    <2>1. PICK j \in FileJob: Files!PollRow(j)
      BY <1>1
    <2>2. /\ meta[j].state = "done" /\ UNCHANGED <<now, inTable, meta, blob, made, tool>>
          /\ poll' = [Files!NoPoll EXCEPT !.pc = "row", !.job = j, !.file = meta[j]]
      BY <2>1 DEF Files!PollRow
    <2>3. meta[j] \in FileEntry
      BY DEF FilesInv, FilesType
    <2>4. poll' \in FilePoll /\ poll'.pc = "row" /\ poll'.job = j /\ poll'.file = meta[j]
      BY <2>2, <2>3, FilesBegin DEF FilePoll
    <2>5. Accounts(meta[j], made[j], now)
      BY <2>2 DEF FilesInv, FileKept
    <2> QED
      BY <2>2, <2>4, <2>5 DEF FilesInv, FilesType, FileKept, PollKnows, ToolKnows, Returned,
                Accounts, Files!ServedAsInline
  <1>2. CASE Files!live_files
    <2>1. /\ poll.pc = "row" /\ poll' = [poll EXCEPT !.pc = "blobs", !.now = now]
          /\ UNCHANGED <<now, inTable, meta, blob, made, tool>>
      BY <1>2 DEF Files!live_files
    <2>2. /\ poll' \in FilePoll /\ poll'.pc = "blobs" /\ poll'.job = poll.job
          /\ poll'.file = poll.file /\ poll'.now = now
      BY <2>1 DEF FilesInv, FilesType, FilePoll
    <2>3. poll'.now <= now' /\ now' - poll'.now <= Slow
      BY <2>1, <2>2, FilesAssumption DEF FilesInv, FilesType
    <2> QED
      BY <2>1, <2>2, <2>3 DEF FilesInv, FilesType, FileKept, PollKnows, ToolKnows, Returned,
                Accounts, Files!ServedAsInline
  <1> QED
    BY <1>1, <1>2

(* The bytes are there while a poll that found the file live reads them.   *)
LEMMA BytesThere ==
  ASSUME FilesInv, poll.pc = "blobs", made[poll.job].expires >= poll.now, poll.file.ref
  PROVE  blob[poll.job] = made[poll.job].content
  <1>1. /\ poll.job \in FileJob /\ meta[poll.job].state # "open"
        /\ poll.now <= now /\ now - poll.now <= Slow
    BY DEF FilesInv, PollKnows
  <1>2. Returned(made[poll.job]) /\ made[poll.job].at \in Nat /\ now \in Nat /\ poll.now \in Nat
    BY <1>1 DEF FilesInv, FileKept, FilesType, FileEntry, FilePoll
  <1>3. made[poll.job].expires = made[poll.job].at + TTL
    BY <1>2 DEF Returned
  <1>4. ~(now - made[poll.job].at > Retention)
    BY <1>1, <1>2, <1>3, FilesAssumption
  <1>5. meta[poll.job].state = "done"
    BY <1>1, <1>4 DEF FilesInv, FileKept, FilesType, FileEntry
  <1> QED
    BY <1>1, <1>5 DEF FilesInv, FileKept, PollKnows

(* The poll is answered.                                                   *)
LEMMA PollBlobsKeeps ==
  ASSUME FilesInv, Files!PollBlobs
  PROVE  FilesInv'
  <1> DEFINE a == Files!Served(poll.file, poll.now, blob[poll.job])
             f == made[poll.job]
  <1>1. /\ poll.pc = "blobs" /\ UNCHANGED <<now, inTable, meta, blob, made, tool>>
        /\ poll' = [poll EXCEPT !.pc = "answered", !.content = a.content, !.expired = a.expired]
    BY DEF Files!PollBlobs
  <1>2. /\ poll.job \in FileJob /\ Accounts(poll.file, f, poll.now) /\ meta[poll.job].state # "open"
    BY <1>1 DEF FilesInv, PollKnows
  <1>3. /\ poll.file \in FileEntry /\ blob[poll.job] \in FileText \cup {"none"} /\ f \in FileEntry
        /\ poll.now \in Nat /\ Returned(f) /\ f.expires \in Nat
    <2>1. Returned(f) /\ f \in FileEntry
      BY <1>2 DEF FilesInv, FileKept, FilesType
    <2>2. f.expires \in Nat
      BY <2>1, FilesAssumption DEF Returned, FileEntry
    <2> QED
      BY <1>2, <2>1, <2>2 DEF FilesInv, FilesType, FilePoll
  <1>4. Files!_expired(poll.file, poll.now) <=> f.expires < poll.now
    <2>1. poll.file.expires = f.expires
      BY <1>2 DEF Accounts
    <2> QED
      BY <1>3, <2>1, IsoOrder DEF Files!_expired, Files!Never
  <1>5. f.expires < poll.now => a.content = "none" /\ a.expired = TRUE
    BY <1>4 DEF Files!Served, Files!Nothing
  <1>6. ~(f.expires < poll.now) => a.content = f.content /\ a.expired = FALSE
    <2> SUFFICES ASSUME ~(f.expires < poll.now) PROVE a.content = f.content /\ a.expired = FALSE
      OBVIOUS
    <2>1. /\ a.content = (IF poll.file.ref THEN blob[poll.job] ELSE poll.file.content)
          /\ a.expired = poll.file.expired
      BY <1>4 DEF Files!Served
    <2>2. poll.file.ref => blob[poll.job] = f.content
      BY <1>1, <1>3, BytesThere
    <2>3. /\ poll.file.expired = FALSE /\ (~poll.file.ref => poll.file.content = f.content)
      BY <1>2, <1>3 DEF Accounts, FileEntry
    <2> QED
      BY <2>1, <2>2, <2>3
  <1>7. a.content \in FileText \cup {"none"} /\ a.expired \in BOOLEAN
    BY <1>3, <1>5, <1>6 DEF FileEntry
  <1> HIDE DEF a
  <1>8. /\ poll' \in FilePoll /\ poll'.pc = "answered" /\ poll'.job = poll.job
        /\ poll'.now = poll.now /\ poll'.content = a.content /\ poll'.expired = a.expired
    BY <1>1, <1>7 DEF FilesInv, FilesType, FilePoll
  <1>9. Files!ServedAsInline'
    BY <1>1, <1>5, <1>6, <1>8 DEF Files!ServedAsInline, Files!Nothing
  <1> QED
    BY <1>1, <1>2, <1>8, <1>9 DEF FilesInv, FilesType, FileKept, PollKnows, ToolKnows, Returned,
                Accounts

(* The clearing script.                                                    *)
LEMMA ToolKeeps ==
  ASSUME FilesInv,
         Files!ToolStart \/ (\E j \in FileJob: Files!Survey(j)) \/ Files!ToolEnd
  PROVE  FilesInv'
  <1>1. UNCHANGED <<now, inTable, meta, blob, made, poll>>
    BY DEF Files!ToolStart, Files!Survey, Files!ToolEnd
  <1>2. tool' \in FileTool /\ tool'.cutoff <= now /\ (tool'.pc = "clear" => tool'.job \in FileJob)
    <2>1. CASE Files!ToolStart
      <3>1. PICK cutoff \in 0 .. MaxTime, execute \in BOOLEAN:
              /\ Files!resolve(cutoff)
              /\ tool' = [pc |-> "batch", cutoff |-> cutoff, execute |-> execute, job |-> 0,
                          todo |-> {j \in FileJob: meta[j].state = "done"}]
        BY <2>1 DEF Files!ToolStart
      <3>2. cutoff \in Nat /\ cutoff <= now
        BY <3>1, FilesAssumption DEF Files!resolve
      <3> QED
        BY <3>1, <3>2 DEF FileTool
    <2>2. CASE \E j \in FileJob: Files!Survey(j)
      <3>1. PICK j \in FileJob: Files!Survey(j)
        BY <2>2
      <3>2. \/ tool' = [tool EXCEPT !.pc = "clear", !.job = j, !.todo = @ \ {j}]
            \/ tool' = [tool EXCEPT !.todo = @ \ {j}]
        BY ONLY <3>1, Zenon DEF Files!Survey
      <3>3. tool.pc = "batch"
        BY ONLY <3>1, Zenon DEF Files!Survey
      <3>4. tool \in FileTool /\ tool.cutoff <= now
        BY DEF FilesInv, FilesType, ToolKnows
      <3>5. CASE tool' = [tool EXCEPT !.pc = "clear", !.job = j, !.todo = @ \ {j}]
        BY ONLY <3>4, <3>5, j \in FileJob DEF FileTool
      <3>6. CASE tool' = [tool EXCEPT !.todo = @ \ {j}]
        BY ONLY <3>3, <3>4, <3>6 DEF FileTool
      <3> QED
        BY <3>2, <3>5, <3>6
    <2>3. CASE Files!ToolEnd
      BY <2>3, FilesBegin DEF Files!ToolEnd, FilesInv, FilesType
    <2> QED
      BY <2>1, <2>2, <2>3
  <1> QED
    BY <1>1, <1>2 DEF FilesInv, FilesType, FileKept, PollKnows, ToolKnows, Returned,
                Accounts, Files!ServedAsInline

(* A cleared entry had expired.                                            *)
LEMMA ClearKeeps ==
  ASSUME FilesInv, Files!Clear
  PROVE  FilesInv'
  <1> DEFINE j == tool.job
             e == [meta[j] EXCEPT !.content = "none", !.expired = TRUE]
  <1>1. /\ tool.pc = "clear" /\ UNCHANGED <<now, inTable, blob, made, poll>>
        /\ tool' = [tool EXCEPT !.pc = "batch", !.job = 0]
        /\ \/ UNCHANGED meta
           \/ Files!Clearable(meta[j]) /\ meta' = [meta EXCEPT ![j] = e]
    BY DEF Files!Clear, Files!Nothing
  <1>2. j \in FileJob /\ tool \in FileTool
    BY <1>1 DEF FilesInv, ToolKnows, FilesType
  <1>3. tool' \in FileTool /\ ToolKnows'
    BY <1>1, <1>2 DEF FilesInv, ToolKnows, FileTool
  <1>4. CASE UNCHANGED meta
    BY <1>1, <1>3, <1>4 DEF FilesInv, FilesType, FileKept, PollKnows, Returned,
                Accounts, Files!ServedAsInline
  <1>5. CASE Files!Clearable(meta[j]) /\ meta' = [meta EXCEPT ![j] = e]
    <2>1. meta[j] \in FileEntry /\ made[j] \in FileEntry /\ now \in Nat
      BY <1>2 DEF FilesInv, FilesType
    <2>2. /\ meta[j].state = "done" /\ meta[j].content # "none"
          /\ Files!IsoLess(meta[j].expires, tool.cutoff)
      BY <1>5 DEF Files!Clearable, Files!Nothing
    <2>3. /\ Accounts(meta[j], made[j], now) /\ Returned(made[j])
          /\ meta[j].ref => blob[j] = made[j].content
      BY <1>2, <2>2 DEF FilesInv, FileKept
    <2>4. made[j].expires < now
      <3>1. meta[j].expires = made[j].expires /\ meta[j].expires \in Nat
        BY <2>1, <2>3, FilesAssumption DEF Accounts, Returned, FileEntry
      <3>2. tool.cutoff \in Nat /\ tool.cutoff <= now
        BY DEF FilesInv, ToolKnows, FilesType, FileTool
      <3>3. meta[j].expires < tool.cutoff
        BY <2>2, <3>1, <3>2, IsoOrder
      <3> QED
        BY <2>1, <3>1, <3>2, <3>3
    <2>5. /\ e \in FileEntry /\ e.state = "done" /\ e.ref = meta[j].ref /\ e.content = "none"
          /\ e.expired = TRUE /\ e.expires = meta[j].expires /\ e.at = meta[j].at
      BY <2>1, <2>2 DEF FileEntry
    <2> HIDE DEF e
    <2>6. /\ meta' \in [FileJob -> FileEntry] /\ meta'[j] = e
          /\ \A i \in FileJob: i # j => meta'[i] = meta[i]
      BY <1>2, <1>5, <2>5 DEF FilesInv, FilesType
    <2>7. ~meta[j].ref
      BY <2>2, <2>3 DEF Accounts
    <2>8. Accounts(e, made[j], now)
      BY <2>3, <2>4, <2>5, <2>7 DEF Accounts
    <2>9. ASSUME NEW i \in FileJob PROVE FileKept(i)'
      <3>1. CASE i = j
        BY <1>1, <2>3, <2>5, <2>6, <2>7, <2>8, <3>1 DEF FileKept, Returned, Accounts
      <3>2. CASE i # j
        BY <1>1, <2>6, <3>2 DEF FilesInv, FileKept, Returned, Accounts
      <3> QED
        BY <3>1, <3>2
    <2>10. PollKnows'
      BY <1>1, <2>2, <2>5, <2>6 DEF FilesInv, PollKnows, Accounts
    <2> QED
      BY <1>1, <1>3, <2>6, <2>9, <2>10 DEF FilesInv, FilesType, Files!ServedAsInline
  <1> QED
    BY <1>1, <1>4, <1>5

(* The invariant holds at first and every step keeps it.                   *)
LEMMA FilesFacts ==
  /\ Files!Init => FilesInv
  /\ FilesInv /\ [Files!Next]_(Files!vars) => FilesInv'
  BY FilesInit, CompleteKeeps, PurgeKeeps, IdleFilesKeep, PollStartsKeep, PollBlobsKeeps,
     ToolKeeps, ClearKeeps DEF Files!Next

-----------------------------------------------------------------------------
(* The invariants of the reads and of the files hold along every behaviour *)
(* that is about them.                                                     *)
LEMMA ReadsAlong == SpecAll => [](which = "reads" => ReadsInv)
  <1> DEFINE Inv == which = "reads" => ReadsInv
  <1>1. InitAll => Inv
    BY ReadsFacts DEF InitAll
  <1>2. Inv /\ [NextAll]_allVars => Inv'
    <2> SUFFICES ASSUME Inv, [NextAll]_allVars, which' = "reads" PROVE ReadsInv'
      OBVIOUS
    <2>1. which' = which /\ [Reads!Next]_(Reads!vars)
      BY DEF NextAll, Queueing, Dispatching, Asking, Reading, FileKeeping, allVars, readsVars,
             Reads!vars
    <2> QED
      BY <2>1, ReadsFacts
  <1> QED
    BY <1>1, <1>2, PTL DEF SpecAll

(* The same of the files.                                                  *)
LEMMA FilesAlong == SpecAll => [](which = "files" => FilesInv)
  <1> DEFINE Inv == which = "files" => FilesInv
  <1>1. InitAll => Inv
    BY FilesFacts DEF InitAll
  <1>2. Inv /\ [NextAll]_allVars => Inv'
    <2> SUFFICES ASSUME Inv, [NextAll]_allVars, which' = "files" PROVE FilesInv'
      OBVIOUS
    <2>1. which' = which /\ [Files!Next]_(Files!vars)
      BY DEF NextAll, Queueing, Dispatching, Asking, Reading, FileKeeping, allVars, filesVars,
             Files!vars
    <2> QED
      BY <2>1, FilesFacts
  <1> QED
    BY <1>1, <1>2, PTL DEF SpecAll

(* A client is told the truth by answers put together from several reads,  *)
(* whatever happens between them: a listing has every job once and its     *)
(* `quiet' is final (services/job_list.py), a bulk cancel answers for each *)
(* job it selected (services/job_control.py), `finished' comes after every *)
(* event (routes/agent.py), a returned file is served until it expires     *)
(* (agent/job_files.py).                                                   *)
THEOREM ClientsToldTruth == SpecAll => []ToldTrue
  <1>1. (which = "reads" => ReadsInv) /\ (which = "files" => FilesInv) => ToldTrue
    BY ReadsFacts DEF FilesInv, ToldTrue, WalkExact, QuietIsFinal, CancelAnswersTrue, EventsWhole,
                      ServedAsInline
  <1> QED
    BY <1>1, ReadsAlong, FilesAlong, PTL

-----------------------------------------------------------------------------
(* A sequence without repetitions.                                         *)
Distinct(s) == \A i, j \in 1 .. Len(s) : s[i] = s[j] => i = j

(* The filter, one member at a time.                                       *)
Kept(k, s, S) ==
  k = [i \in 0 .. Len(s) |->
         IF i = 0 THEN <<>> ELSE IF s[i] \in S THEN Append(k[i - 1], s[i]) ELSE k[i - 1]]

(* The filter's recursive function exists.                                 *)
LEMMA KeptExists ==
  ASSUME NEW T, NEW s \in Seq(T), NEW S
  PROVE  \E k : Kept(k, s, S)
  <1> DEFINE Body(k, i) ==
               IF i = 0 THEN <<>> ELSE IF s[i] \in S THEN Append(k[i - 1], s[i]) ELSE k[i - 1]
             P == {n \in Nat : \E k : k = [i \in 0 .. n |-> Body(k, i)]}
  <1>1. 0 \in P
    <2> DEFINE k == [i \in 0 .. 0 |-> <<>>]
    <2>1. k = [i \in 0 .. 0 |-> Body(k, i)]
      OBVIOUS
    <2> QED BY <2>1
  <1>2. ASSUME NEW n \in Nat, n \in P PROVE n + 1 \in P
    <2>1. PICK k : k = [i \in 0 .. n |-> Body(k, i)]
      BY <1>2
    <2> DEFINE e == [i \in 0 .. n + 1 |-> IF i = n + 1 THEN Body(k, n + 1) ELSE k[i]]
    <2>2. ASSUME NEW i \in 0 .. n + 1 PROVE e[i] = Body(e, i)
      <3>1. CASE i = 0
        <4>1. 0 # n + 1 /\ 0 \in 0 .. n
          OBVIOUS
        <4>2. e[0] = k[0] /\ k[0] = <<>>
          BY <4>1, <2>1
        <4> QED BY <3>1, <4>2
      <3>2. CASE i # 0
        <4>1. i - 1 \in 0 .. n + 1 /\ i - 1 # n + 1
          BY <3>2
        <4>2. e[i - 1] = k[i - 1]
          BY <4>1
        <4>3. Body(e, i) = Body(k, i)
          BY <3>2, <4>2
        <4>4. CASE i = n + 1
          BY <4>3, <4>4
        <4>5. CASE i # n + 1
          <5>1. i \in 0 .. n
            BY <4>5
          <5>2. e[i] = k[i] /\ k[i] = Body(k, i)
            BY <5>1, <4>5, <2>1
          <5> QED BY <4>3, <5>2
        <4> QED BY <4>4, <4>5
      <3> QED BY <3>1, <3>2
    <2>3. e = [i \in 0 .. n + 1 |-> e[i]]
      OBVIOUS
    <2> HIDE DEF e
    <2>4. e = [i \in 0 .. n + 1 |-> Body(e, i)]
      BY <2>2, <2>3
    <2>5. \E f : f = [i \in 0 .. n + 1 |-> Body(f, i)]
      BY ONLY <2>4, Zenon
    <2>6. n + 1 \in Nat
      OBVIOUS
    <2> QED BY ONLY <2>5, <2>6, Zenon
  <1> HIDE DEF P
  <1>3. Len(s) \in P
    BY <1>1, <1>2, Nats, LenProperties
  <1> QED BY <1>3 DEF P, Kept

(* Only is its last value.                                                 *)
LEMMA OnlyIsKept ==
  ASSUME NEW T, NEW s \in Seq(T), NEW S
  PROVE  \E k : Kept(k, s, S) /\ Walk!Only(s, S) = k[Len(s)]
  <1> DEFINE k == CHOOSE k : Kept(k, s, S)
  <1>1. Kept(k, s, S)
    BY KeptExists
  <1>2. Walk!Only(s, S) = k[Len(s)]
    BY Zenon DEF Walk!Only, Kept
  <1> QED BY <1>1, <1>2

(* What a filter keeps: members of both, in the sequence, none twice if    *)
(* the sequence has none twice.                                            *)
LEMMA OnlyFacts ==
  ASSUME NEW T, NEW s \in Seq(T), NEW S
  PROVE  /\ Walk!Only(s, S) \in Seq(T \cap S)
         /\ \A i \in 1 .. Len(Walk!Only(s, S)) : \E j \in 1 .. Len(s) : Walk!Only(s, S)[i] = s[j]
         /\ Distinct(s) => Distinct(Walk!Only(s, S))
  <1>1. PICK k : Kept(k, s, S) /\ Walk!Only(s, S) = k[Len(s)]
    BY OnlyIsKept
  <1> DEFINE Fine(n, o) == /\ o \in Seq(T \cap S)
                           /\ \A i \in 1 .. Len(o) : \E j \in 1 .. n : o[i] = s[j]
                           /\ Distinct(s) => Distinct(o)
             P == {n \in Nat : n <= Len(s) => Fine(n, k[n])}
  <1>2. Len(s) \in Nat /\ \A i \in 1 .. Len(s) : s[i] \in T
    OBVIOUS
  <1>3. k[0] = <<>> /\ \A n \in Nat : n + 1 <= Len(s) =>
          k[n + 1] = IF s[n + 1] \in S THEN Append(k[n], s[n + 1]) ELSE k[n]
    <2>1. \A n \in Nat : (n + 1) - 1 = n /\ n + 1 # 0 /\ (n + 1 <= Len(s) => n + 1 \in 0 .. Len(s))
      BY <1>2
    <2>2. 0 \in 0 .. Len(s)
      BY <1>2
    <2> QED BY <1>1, <2>1, <2>2 DEF Kept
  <1>4. 0 \in P
    <2>1. <<>> \in Seq(T \cap S) /\ \A i : i \notin 1 .. Len(<<>>)
      OBVIOUS
    <2>2. Fine(0, k[0])
      BY <1>3, <2>1 DEF Distinct
    <2> QED BY <2>2
  <1>5. ASSUME NEW n \in Nat, n \in P, n + 1 <= Len(s) PROVE Fine(n + 1, k[n + 1])
    <2> DEFINE o == k[n]
               e == k[n + 1]
    <2>1. Fine(n, o)
      BY <1>2, <1>5
    <2>2. e = IF s[n + 1] \in S THEN Append(o, s[n + 1]) ELSE o
      BY <1>3, <1>5
    <2>3. n + 1 \in 1 .. Len(s)
      BY <1>2, <1>5
    <2> HIDE DEF o, e
    <2>4. CASE s[n + 1] \notin S
      <3>1. e = o
        BY <2>2, <2>4
      <3> QED BY <3>1, <2>1 DEF e
    <2>5. CASE s[n + 1] \in S
      <3>1. e = Append(o, s[n + 1]) /\ o \in Seq(T \cap S) /\ s[n + 1] \in T \cap S
        BY <2>1, <2>2, <2>3, <2>5, <1>2
      <3>2. e \in Seq(T \cap S) /\ Len(e) = Len(o) + 1 /\ e[Len(e)] = s[n + 1]
            /\ \A i \in 1 .. Len(o) : e[i] = o[i]
        BY <3>1
      <3>3. \A i \in 1 .. Len(e) : \E j \in 1 .. n + 1 : e[i] = s[j]
        BY <3>1, <3>2, <2>1, <2>3
      <3>4. ASSUME Distinct(s), NEW i \in 1 .. Len(o) PROVE o[i] # s[n + 1]
        <4>1. PICK j \in 1 .. n : o[i] = s[j]
          BY <2>1
        <4>2. j \in 1 .. Len(s) /\ j # n + 1
          BY <1>2, <1>5
        <4> QED BY <3>4, <4>1, <4>2, <2>3 DEF Distinct
      <3>5. ASSUME Distinct(s), NEW i \in 1 .. Len(e), NEW j \in 1 .. Len(e), e[i] = e[j]
            PROVE  i = j
        <4>0. Distinct(o) /\ Len(o) \in Nat
          BY <2>1, <3>5, <3>1
        <4>1. CASE i = Len(e) /\ j # Len(e)
          BY <4>1, <3>2, <3>4, <3>5, <4>0
        <4>2. CASE j = Len(e) /\ i # Len(e)
          BY <4>2, <3>2, <3>4, <3>5, <4>0
        <4>3. CASE i # Len(e) /\ j # Len(e)
          <5>1. i \in 1 .. Len(o) /\ j \in 1 .. Len(o)
            BY <4>3, <3>2, <4>0
          <5> QED BY <5>1, <4>0, <3>2, <3>5 DEF Distinct
        <4> QED BY <4>1, <4>2, <4>3
      <3>6. Distinct(s) => Distinct(e)
        BY <3>5 DEF Distinct
      <3> QED BY <3>2, <3>3, <3>6 DEF e
    <2> QED BY <2>4, <2>5
  <1> HIDE DEF Fine
  <1>6. Nat \subseteq P
    <2>1. \A n \in Nat : n \in P => n + 1 \in P
      BY <1>5
    <2> HIDE DEF P
    <2> QED BY <1>4, <2>1, Nats
  <1>7. Fine(Len(s), k[Len(s)])
    BY <1>2, <1>6
  <1> QED BY <1>1, <1>7 DEF Fine

(* A part of the chain: providers of c, none of them twice.                *)
Draws(d, c) == d \in Seq(Provider) /\ Distinct(d) /\ Walk!Ran(d) \subseteq Walk!Ran(c)

(* A filtered chain is a part of the chain.                                *)
LEMMA OnlyDraws ==
  ASSUME NEW c \in Seq(Provider), Distinct(c), NEW S
  PROVE  Draws(Walk!Only(c, S), c) /\ Walk!Ran(Walk!Only(c, S)) \subseteq S
  <1> DEFINE o == Walk!Only(c, S)
  <1>1. /\ o \in Seq(Provider \cap S) /\ Distinct(o)
        /\ \A i \in 1 .. Len(o) : \E j \in 1 .. Len(c) : o[i] = c[j]
    <2>1. /\ Walk!Only(c, S) \in Seq(Provider \cap S)
          /\ \A i \in 1 .. Len(Walk!Only(c, S)) : \E j \in 1 .. Len(c) : Walk!Only(c, S)[i] = c[j]
          /\ Distinct(c) => Distinct(Walk!Only(c, S))
      BY ONLY c \in Seq(Provider), OnlyFacts
    <2> QED BY <2>1
  <1> HIDE DEF o
  <1>2. o \in Seq(Provider) /\ \A i \in 1 .. Len(o) : o[i] \in S
    BY <1>1
  <1>3. Walk!Ran(o) \subseteq Walk!Ran(c) /\ Walk!Ran(o) \subseteq S
    BY <1>1, <1>2 DEF Walk!Ran
  <1> QED BY <1>1, <1>2, <1>3 DEF Draws, o

(* Two disjoint parts one after the other are a part.                      *)
LEMMA ConcatDraws ==
  ASSUME NEW c, NEW a, NEW b, Draws(a, c), Draws(b, c), Walk!Ran(a) \cap Walk!Ran(b) = {}
  PROVE  Draws(a \o b, c) /\ \A p : p \in Walk!Ran(a \o b) <=> p \in Walk!Ran(a) \/ p \in Walk!Ran(b)
  <1> DEFINE d == a \o b
  <1>1. a \in Seq(Provider) /\ b \in Seq(Provider) /\ Len(a) \in Nat /\ Len(b) \in Nat
    BY DEF Draws
  <1>2. /\ d \in Seq(Provider) /\ Len(d) = Len(a) + Len(b)
        /\ \A i \in 1 .. Len(d) : d[i] = IF i <= Len(a) THEN a[i] ELSE b[i - Len(a)]
    BY <1>1
  <1> HIDE DEF d
  <1>3. \A i \in 1 .. Len(d) : \/ i \in 1 .. Len(a) /\ d[i] = a[i]
                               \/ i - Len(a) \in 1 .. Len(b) /\ d[i] = b[i - Len(a)]
    BY <1>1, <1>2
  <1>4. Distinct(d)
    <2> SUFFICES ASSUME NEW i \in 1 .. Len(d), NEW j \in 1 .. Len(d), d[i] = d[j] PROVE i = j
      BY DEF Distinct
    <2>1. CASE i \in 1 .. Len(a) /\ j \in 1 .. Len(a) /\ d[i] = a[i] /\ d[j] = a[j]
      BY <2>1 DEF Draws, Distinct
    <2>2. CASE /\ i - Len(a) \in 1 .. Len(b) /\ d[i] = b[i - Len(a)]
               /\ j - Len(a) \in 1 .. Len(b) /\ d[j] = b[j - Len(a)]
      <3>1. i - Len(a) = j - Len(a)
        BY <2>2 DEF Draws, Distinct
      <3> QED BY <3>1, <1>1
    <2>3. CASE i \in 1 .. Len(a) /\ d[i] = a[i] /\ j - Len(a) \in 1 .. Len(b) /\ d[j] = b[j - Len(a)]
      BY <2>3 DEF Walk!Ran
    <2>4. CASE j \in 1 .. Len(a) /\ d[j] = a[j] /\ i - Len(a) \in 1 .. Len(b) /\ d[i] = b[i - Len(a)]
      BY <2>4 DEF Walk!Ran
    <2> QED BY <1>3, <2>1, <2>2, <2>3, <2>4
  <1>5. Walk!Ran(d) \subseteq Walk!Ran(a) \cup Walk!Ran(b)
    BY <1>3 DEF Walk!Ran
  <1>6. Walk!Ran(a) \subseteq Walk!Ran(d)
    <2> SUFFICES ASSUME NEW i \in 1 .. Len(a) PROVE \E j \in 1 .. Len(d) : a[i] = d[j]
      BY DEF Walk!Ran
    <2>1. i \in 1 .. Len(d) /\ d[i] = a[i]
      BY <1>1, <1>2
    <2> QED BY <2>1
  <1>7. Walk!Ran(b) \subseteq Walk!Ran(d)
    <2> SUFFICES ASSUME NEW i \in 1 .. Len(b) PROVE \E j \in 1 .. Len(d) : b[i] = d[j]
      BY DEF Walk!Ran
    <2>1. i + Len(a) \in 1 .. Len(d) /\ ~(i + Len(a) <= Len(a)) /\ (i + Len(a)) - Len(a) = i
      BY <1>1, <1>2
    <2>2. d[i + Len(a)] = b[i]
      BY <2>1, <1>2
    <2> QED BY <2>1, <2>2
  <1>8. Walk!Ran(d) \subseteq Walk!Ran(c)
    BY <1>5 DEF Draws
  <1> QED BY <1>2, <1>4, <1>5, <1>6, <1>7, <1>8 DEF Draws, d

(* A stretch of the chain is a part of it.                                 *)
LEMMA SubDraws ==
  ASSUME NEW c \in Seq(Provider), Distinct(c), NEW m \in 1 .. Len(c) + 1, NEW n \in 0 .. Len(c)
  PROVE  /\ Draws(SubSeq(c, m, n), c)
         /\ \A p \in Walk!Ran(SubSeq(c, m, n)) : \E i \in m .. n : p = c[i]
  <1> DEFINE d == SubSeq(c, m, n)
  <1>1. Len(c) \in Nat /\ \A i \in 1 .. Len(c) : c[i] \in Provider
    OBVIOUS
  <1>2. /\ Len(d) = IF m <= n THEN n - m + 1 ELSE 0
        /\ \A i \in 1 .. Len(d) : d[i] = c[m + i - 1]
    BY <1>1
  <1>3. \A i \in m .. n : c[i] \in Provider
    BY <1>1
  <1>4. d \in Seq(Provider)
    BY <1>3, SubSeqProperties
  <1> HIDE DEF d
  <1>5. \A i \in 1 .. Len(d) : m + i - 1 \in m .. n /\ m + i - 1 \in 1 .. Len(c)
    BY <1>1, <1>2
  <1>6. \A p \in Walk!Ran(d) : \E i \in m .. n : p = c[i]
    BY <1>2, <1>5 DEF Walk!Ran
  <1>7. Distinct(d)
    <2> SUFFICES ASSUME NEW i \in 1 .. Len(d), NEW j \in 1 .. Len(d), d[i] = d[j] PROVE i = j
      BY DEF Distinct
    <2>1. c[m + i - 1] = c[m + j - 1] /\ m + i - 1 \in 1 .. Len(c) /\ m + j - 1 \in 1 .. Len(c)
      BY <1>2, <1>5
    <2>2. m + i - 1 = m + j - 1
      BY <2>1 DEF Distinct
    <2> QED BY <2>2
  <1>8. Walk!Ran(d) \subseteq Walk!Ran(c)
    BY <1>2, <1>5 DEF Walk!Ran
  <1> QED BY <1>4, <1>6, <1>7, <1>8 DEF Draws, d

(* A part of a part is a part.                                             *)
LEMMA DrawsTrans ==
  ASSUME NEW a, NEW b, NEW c, Draws(a, b), Draws(b, c)
  PROVE  Draws(a, c)
  BY DEF Draws

(* The order for JSON requests only reorders and leaves out.               *)
LEMMA JsonDraws ==
  ASSUME NEW c, NEW b, Draws(c, b)
  PROVE  Draws(Walk!deprioritize_for_json(c), b)
  <1> DEFINE e == Walk!Only(c, Provider \ Incapable)
             x == Walk!Only(e, Provider \ Unreliable)
             y == Walk!Only(e, Unreliable)
  <1>1. c \in Seq(Provider) /\ Distinct(c)
    BY DEF Draws
  <1>2. Draws(e, c)
    BY <1>1, OnlyDraws
  <1>3. e \in Seq(Provider) /\ Distinct(e)
    BY <1>2 DEF Draws
  <1> HIDE DEF e
  <1>4. Draws(x, e) /\ Walk!Ran(x) \subseteq Provider \ Unreliable
    BY <1>3, OnlyDraws
  <1>5. Draws(y, e) /\ Walk!Ran(y) \subseteq Unreliable
    BY <1>3, OnlyDraws
  <1> HIDE DEF x, y
  <1>6. Draws(x \o y, e)
    BY <1>4, <1>5, ConcatDraws
  <1>7. Draws(x \o y, b)
    BY <1>6, <1>2, DrawsTrans
  <1>8. Walk!deprioritize_for_json(c) = x \o y
    BY Zenon DEF Walk!deprioritize_for_json, x, y, e
  <1> QED BY <1>7, <1>8

(* Moving the saver behind the free providers keeps every provider once.   *)
LEMMA SavingsDraws ==
  ASSUME NEW c, NEW b, Draws(c, b), NEW defer \in BOOLEAN
  PROVE  Draws(Walk!deprioritize_deepseek_for_savings(c, defer), b)
  <1> DEFINE d == Walk!deprioritize_deepseek_for_savings(c, defer)
             i == CHOOSE j \in 1 .. Len(c) : c[j] = Saver
             after == SubSeq(c, i + 1, Len(c))
             free == Walk!Only(after, Provider \ Paid)
             rest == Walk!Only(after, Paid)
             before == SubSeq(c, 1, i - 1)
  <1>1. c \in Seq(Provider) /\ Distinct(c) /\ Len(c) \in Nat
    BY DEF Draws
  <1>2. CASE ~defer \/ Saver \notin Walk!Ran(c)
    <2>1. d = c
      BY <1>2 DEF Walk!deprioritize_deepseek_for_savings
    <2> QED BY <2>1
  <1>3. CASE ~(~defer \/ Saver \notin Walk!Ran(c))
    <2>1. i \in 1 .. Len(c) /\ c[i] = Saver
      BY <1>3 DEF Walk!Ran
    <2>2. d = IF free = <<>> THEN c ELSE before \o free \o <<Saver>> \o rest
      BY <1>3, Zenon DEF Walk!deprioritize_deepseek_for_savings
    <2> HIDE DEF d, i
    <2>3. i + 1 \in 1 .. Len(c) + 1 /\ Len(c) \in 0 .. Len(c) /\ i - 1 \in 0 .. Len(c)
          /\ 1 \in 1 .. Len(c) + 1
      BY <1>1, <2>1
    <2>4. Draws(after, c) /\ \A p \in Walk!Ran(after) : \E j \in i + 1 .. Len(c) : p = c[j]
      BY <1>1, <2>3, SubDraws
    <2>5. Draws(before, c) /\ \A p \in Walk!Ran(before) : \E j \in 1 .. i - 1 : p = c[j]
      BY <1>1, <2>3, SubDraws
    <2>6. Saver \notin Walk!Ran(after) /\ Saver \notin Walk!Ran(before)
      <3>1. \A j \in 1 .. Len(c) : j # i => c[j] # Saver
        BY <1>1, <2>1 DEF Distinct
      <3>2. \A j \in i + 1 .. Len(c) : j \in 1 .. Len(c) /\ j # i
        BY <2>1, <1>1
      <3>3. \A j \in 1 .. i - 1 : j \in 1 .. Len(c) /\ j # i
        BY <2>1, <1>1
      <3> QED BY <2>4, <2>5, <3>1, <3>2, <3>3
    <2>7. Walk!Ran(before) \cap Walk!Ran(after) = {}
      <3> SUFFICES ASSUME NEW p \in Walk!Ran(before), p \in Walk!Ran(after) PROVE FALSE
        OBVIOUS
      <3>1. PICK j \in 1 .. i - 1 : p = c[j]
        BY <2>5
      <3>2. PICK k \in i + 1 .. Len(c) : p = c[k]
        BY <2>4
      <3>3. j \in 1 .. Len(c) /\ k \in 1 .. Len(c) /\ j # k
        BY <2>1, <1>1
      <3> QED BY <3>1, <3>2, <3>3, <1>1 DEF Distinct
    <2>8. after \in Seq(Provider) /\ Distinct(after)
      BY <2>4 DEF Draws
    <2> HIDE DEF after, before
    <2>9. Draws(free, after) /\ Walk!Ran(free) \subseteq Provider \ Paid
      BY <2>8, OnlyDraws
    <2>10. Draws(rest, after) /\ Walk!Ran(rest) \subseteq Paid
      BY <2>8, OnlyDraws
    <2> HIDE DEF free, rest
    <2>11. Draws(free, c) /\ Draws(rest, c)
      BY <2>4, <2>9, <2>10, DrawsTrans
    <2>12. Walk!Ran(free) \subseteq Walk!Ran(after) /\ Walk!Ran(rest) \subseteq Walk!Ran(after)
      BY <2>9, <2>10 DEF Draws
    <2>13. Draws(<<Saver>>, c) /\ Walk!Ran(<<Saver>>) = {Saver}
      <3>1. Saver \in Provider /\ Saver \in Walk!Ran(c)
        BY <1>1, <2>1 DEF Walk!Ran
      <3>2. <<Saver>> \in Seq(Provider) /\ Len(<<Saver>>) = 1 /\ <<Saver>>[1] = Saver /\ 1 .. 1 = {1}
        BY <3>1
      <3>3. Walk!Ran(<<Saver>>) = {Saver}
        BY <3>2 DEF Walk!Ran
      <3>4. Distinct(<<Saver>>)
        BY <3>2 DEF Distinct
      <3> QED BY <3>1, <3>2, <3>3, <3>4 DEF Draws
    <2>14. Draws(before \o free, c)
           /\ \A p : p \in Walk!Ran(before \o free) <=> p \in Walk!Ran(before) \/ p \in Walk!Ran(free)
      <3>1. Walk!Ran(before) \cap Walk!Ran(free) = {}
        BY <2>7, <2>12
      <3>2. Draws(before, c) /\ Draws(free, c)
        BY <2>5, <2>11
      <3> QED BY <3>1, <3>2, ConcatDraws
    <2>15. Draws((before \o free) \o <<Saver>>, c)
           /\ \A p : p \in Walk!Ran((before \o free) \o <<Saver>>) =>
                      p \in Walk!Ran(before) \/ p \in Walk!Ran(free) \/ p = Saver
      BY <2>6, <2>12, <2>13, <2>14, ConcatDraws
    <2>16. Draws(((before \o free) \o <<Saver>>) \o rest, c)
      BY <2>6, <2>7, <2>9, <2>10, <2>11, <2>12, <2>15, ConcatDraws
    <2>17. Draws(d, c)
      <3>1. Draws(c, c)
        BY <1>1 DEF Draws
      <3> QED BY <2>2, <2>16, <3>1
    <2> QED BY <2>17, DrawsTrans DEF d
  <1> QED BY <1>2, <1>3

(* The chain is a part of itself, and not empty.                           *)
LEMMA ChainDraws ==
  Chain \in Seq(Provider) /\ Distinct(Chain) /\ Draws(Chain, Chain) /\ Len(Chain) \in Nat \ {0}
  BY WalkAssumption DEF Distinct, Draws

(* The shaped and filtered chain is a part of the chain; a free walk's has *)
(* no paid provider.                                                       *)
LEMMA ShapeDraws ==
  ASSUME NEW kind \in Walk!Kind, NEW over, NEW defer \in BOOLEAN
  PROVE  LET c == Walk!_size_filtered(Walk!ForTools(kind, Walk!_shape_chain(kind, defer)), over)
         IN  /\ Draws(c, Chain)
             /\ kind.free /\ ~kind.paid => Walk!Ran(c) \cap Paid = {}
  <1> DEFINE f == Walk!free_first_walk(kind, Chain)
             j == Walk!ForJson(kind, f)
             s == Walk!deprioritize_deepseek_for_savings(j, defer)
             t == Walk!ForTools(kind, s)
             z == Walk!Only(t, Provider \ over)
             c == Walk!_size_filtered(t, over)
  <1>1. Draws(f, Chain) /\ (kind.free /\ ~kind.paid => Walk!Ran(f) \cap Paid = {})
    <2>1. CASE kind.paid \/ ~kind.free
      BY <2>1, ChainDraws DEF Walk!free_first_walk
    <2>2. CASE ~(kind.paid \/ ~kind.free)
      <3>1. f = Walk!Only(Chain, Provider \ Paid)
        BY <2>2 DEF Walk!free_first_walk
      <3>2. Draws(Walk!Only(Chain, Provider \ Paid), Chain)
            /\ Walk!Ran(Walk!Only(Chain, Provider \ Paid)) \subseteq Provider \ Paid
        BY ChainDraws, OnlyDraws
      <3> QED BY <3>1, <3>2
    <2> QED BY <2>1, <2>2
  <1> HIDE DEF f
  <1>2. f \in Seq(Provider) /\ Distinct(f) /\ Draws(f, f)
    BY <1>1 DEF Draws
  <1>3. Draws(j, f)
    <2>1. CASE kind.json
      BY <2>1, <1>2, JsonDraws DEF Walk!ForJson
    <2>2. CASE ~kind.json
      BY <2>2, <1>2 DEF Walk!ForJson
    <2> QED BY <2>1, <2>2
  <1> HIDE DEF j
  <1>4. Draws(s, f)
    BY <1>3, SavingsDraws
  <1> HIDE DEF s
  <1>5. s \in Seq(Provider) /\ Distinct(s) /\ Draws(s, s)
    BY <1>4 DEF Draws
  <1>6. Draws(t, s)
    <2>1. Draws(Walk!Only(s, ToolCapable), s)
      BY <1>5, OnlyDraws
    <2> QED BY <2>1, <1>5 DEF Walk!ForTools
  <1> HIDE DEF t
  <1>7. t \in Seq(Provider) /\ Distinct(t) /\ Draws(t, t)
    BY <1>6 DEF Draws
  <1>8. Draws(c, t)
    <2>1. Draws(z, t)
      BY <1>7, OnlyDraws
    <2>2. c = IF z = <<>> THEN t ELSE z
      BY Zenon DEF Walk!_size_filtered
    <2> QED BY <2>1, <2>2, <1>7
  <1> HIDE DEF c
  <1>9. Draws(c, f)
    BY <1>4, <1>6, <1>8, DrawsTrans
  <1>10. Draws(c, Chain) /\ Walk!Ran(c) \subseteq Walk!Ran(f)
    <2>1. Draws(c, Chain)
      BY <1>1, <1>9, DrawsTrans
    <2> QED BY <2>1, <1>9 DEF Draws
  <1>11. c = Walk!_size_filtered(Walk!ForTools(kind, Walk!_shape_chain(kind, defer)), over)
    BY Zenon DEF Walk!_shape_chain, c, t, s, j, f
  <1> QED BY <1>1, <1>10, <1>11

(* The candidates of a pinned walk serve the pinned model.                 *)
LEMMA PinDraws ==
  ASSUME NEW kind \in Walk!Kind, NEW over
  PROVE  LET c == Walk!PinTargets(kind, over)
         IN  c \in Seq(Provider) /\ Distinct(c) /\ \A i \in 1 .. Len(c) : PinOf[c[i]] # None
  <1> DEFINE Can == {p \in Provider : PinOf[p] # None}
             able == Walk!Ran(Walk!ForJson(kind, Chain))
             r == Walk!resolve_pin(Chain)
             t == Walk!ForTools(kind, r)
             e == Walk!Only(t, able)
             z == Walk!Only(e, Provider \ over)
             c == Walk!_size_filtered(e, over)
  <1>1. Draws(r, Chain) /\ Walk!Ran(r) \subseteq Can
    <2>1. r = Walk!Only(Chain, Can)
      BY DEF Walk!resolve_pin
    <2> HIDE DEF Can
    <2>2. Draws(Walk!Only(Chain, Can), Chain) /\ Walk!Ran(Walk!Only(Chain, Can)) \subseteq Can
      BY ChainDraws, OnlyDraws
    <2> QED BY <2>1, <2>2
  <1> HIDE DEF r
  <1>2. r \in Seq(Provider) /\ Distinct(r) /\ Draws(r, r)
    BY <1>1 DEF Draws
  <1>3. Draws(t, r)
    <2>1. Draws(Walk!Only(r, ToolCapable), r)
      BY <1>2, OnlyDraws
    <2> QED BY <2>1, <1>2 DEF Walk!ForTools
  <1> HIDE DEF t, able
  <1>4. t \in Seq(Provider) /\ Distinct(t)
    BY <1>3 DEF Draws
  <1>5. Draws(e, t)
    BY <1>4, OnlyDraws
  <1> HIDE DEF e
  <1>6. e \in Seq(Provider) /\ Distinct(e) /\ Draws(e, e)
    BY <1>5 DEF Draws
  <1>7. Draws(c, e)
    <2>1. Draws(z, e)
      BY <1>6, OnlyDraws
    <2>2. c = IF z = <<>> THEN e ELSE z
      BY Zenon DEF Walk!_size_filtered
    <2> QED BY <2>1, <2>2, <1>6
  <1> HIDE DEF c
  <1>8. Draws(c, r)
    BY <1>3, <1>5, <1>7, DrawsTrans
  <1>9. \A i \in 1 .. Len(c) : c[i] \in Can
    BY <1>1, <1>8 DEF Draws, Walk!Ran
  <1>10. c = Walk!PinTargets(kind, over)
    BY Zenon DEF Walk!PinTargets, c, e, t, able, r
  <1> QED BY <1>8, <1>9, <1>10 DEF Draws

(* A step names models and a key of its own provider.                      *)
StepOK(x) ==
  /\ x \in Walk!Step
  /\ x.model # None => x.model \in Walk!ModelsOf(x.prov)
  /\ x.key # None => ProvOf[x.key] = x.prov

(* What the guarantees rest on: a pinned walk's steps name the pinned      *)
(* model, a plain one's prescribe no tier; the affine leg before a free    *)
(* head is frugal; a free walk has no paid provider; only the affine leg's *)
(* provider comes twice.                                                   *)
ChatOK(kind, steps) ==
  /\ kind.pin => \A i \in 1 .. Len(steps) :
                   steps[i].model # None /\ steps[i].model = PinOf[steps[i].prov]
  /\ ~kind.pin /\ ~kind.paid => \A i \in 1 .. Len(steps) : steps[i].tier = "any"
  /\ ~kind.paid /\ steps # <<>> /\ steps[1].key # None /\ steps[2].prov \notin Paid => steps[1].frugal
  /\ ~kind.pin /\ ~kind.paid /\ kind.free =>
       \A i \in 1 .. Len(steps) : steps[i].prov \notin Paid
  /\ ~kind.pin => \A i, j \in 1 .. Len(steps) :
                    i < j /\ steps[i].prov = steps[j].prov => i = 1 /\ steps[1].key # None

(* The steps of a walk; a chat's fit into its attempt budget.              *)
WalkSteps(kind, steps) ==
  /\ steps \in Seq(Walk!Step)
  /\ \A i \in 1 .. Len(steps) : StepOK(steps[i])
  /\ kind.run = "chat" => /\ ChatOK(kind, steps)
                          /\ Walk!KeySum(steps)[Len(steps)] <= MaxAttempts

(* The steps before the affine leg is put in front.                        *)
PlainOK(kind, steps) ==
  /\ steps \in Seq(Walk!Step)
  /\ \A i \in 1 .. Len(steps) : StepOK(steps[i]) /\ steps[i].key = None
  /\ ChatOK(kind, steps)

(* A plain step is sound.                                                  *)
LEMMA LegOK ==
  ASSUME NEW p \in Provider, NEW m, m = None \/ m \in Walk!ModelsOf(p), NEW tier \in Walk!Tier
  PROVE  LET x == Walk!Leg(p, m, tier)
         IN  /\ StepOK(x) /\ x.key = None /\ x.prov = p /\ x.model = m /\ x.tier = tier
             /\ ~x.frugal
  <1>1. m \in Walk!Model \cup {None}
    BY DEF Walk!Model
  <1> QED BY <1>1 DEF Walk!Leg, StepOK, Walk!Step

(* The model a pin resolves to is one of the provider's.                   *)
LEMMA PinIsModel ==
  ASSUME NEW p \in Provider
  PROVE  PinOf[p] = None \/ PinOf[p] \in Walk!ModelsOf(p)
  BY DEF Walk!ModelsOf

(* One plain step for every provider of a part of the chain.               *)
LEMMA UnpinnedOK ==
  ASSUME NEW kind \in Walk!Kind, ~kind.pin, NEW c, Draws(c, Chain),
         kind.free /\ ~kind.paid => Walk!Ran(c) \cap Paid = {}
  PROVE  PlainOK(kind, [i \in 1 .. Len(c) |-> Walk!Leg(c[i], None, "any")])
  <1> DEFINE steps == [i \in 1 .. Len(c) |-> Walk!Leg(c[i], None, "any")]
  <1>1. c \in Seq(Provider) /\ Distinct(c) /\ Len(c) \in Nat
    BY DEF Draws
  <1>2. \A i \in 1 .. Len(c) : /\ StepOK(steps[i]) /\ steps[i].key = None /\ steps[i].prov = c[i]
                               /\ steps[i].tier = "any"
    <2> SUFFICES ASSUME NEW i \in 1 .. Len(c)
                 PROVE  /\ StepOK(steps[i]) /\ steps[i].key = None /\ steps[i].prov = c[i]
                        /\ steps[i].tier = "any"
      OBVIOUS
    <2>1. c[i] \in Provider /\ "any" \in Walk!Tier /\ steps[i] = Walk!Leg(c[i], None, "any")
      BY <1>1 DEF Walk!Tier
    <2> QED BY <2>1, LegOK
  <1>3. steps \in Seq(Walk!Step) /\ Len(steps) = Len(c)
    <2>1. \A i \in 1 .. Len(c) : steps[i] \in Walk!Step
      BY <1>2 DEF StepOK
    <2> QED BY <1>1, <2>1
  <1> HIDE DEF steps
  <1>4. kind.free /\ ~kind.paid => \A i \in 1 .. Len(c) : c[i] \notin Paid
    BY DEF Walk!Ran
  <1>5. steps # <<>> => steps[1].key = None
    <2>1. steps # <<>> => 1 \in 1 .. Len(c)
      BY <1>1, <1>3
    <2> QED BY <2>1, <1>2
  <1>6. \A i, j \in 1 .. Len(c) : i < j => steps[i].prov # steps[j].prov
    BY <1>1, <1>2 DEF Distinct
  <1>7. ChatOK(kind, steps)
    BY <1>2, <1>3, <1>4, <1>5, <1>6 DEF ChatOK
  <1> QED BY <1>2, <1>3, <1>7 DEF PlainOK, steps

(* The free pass and the paid pass of a pinned walk name the pinned model. *)
LEMMA PinnedOK ==
  ASSUME NEW kind \in Walk!Kind, kind.pin, NEW c \in Seq(Provider), Distinct(c),
         \A i \in 1 .. Len(c) : PinOf[c[i]] # None, NEW paid \in BOOLEAN
  PROVE  PlainOK(kind, Walk!_pinned_steps(c, paid))
  <1> DEFINE g == IF paid THEN <<>> ELSE Walk!Only(c, Provider \ Paid)
             a == [i \in 1 .. Len(g) |-> Walk!Leg(g[i], PinOf[g[i]], "free")]
             b == [i \in 1 .. Len(c) |-> Walk!Leg(c[i], PinOf[c[i]], "paid")]
             steps == Walk!_pinned_steps(c, paid)
             Fine(x) == /\ StepOK(x) /\ x.key = None /\ x.model # None /\ x.model = PinOf[x.prov]
  <1>1. g \in Seq(Provider) /\ Len(g) \in Nat /\ \A i \in 1 .. Len(g) : PinOf[g[i]] # None
    <2>1. Draws(Walk!Only(c, Provider \ Paid), c)
      BY OnlyDraws
    <2>2. \A p \in Walk!Ran(c) : PinOf[p] # None
      BY DEF Walk!Ran
    <2>3. CASE paid
      BY <2>3
    <2>4. CASE ~paid
      <3>1. g = Walk!Only(c, Provider \ Paid)
        BY <2>4
      <3> HIDE DEF g
      <3>2. g \in Seq(Provider) /\ Walk!Ran(g) \subseteq Walk!Ran(c)
        BY <3>1, <2>1 DEF Draws
      <3>3. \A i \in 1 .. Len(g) : g[i] \in Walk!Ran(g)
        BY DEF Walk!Ran
      <3> QED BY <3>2, <3>3, <2>2
    <2> QED BY <2>3, <2>4
  <1>2. steps = a \o b
    BY Zenon DEF Walk!_pinned_steps
  <1> HIDE DEF g, steps
  <1>3. \A p \in Provider, tier \in {"free", "paid"} :
          PinOf[p] # None => Fine(Walk!Leg(p, PinOf[p], tier))
    <2> SUFFICES ASSUME NEW p \in Provider, NEW tier \in {"free", "paid"}, PinOf[p] # None
                 PROVE  Fine(Walk!Leg(p, PinOf[p], tier))
      OBVIOUS
    <2>1. PinOf[p] \in Walk!ModelsOf(p) /\ tier \in Walk!Tier
      BY PinIsModel DEF Walk!Tier
    <2> QED BY <2>1, LegOK
  <1> HIDE DEF Fine
  <1>4. \A i \in 1 .. Len(g) : Fine(a[i])
    BY <1>1, <1>3
  <1>5. \A i \in 1 .. Len(c) : Fine(b[i])
    BY <1>3
  <1>6. \A x : Fine(x) => x \in Walk!Step
    BY DEF Fine, StepOK
  <1>7. a \in Seq(Walk!Step) /\ Len(a) = Len(g) /\ b \in Seq(Walk!Step) /\ Len(b) = Len(c)
    <2>1. \A i \in 1 .. Len(g) : a[i] \in Walk!Step
      BY <1>4, <1>6
    <2>2. \A i \in 1 .. Len(c) : b[i] \in Walk!Step
      BY <1>5, <1>6
    <2> QED BY <1>1, <2>1, <2>2
  <1> HIDE DEF a, b
  <1>8. steps \in Seq(Walk!Step) /\ \A i \in 1 .. Len(steps) : Fine(steps[i])
    <2>1. /\ steps \in Seq(Walk!Step) /\ Len(steps) = Len(a) + Len(b)
          /\ \A i \in 1 .. Len(steps) : steps[i] = IF i <= Len(a) THEN a[i] ELSE b[i - Len(a)]
      BY <1>2, <1>7
    <2>2. Len(a) \in Nat /\ Len(b) \in Nat
      BY <1>7
    <2>3. \A i \in 1 .. Len(steps) : IF i <= Len(a) THEN i \in 1 .. Len(a) ELSE i - Len(a) \in 1 .. Len(b)
      BY <2>1, <2>2
    <2> QED BY <2>1, <2>3, <1>4, <1>5, <1>7
  <1>9. ChatOK(kind, steps)
    <2>1. steps # <<>> => steps[1].key = None
      <3>1. steps # <<>> => 1 \in 1 .. Len(steps)
        BY <1>8
      <3> QED BY <3>1, <1>8 DEF Fine
    <2> QED BY <1>8, <2>1 DEF ChatOK, Fine
  <1> QED BY <1>8, <1>9 DEF PlainOK, Fine, steps

(* The affine leg is put before steps that know its provider.              *)
LEMMA AffinityOK ==
  ASSUME NEW kind \in Walk!Kind, NEW steps, PlainOK(kind, steps),
         NEW target \in Walk!lookup_route(kind)
  PROVE  LET e == Walk!_with_affinity(kind, steps, target)
         IN  /\ e \in Seq(Walk!Step) /\ \A i \in 1 .. Len(e) : StepOK(e[i])
             /\ ChatOK(kind, e)
  <1> DEFINE p == ProvOf[target.key]
             leg == [prov |-> p, model |-> target.model,
                     tier |-> IF kind.paid THEN "paid" ELSE "any", key |-> target.key,
                     frugal |-> Walk!Frugal(kind, steps[1].prov)]
             e == Walk!_with_affinity(kind, steps, target)
             Off == \A i \in 1 .. Len(steps) :
                      steps[i].prov # p \/ steps[i].model \notin {None, target.model}
  <1>1. CASE steps = <<>> \/ target = None
    <2>1. e = steps
      BY <1>1 DEF Walk!_with_affinity
    <2> QED BY <2>1 DEF PlainOK
  <1>2. CASE ~(steps = <<>> \/ target = None) /\ (~Walk!may_promote(kind, target, steps[1].prov) \/ Off)
    <2>1. e = steps
      BY <1>2 DEF Walk!_with_affinity
    <2> QED BY <2>1 DEF PlainOK
  <1>3. CASE ~(steps = <<>> \/ target = None) /\ ~(~Walk!may_promote(kind, target, steps[1].prov) \/ Off)
    <2>1. e = <<leg>> \o steps
      BY <1>3, Zenon DEF Walk!_with_affinity
    <2>2. target \in Walk!Target /\ Walk!Served(kind.pin, target)
      BY <1>3 DEF Walk!lookup_route
    <2>3. /\ target.key \in Key /\ target.model \in Walk!Model /\ p \in Provider
          /\ target.model \in Walk!ModelsOf(p)
      BY <2>2, WalkAssumption DEF Walk!Target
    <2>4. kind.paid \in BOOLEAN /\ kind.pin \in BOOLEAN
      BY DEF Walk!Kind
    <2>5. Walk!Frugal(kind, steps[1].prov) = (~kind.paid /\ steps[1].prov \notin Paid)
      BY DEF Walk!Frugal
    <2>6. /\ leg \in Walk!Step /\ leg.prov = p /\ leg.model = target.model /\ leg.key = target.key
          /\ (~kind.paid => leg.tier = "any")
          /\ (~kind.paid /\ steps[1].prov \notin Paid => leg.frugal)
      BY <2>3, <2>4, <2>5 DEF Walk!Step, Walk!Tier
    <2>7. PICK i0 \in 1 .. Len(steps) : steps[i0].prov = p
      BY <1>3
    <2> HIDE DEF e, leg
    <2>8. StepOK(leg)
      BY <2>3, <2>6 DEF StepOK
    <2>9. steps \in Seq(Walk!Step) /\ Len(steps) \in Nat /\ Len(steps) # 0
      BY <1>3 DEF PlainOK
    <2>10. /\ e \in Seq(Walk!Step) /\ Len(e) = Len(steps) + 1 /\ e[1] = leg /\ e[2] = steps[1]
           /\ \A i \in 1 .. Len(e) : i # 1 => i - 1 \in 1 .. Len(steps) /\ e[i] = steps[i - 1]
      <3>1. <<leg>> \in Seq(Walk!Step) /\ Len(<<leg>>) = 1 /\ <<leg>>[1] = leg
        BY <2>6
      <3>2. /\ e \in Seq(Walk!Step) /\ Len(e) = 1 + Len(steps)
            /\ \A i \in 1 .. Len(e) : e[i] = IF i <= 1 THEN <<leg>>[i] ELSE steps[i - 1]
        BY <2>1, <2>9, <3>1
      <3>3. 1 \in 1 .. Len(e) /\ 2 \in 1 .. Len(e) /\ 2 - 1 = 1
        BY <2>9, <3>2
      <3>4. e[1] = leg /\ e[2] = steps[1]
        BY <3>1, <3>2, <3>3
      <3>5. \A i \in 1 .. Len(e) : i # 1 => i - 1 \in 1 .. Len(steps) /\ ~(i <= 1)
        BY <2>9, <3>2
      <3>6. Len(e) = Len(steps) + 1
        BY <2>9, <3>2
      <3> QED BY <3>2, <3>4, <3>5, <3>6
    <2>11. \A i \in 1 .. Len(e) : StepOK(e[i])
      BY <2>8, <2>10 DEF PlainOK
    <2>12. ChatOK(kind, e)
      <3>1. ChatOK(kind, steps) /\ target.key # None
        BY <2>3, WalkAssumption DEF PlainOK
      <3>2. kind.pin => \A i \in 1 .. Len(e) : e[i].model # None /\ e[i].model = PinOf[e[i].prov]
        <4> SUFFICES ASSUME kind.pin, NEW i \in 1 .. Len(e)
                     PROVE  e[i].model # None /\ e[i].model = PinOf[e[i].prov]
          OBVIOUS
        <4>1. \A j \in 1 .. Len(steps) : steps[j].model # None /\ steps[j].model = PinOf[steps[j].prov]
          BY <3>1 DEF ChatOK
        <4>2. PinOf[p] # None
          BY <2>7, <4>1
        <4>3. target.model = PinOf[p]
          BY <2>2 DEF Walk!Served
        <4> QED BY <4>1, <4>2, <4>3, <2>6, <2>10
      <3>3. ~kind.pin /\ ~kind.paid => \A i \in 1 .. Len(e) : e[i].tier = "any"
        BY <3>1, <2>6, <2>10 DEF ChatOK
      <3>4. ~kind.paid /\ e # <<>> /\ e[1].key # None /\ e[2].prov \notin Paid => e[1].frugal
        BY <2>6, <2>10
      <3>5. ~kind.pin /\ ~kind.paid /\ kind.free => \A i \in 1 .. Len(e) : e[i].prov \notin Paid
        BY <3>1, <2>6, <2>7, <2>10 DEF ChatOK
      <3>6. ~kind.pin => \A i, j \in 1 .. Len(e) :
                            i < j /\ e[i].prov = e[j].prov => i = 1 /\ e[1].key # None
        <4> SUFFICES ASSUME ~kind.pin, NEW i \in 1 .. Len(e), NEW j \in 1 .. Len(e), i < j,
                            e[i].prov = e[j].prov
                     PROVE  i = 1 /\ e[1].key # None
          OBVIOUS
        <4>1. CASE i = 1
          BY <4>1, <3>1, <2>6, <2>10
        <4>2. CASE i # 1
          <5>1. i - 1 < j - 1 /\ j # 1
            OBVIOUS
          <5>2. /\ i - 1 \in 1 .. Len(steps) /\ j - 1 \in 1 .. Len(steps)
                /\ steps[i - 1].prov = steps[j - 1].prov
            BY <4>2, <5>1, <2>10
          <5>3. steps[1].key # None
            BY <3>1, <5>1, <5>2 DEF ChatOK
          <5>4. steps[1].key = None
            BY <2>9 DEF PlainOK
          <5> QED BY <5>3, <5>4
        <4> QED BY <4>1, <4>2
      <3> QED BY <3>2, <3>3, <3>4, <3>5, <3>6 DEF ChatOK
    <2> QED BY <2>10, <2>11, <2>12 DEF e
  <1> QED BY <1>1, <1>2, <1>3

(* The steps of every run are sound.                                       *)
LEMMA RunStepsOK ==
  ASSUME NEW kind \in Kinds, NEW over,
         NEW target, kind.run = "chat" => over \in SUBSET Walk!Ran(Chain) /\ target \in Walk!lookup_route(kind),
         NEW steps \in Walk!RunSteps(kind, over, target)
  PROVE  WalkSteps(kind, steps)
  <1>0. kind \in Walk!Kind /\ kind.run \in {"chat", "embed", "decision", "transcribe"}
        /\ kind.pin \in BOOLEAN /\ kind.paid \in BOOLEAN
    <2>1. kind \in Walk!Kind
      BY WalkAssumption
    <2> QED BY <2>1 DEF Walk!Kind
  <1>1. CASE kind.run = "embed"
    <2>1. steps \in Walk!EmbedSteps(kind)
      BY <1>1 DEF Walk!RunSteps
    <2>2. PICK p \in Walk!Ran(Chain) :
            steps = <<Walk!Leg(p, IF kind.pin THEN PinOf[p] ELSE None, "any")>>
      BY <2>1 DEF Walk!EmbedSteps
    <2> DEFINE m == IF kind.pin THEN PinOf[p] ELSE None
               x == Walk!Leg(p, m, "any")
    <2>3. p \in Provider
      BY ChainDraws DEF Walk!Ran
    <2>4. m = None \/ m \in Walk!ModelsOf(p)
      BY <2>3, PinIsModel
    <2> HIDE DEF m
    <2>5. StepOK(x)
      BY <2>3, <2>4, LegOK DEF Walk!Tier
    <2>6. steps = <<x>>
      BY <2>2 DEF m
    <2> HIDE DEF x
    <2>7. x \in Walk!Step
      BY <2>5 DEF StepOK
    <2>8. steps \in Seq(Walk!Step) /\ Len(steps) = 1 /\ steps[1] = x
      BY <2>6, <2>7
    <2> QED BY <2>5, <2>8, <1>1 DEF WalkSteps
  <1>2. CASE kind.run = "decision"
    <2>1. steps = Walk!DecisionSteps
      BY <1>2 DEF Walk!RunSteps
    <2> DEFINE x == Walk!Leg(Chain[1], None, "paid")
    <2>2. Chain[1] \in Provider
      BY ChainDraws
    <2>3. StepOK(x)
      BY <2>2, LegOK DEF Walk!Tier
    <2>4. steps = <<x>>
      BY <2>1 DEF Walk!DecisionSteps
    <2> HIDE DEF x
    <2>5. x \in Walk!Step
      BY <2>3 DEF StepOK
    <2>6. steps \in Seq(Walk!Step) /\ Len(steps) = 1 /\ steps[1] = x
      BY <2>4, <2>5
    <2> QED BY <2>3, <2>6, <1>2 DEF WalkSteps
  <1>3. CASE kind.run = "transcribe"
    <2>1. steps = [i \in 1 .. Len(Chain) |-> Walk!Leg(Chain[i], None, "any")]
      BY <1>3 DEF Walk!RunSteps, Walk!TranscribeSteps
    <2>2. \A i \in 1 .. Len(Chain) : StepOK(steps[i])
      <3> SUFFICES ASSUME NEW i \in 1 .. Len(Chain) PROVE StepOK(steps[i])
        OBVIOUS
      <3>1. Chain[i] \in Provider /\ "any" \in Walk!Tier
        BY ChainDraws DEF Walk!Tier
      <3>2. StepOK(Walk!Leg(Chain[i], None, "any"))
        BY <3>1, LegOK
      <3> QED BY <2>1, <3>2
    <2>3. \A i \in 1 .. Len(Chain) : steps[i] \in Walk!Step
      BY <2>2 DEF StepOK
    <2>4. steps \in Seq(Walk!Step) /\ Len(steps) = Len(Chain)
      BY <2>1, <2>3, ChainDraws
    <2> QED BY <2>2, <2>4, <1>3 DEF WalkSteps
  <1>4. CASE kind.run = "chat"
    <2>1. PICK defer \in BOOLEAN : steps = Walk!ChatSteps(kind, over, defer, target)
      BY <1>4 DEF Walk!RunSteps
    <2> DEFINE c == Walk!_size_filtered(Walk!ForTools(kind, Walk!_shape_chain(kind, defer)), over)
               b == IF kind.pin THEN Walk!_pinned_steps(Walk!PinTargets(kind, over), kind.paid)
                                ELSE [i \in 1 .. Len(c) |-> Walk!Leg(c[i], None, "any")]
    <2>2. steps = Walk!_with_affinity(kind, b, target)
      BY <2>1, Zenon DEF Walk!ChatSteps
    <2>3. PlainOK(kind, b)
      <3>1. CASE kind.pin
        <4> DEFINE d == Walk!PinTargets(kind, over)
        <4>1. d \in Seq(Provider) /\ Distinct(d) /\ \A i \in 1 .. Len(d) : PinOf[d[i]] # None
          BY <1>0, PinDraws
        <4> HIDE DEF d
        <4>2. PlainOK(kind, Walk!_pinned_steps(d, kind.paid))
          BY <1>0, <3>1, <4>1, PinnedOK
        <4> QED BY <3>1, <4>2 DEF d
      <3>2. CASE ~kind.pin
        <4>1. /\ Draws(c, Chain)
              /\ kind.free /\ ~kind.paid => Walk!Ran(c) \cap Paid = {}
          BY <1>0, ShapeDraws
        <4> HIDE DEF c
        <4>2. PlainOK(kind, [i \in 1 .. Len(c) |-> Walk!Leg(c[i], None, "any")])
          BY <1>0, <3>2, <4>1, UnpinnedOK
        <4> QED BY <3>2, <4>2
      <3> QED BY <3>1, <3>2, <1>0
    <2> HIDE DEF b
    <2>4. /\ steps \in Seq(Walk!Step) /\ \A i \in 1 .. Len(steps) : StepOK(steps[i])
          /\ ChatOK(kind, steps)
      BY <1>0, <1>4, <2>2, <2>3, AffinityOK
    <2>5. Walk!KeySum(steps)[Len(steps)] <= MaxAttempts
      BY <1>4, <2>1, WalkAssumption
    <2> QED BY <2>4, <2>5 DEF WalkSteps
  <1> QED BY <1>0, <1>1, <1>2, <1>3, <1>4

(* The key sums of the first steps: no more than the next visit may try    *)
(* is added at a time, and the whole is no less than any part.             *)
LEMMA KeySums ==
  ASSUME NEW steps \in Seq(Walk!Step)
  PROVE  LET sum == Walk!KeySum(steps)
         IN  /\ sum[0] = 0 /\ \A i \in 0 .. Len(steps) : sum[i] \in Nat
             /\ \A i \in 1 .. Len(steps) : sum[i] = sum[i - 1] + MaxKeys[steps[i].prov]
             /\ \A i \in 0 .. Len(steps) : sum[i] <= sum[Len(steps)]
  <1> DEFINE L == Len(steps)
             M(i) == MaxKeys[steps[i].prov]
             Is(k, n) == k = [i \in 0 .. n |-> IF i = 0 THEN 0 ELSE k[i - 1] + M(i)]
             P == {n \in Nat : \E k : Is(k, n)}
  <1>0. L \in Nat /\ \A i \in 1 .. L : M(i) \in Nat
    <2>1. \A i \in 1 .. L : steps[i] \in Walk!Step
      OBVIOUS
    <2>2. \A x \in Walk!Step : x.prov \in Provider
      BY DEF Walk!Step
    <2> QED BY <2>1, <2>2, WalkAssumption
  <1> HIDE DEF M
  <1>1. 0 \in P
    <2> DEFINE k == [i \in 0 .. 0 |-> 0]
    <2>1. Is(k, 0)
      OBVIOUS
    <2> QED BY <2>1
  <1>2. ASSUME NEW n \in Nat, n \in P PROVE n + 1 \in P
    <2>1. PICK k : Is(k, n)
      BY <1>2
    <2> DEFINE e == [i \in 0 .. n + 1 |-> IF i = n + 1 THEN k[n] + M(i) ELSE k[i]]
    <2>2. ASSUME NEW i \in 0 .. n + 1 PROVE e[i] = IF i = 0 THEN 0 ELSE e[i - 1] + M(i)
      <3>1. CASE i = 0
        <4>1. 0 # n + 1 /\ 0 \in 0 .. n
          OBVIOUS
        <4>2. e[0] = k[0] /\ k[0] = 0
          BY <4>1, <2>1
        <4> QED BY <3>1, <4>2
      <3>2. CASE i # 0
        <4>1. i - 1 \in 0 .. n + 1 /\ i - 1 # n + 1 /\ (n + 1) - 1 = n
          BY <3>2
        <4>2. e[i - 1] = k[i - 1]
          BY <4>1
        <4>3. CASE i = n + 1
          BY <3>2, <4>1, <4>2, <4>3
        <4>4. CASE i # n + 1
          <5>1. i \in 0 .. n
            BY <4>4
          <5>2. e[i] = k[i] /\ k[i] = k[i - 1] + M(i)
            BY <5>1, <4>4, <2>1, <3>2
          <5> QED BY <3>2, <4>2, <5>2
        <4> QED BY <4>3, <4>4
      <3> QED BY <3>1, <3>2
    <2>3. e = [i \in 0 .. n + 1 |-> e[i]]
      OBVIOUS
    <2> HIDE DEF e
    <2>4. Is(e, n + 1)
      BY <2>2, <2>3
    <2> QED BY <2>4
  <1>3. \E k : Is(k, L)
    <2> HIDE DEF P
    <2>1. L \in P
      BY <1>0, <1>1, <1>2, Nats
    <2> QED BY <2>1 DEF P
  <1> DEFINE sum == CHOOSE k : Is(k, L)
  <1>4. Is(sum, L)
    BY <1>3
  <1>5. Walk!KeySum(steps) = sum
    BY Zenon DEF Walk!KeySum, M
  <1> HIDE DEF sum
  <1>6. sum[0] = 0 /\ \A i \in 1 .. L : sum[i] = sum[i - 1] + M(i)
    <2>1. 0 \in 0 .. L /\ \A i \in 1 .. L : i \in 0 .. L /\ i # 0
      BY <1>0
    <2> QED BY <1>4, <2>1
  <1>7. \A i \in 0 .. L : sum[i] \in Nat
    <2> DEFINE Q == {n \in Nat : n <= L => sum[n] \in Nat}
    <2>1. 0 \in Q
      BY <1>6
    <2>2. ASSUME NEW n \in Nat, n \in Q, n + 1 <= L PROVE sum[n + 1] \in Nat
      <3>1. n + 1 \in 1 .. L /\ (n + 1) - 1 = n
        BY <1>0, <2>2
      <3>2. sum[n + 1] = sum[n] + M(n + 1) /\ M(n + 1) \in Nat
        BY <1>0, <1>6, <3>1
      <3> QED BY <3>2, <2>2, <1>0
    <2>3. \A n \in Nat : n \in Q => n + 1 \in Q
      BY <2>2
    <2> HIDE DEF Q
    <2>4. Nat \subseteq Q
      BY <2>1, <2>3, Nats
    <2> QED BY <2>4, <1>0 DEF Q
  <1>8. \A i \in 0 .. L : sum[i] <= sum[L]
    <2> DEFINE Q == {n \in Nat : n <= L => sum[L - n] <= sum[L]}
    <2>1. 0 \in Q
      <3>1. L - 0 = L /\ sum[L] \in Nat
        BY <1>0, <1>7
      <3> QED BY <3>1
    <2>2. ASSUME NEW n \in Nat, n \in Q, n + 1 <= L PROVE sum[L - (n + 1)] <= sum[L]
      <3>1. L - n \in 1 .. L /\ L - (n + 1) = (L - n) - 1 /\ L - (n + 1) \in 0 .. L /\ n <= L /\ L \in 0 .. L
            /\ L - n \in 0 .. L
        BY <1>0, <2>2
      <3>2. sum[L - n] = sum[(L - n) - 1] + M(L - n) /\ M(L - n) \in Nat
        BY <1>0, <1>6, <3>1
      <3>3. sum[L - (n + 1)] \in Nat /\ sum[L - n] \in Nat /\ sum[L] \in Nat
        BY <1>7, <3>1
      <3>4. sum[L - n] <= sum[L]
        BY <2>2, <3>1
      <3>5. sum[L - n] = sum[L - (n + 1)] + M(L - n)
        BY <3>1, <3>2
      <3> QED BY <3>2, <3>3, <3>4, <3>5
    <2>3. \A n \in Nat : n \in Q => n + 1 \in Q
      BY <2>2
    <2> HIDE DEF Q
    <2>4. Nat \subseteq Q
      BY <2>1, <2>3, Nats
    <2>5. ASSUME NEW i \in 0 .. L PROVE sum[i] <= sum[L]
      <3>1. L - i \in Nat /\ L - i <= L /\ L - (L - i) = i
        BY <1>0
      <3>2. sum[L - (L - i)] <= sum[L]
        BY <2>4, <3>1 DEF Q
      <3> QED BY <3>1, <3>2
    <2> QED BY <2>5
  <1> QED BY <1>5, <1>6, <1>7, <1>8 DEF M

(* The record of a walk.                                                   *)
WalkRec ==
  [phase : {"idle", "pick", "start", "call", "fallback", "done"}, kind : Kinds,
   steps : Seq(Walk!Step), at : Nat, n : Nat, tier : Walk!Tier, degraded : BOOLEAN, tries : Nat,
   base : Nat, bad : SUBSET (Provider \X Walk!Model), other : BOOLEAN, seen : BOOLEAN,
   key : Key \cup {None}, model : Walk!Model \cup {None}, result : Walk!Result, cut : BOOLEAN,
   capped : BOOLEAN, excused : BOOLEAN, late : 0 .. 2]

(* A walk on one of its steps: a cap that refused it keeps it on free      *)
(* keys, it has tried no more than the visits so far allow, and who gave   *)
(* it a bad answer is behind it.                                           *)
OnStep(w) ==
  /\ w \in WalkRec /\ WalkSteps(w.kind, w.steps) /\ w.at \in 1 .. Len(w.steps)
  /\ w.n < Walk!Allowance(w.steps[w.at])
  /\ w.kind.run = "chat" =>
       /\ w.capped => w.degraded /\ ~w.kind.paid
       /\ w.degraded /\ w.steps[w.at].tier = "any" => w.tier = "free"
       /\ w.steps[w.at].tier = "any" /\ ~w.kind.paid /\ w.tier = "free" => w.degraded
       /\ w.tries <= Walk!KeySum(w.steps)[w.at - 1] + w.n + 1
  /\ w.kind.run # "chat" => w.bad = {}
  /\ \A b \in w.bad : \E i \in 1 .. w.at - 1 : w.steps[i].prov = b[1]

(* A walk about to leave its step.                                         *)
Leaving(w) ==
  /\ w \in WalkRec /\ WalkSteps(w.kind, w.steps) /\ w.at \in 1 .. Len(w.steps)
  /\ w.kind.run = "chat" =>
       /\ w.capped => w.degraded /\ ~w.kind.paid
       /\ w.tries <= Walk!KeySum(w.steps)[w.at]
  /\ w.kind.run # "chat" => w.bad = {}
  /\ \A b \in w.bad : \E i \in 1 .. w.at : w.steps[i].prov = b[1]

(* A walk before its next attempt.                                         *)
AtPick(w) ==
  /\ OnStep(w) /\ w.phase = "pick"
  /\ w.kind.run = "chat" => w.tries <= Walk!KeySum(w.steps)[w.at - 1] + w.n

(* A walk that is over: a chat without an answer has asked every step.     *)
Over(w) ==
  /\ w \in WalkRec /\ w.phase = "done" /\ w.at \in 0 .. Len(w.steps) + 1
  /\ w.kind.run = "chat" /\ w.result \in {"none", "content"} /\ ~w.cut =>
       w.steps = <<>> \/ w.at > Len(w.steps)

(* What follows an attempt of w.                                           *)
Follows(x, w) == (AtPick(x) \/ Over(x)) /\ x.late = w.late /\ x.kind = w.kind

(* The fields of a request.                                                *)
LEMMA KindFacts ==
  ASSUME NEW kind \in Kinds
  PROVE  /\ kind \in Walk!Kind /\ kind.run \in {"chat", "embed", "decision", "transcribe"}
         /\ kind.pin \in BOOLEAN /\ kind.paid \in BOOLEAN
  <1>1. kind \in Walk!Kind
    BY WalkAssumption
  <1> QED BY <1>1 DEF Walk!Kind

(* The fields of a walk's record.                                          *)
LEMMA RecFields ==
  ASSUME NEW w \in WalkRec
  PROVE  /\ w.phase \in {"idle", "pick", "start", "call", "fallback", "done"} /\ w.kind \in Kinds
         /\ w.steps \in Seq(Walk!Step) /\ w.at \in Nat /\ w.n \in Nat /\ w.tier \in Walk!Tier
         /\ w.degraded \in BOOLEAN /\ w.tries \in Nat /\ w.base \in Nat
         /\ w.bad \in SUBSET (Provider \X Walk!Model) /\ w.other \in BOOLEAN /\ w.seen \in BOOLEAN
         /\ w.key \in Key \cup {None} /\ w.model \in Walk!Model \cup {None}
         /\ w.result \in Walk!Result /\ w.cut \in BOOLEAN /\ w.capped \in BOOLEAN
         /\ w.excused \in BOOLEAN /\ w.late \in 0 .. 2
  BY DEF WalkRec

(* A walk that has not begun has such a record.                            *)
LEMMA FreshRec == Walk!Fresh \in WalkRec
  <1>1. (CHOOSE k \in Kinds : TRUE) \in Kinds
    BY WalkAssumption
  <1> DEFINE k == CHOOSE k \in Kinds : TRUE
  <1> HIDE DEF k
  <1>2. k \in Kinds
    BY <1>1 DEF k
  <1>3. <<>> \in Seq(Walk!Step)
    OBVIOUS
  <1>4. Walk!Fresh = [phase |-> "idle", kind |-> k, steps |-> <<>>, at |-> 0, n |-> 0,
          tier |-> "any", degraded |-> FALSE, tries |-> 0, base |-> 0, bad |-> {}, other |-> FALSE,
          seen |-> FALSE, key |-> None, model |-> None, result |-> "none", cut |-> FALSE,
          capped |-> FALSE, excused |-> FALSE, late |-> 0]
    BY DEF Walk!Fresh, k
  <1> QED BY <1>2, <1>3, <1>4 DEF WalkRec, Walk!Tier, Walk!Result

(* The record a walk ends with.                                            *)
LEMMA EndFacts ==
  ASSUME NEW w \in WalkRec, NEW r \in Walk!Result
  PROVE  LET x == Walk!End(w, r)
         IN  /\ x \in WalkRec /\ x.phase = "done" /\ x.kind = w.kind /\ x.result = r
             /\ x.steps = w.steps /\ x.at = w.at /\ x.cut = w.cut /\ x.late = w.late
  <1> DEFINE f == Walk!Fresh
             x == Walk!End(w, r)
  <1>1. f \in WalkRec
    BY FreshRec
  <1>2. x = [f EXCEPT !.phase = "done", !.kind = w.kind, !.result = r, !.steps = w.steps, !.at = w.at,
                      !.cut = w.cut, !.late = w.late]
    BY DEF Walk!End
  <1> HIDE DEF f, x
  <1>3. /\ w.kind \in Kinds /\ w.steps \in Seq(Walk!Step) /\ w.at \in Nat /\ w.cut \in BOOLEAN
        /\ w.late \in 0 .. 2
    BY RecFields
  <1>4. x \in WalkRec
    BY <1>1, <1>2, <1>3 DEF WalkRec
  <1>5. /\ x.phase = "done" /\ x.kind = w.kind /\ x.result = r
        /\ x.steps = w.steps /\ x.at = w.at /\ x.cut = w.cut /\ x.late = w.late
    BY <1>1, <1>2 DEF WalkRec
  <1> QED BY <1>4, <1>5 DEF x

(* A visit may try something, and no more than the key sum counts.         *)
LEMMA AllowanceFacts ==
  ASSUME NEW x \in Walk!Step
  PROVE  /\ Walk!Allowance(x) \in Nat \ {0} /\ MaxKeys[x.prov] \in Nat
         /\ Walk!Allowance(x) <= MaxKeys[x.prov]
  <1>1. x.prov \in Provider
    BY DEF Walk!Step
  <1> QED BY <1>1, WalkAssumption DEF Walk!Allowance

(* Leaving a step leads to the next one or to the end of the walk.         *)
LEMMA NextStepOK ==
  ASSUME NEW w, Leaving(w)
  PROVE  Follows(Walk!NextStep(w), w)
  <1> DEFINE x == Walk!NextStep(w)
             L == Len(w.steps)
             step == w.steps[w.at + 1]
  <1>1. /\ w \in WalkRec /\ WalkSteps(w.kind, w.steps) /\ w.at \in 1 .. L
        /\ w.steps \in Seq(Walk!Step) /\ L \in Nat /\ w.kind \in Kinds /\ w.late \in 0 .. 2
    BY RecFields DEF Leaving
  <1>2. CASE w.at >= L
    <2> DEFINE v == [w EXCEPT !.at = L + 1]
    <2>1. v \in WalkRec /\ v.kind = w.kind /\ v.steps = w.steps /\ v.at = L + 1 /\ v.late = w.late
      BY <1>1 DEF WalkRec
    <2>2. Walk!Verdict(w) \in Walk!Result
      BY DEF Walk!Verdict, Walk!Result
    <2>3. x = Walk!End(v, Walk!Verdict(w))
      BY <1>2 DEF Walk!NextStep
    <2> HIDE DEF v, x
    <2>4. /\ x \in WalkRec /\ x.phase = "done" /\ x.kind = w.kind
          /\ x.steps = w.steps /\ x.at = L + 1 /\ x.late = w.late
      BY <2>1, <2>2, <2>3, EndFacts
    <2>5. L + 1 \in 0 .. L + 1 /\ L + 1 > L
      BY <1>1
    <2>6. Over(x)
      BY <2>4, <2>5 DEF Over
    <2> QED BY <2>4, <2>6 DEF Follows, x
  <1>3. CASE ~(w.at >= L)
    <2>1. x = [w EXCEPT !.at = w.at + 1, !.n = 0, !.base = 0, !.phase = "pick", !.key = None,
                        !.model = None, !.tier = Walk!StepTier(w, step)]
      BY <1>3 DEF Walk!NextStep
    <2>2. w.at + 1 \in 1 .. L /\ w.at + 1 \in Nat /\ (w.at + 1) - 1 = w.at
      BY <1>1, <1>3
    <2>3. step \in Walk!Step /\ step.tier \in Walk!Tier
      <3>1. step \in Walk!Step
        BY <1>1, <2>2
      <3>2. \A y \in Walk!Step : y.tier \in Walk!Tier
        BY DEF Walk!Step
      <3> QED BY <3>1, <3>2
    <2>4. /\ Walk!StepTier(w, step) \in Walk!Tier
          /\ w.degraded /\ step.tier = "any" => Walk!StepTier(w, step) = "free"
          /\ step.tier = "any" /\ ~w.kind.paid /\ Walk!StepTier(w, step) = "free" => w.degraded
      BY <2>3 DEF Walk!StepTier, Walk!Tier
    <2> HIDE DEF x, step
    <2> DEFINE t == Walk!StepTier(w, step)
    <2> HIDE DEF t
    <2>5. x \in WalkRec
      BY <1>1, <2>1, <2>2, <2>4 DEF WalkRec, t
    <2>6. /\ x.kind = w.kind /\ x.steps = w.steps /\ x.at = w.at + 1 /\ x.n = 0 /\ x.phase = "pick"
          /\ x.tier = t /\ x.capped = w.capped /\ x.degraded = w.degraded /\ x.tries = w.tries
          /\ x.bad = w.bad /\ x.late = w.late
      BY <1>1, <2>1 DEF WalkRec, t
    <2>7. x.steps[x.at] = step
      BY <2>6 DEF step
    <2>8. 0 < Walk!Allowance(step) /\ Walk!Allowance(step) \in Nat
      BY <2>3, AllowanceFacts
    <2>9. \A b \in x.bad : \E i \in 1 .. x.at - 1 : x.steps[i].prov = b[1]
      BY <2>6, <2>2 DEF Leaving
    <2>10. x.kind.run # "chat" => x.bad = {}
      BY <2>6 DEF Leaving
    <2>11. ASSUME x.kind.run = "chat"
           PROVE  /\ x.capped => x.degraded /\ ~x.kind.paid
                  /\ x.degraded /\ x.steps[x.at].tier = "any" => x.tier = "free"
                  /\ x.steps[x.at].tier = "any" /\ ~x.kind.paid /\ x.tier = "free" => x.degraded
                  /\ x.tries <= Walk!KeySum(x.steps)[x.at - 1] + x.n
                  /\ x.tries <= Walk!KeySum(x.steps)[x.at - 1] + x.n + 1
      <3>1. w.kind.run = "chat"
        BY <2>11, <2>6
      <3>2. w.tries <= Walk!KeySum(w.steps)[w.at] /\ (w.capped => w.degraded /\ ~w.kind.paid)
        BY <3>1 DEF Leaving
      <3>3. w.tries \in Nat /\ w.at \in 0 .. L
        BY <1>1, RecFields
      <3>4. Walk!KeySum(w.steps)[w.at] \in Nat
        BY <1>1, <3>3, KeySums
      <3>5. x.tries <= Walk!KeySum(x.steps)[x.at - 1] + x.n
            /\ x.tries <= Walk!KeySum(x.steps)[x.at - 1] + x.n + 1
        BY <3>2, <3>3, <3>4, <2>2, <2>6
      <3> QED BY <3>2, <3>5, <2>4, <2>6, <2>7 DEF t
    <2>12. WalkSteps(x.kind, x.steps) /\ x.at \in 1 .. Len(x.steps) /\ x.n < Walk!Allowance(x.steps[x.at])
      BY <1>1, <2>2, <2>6, <2>7, <2>8
    <2>13. OnStep(x)
      BY <2>5, <2>9, <2>10, <2>11, <2>12 DEF OnStep
    <2>14. AtPick(x)
      BY <2>6, <2>11, <2>13 DEF AtPick
    <2> QED BY <2>6, <2>14 DEF Follows, x
  <1> QED BY <1>2, <1>3

(* A try that its step still allows is counted by the step's sum.          *)
LEMMA Room ==
  ASSUME NEW a \in Nat, NEW b, NEW m \in Nat, NEW n \in Nat, NEW q \in Nat, b = a + m, n < q, q <= m
  PROVE  b \in Nat /\ a + n + 1 <= b
  OBVIOUS

(* What stays below a sum stays below what the sum is below.               *)
LEMMA Below ==
  ASSUME NEW t \in Nat, NEW a \in Nat, NEW n \in Nat, NEW b \in Nat, NEW c \in Nat,
         t <= a + n, a + n + 1 <= b, b <= c
  PROVE  t < c
  OBVIOUS

(* A walk on a step has spent no more than its visits allow when it leaves *)
(* it.                                                                     *)
LEMMA OnStepLeaves ==
  ASSUME NEW w, OnStep(w)
  PROVE  Leaving(w)
  <1> DEFINE x == w.steps[w.at]
             S == Walk!KeySum(w.steps)
  <1>1. /\ w \in WalkRec /\ w.at \in 1 .. Len(w.steps) /\ w.steps \in Seq(Walk!Step)
        /\ w.n \in Nat /\ w.tries \in Nat
    BY RecFields DEF OnStep
  <1>2. x \in Walk!Step /\ Len(w.steps) \in Nat
    BY <1>1
  <1>3. Walk!Allowance(x) \in Nat /\ MaxKeys[x.prov] \in Nat /\ Walk!Allowance(x) <= MaxKeys[x.prov]
    BY <1>2, AllowanceFacts
  <1>4. w.at - 1 \in 0 .. Len(w.steps)
    BY <1>1, <1>2
  <1>5. S[w.at] = S[w.at - 1] + MaxKeys[x.prov] /\ S[w.at - 1] \in Nat
    BY <1>1, <1>4, KeySums
  <1>6. w.n < Walk!Allowance(x)
    BY DEF OnStep
  <1>7. S[w.at - 1] + w.n + 1 <= S[w.at]
    <2> HIDE DEF S, x
    <2>1. w.n \in Nat
      BY <1>1
    <2> QED BY ONLY <2>1, <1>3, <1>5, <1>6, Room
  <1>8. w.kind.run = "chat" => w.tries <= S[w.at]
    <2>1. w.kind.run = "chat" => w.tries <= S[w.at - 1] + w.n + 1
      BY DEF OnStep
    <2> QED BY <1>1, <1>3, <1>5, <1>7, <2>1
  <1>9. \A b \in w.bad : \E i \in 1 .. w.at : w.steps[i].prov = b[1]
    <2>1. \A i \in 1 .. w.at - 1 : i \in 1 .. w.at
      BY <1>1
    <2> QED BY <2>1 DEF OnStep
  <1> QED BY <1>8, <1>9 DEF OnStep, Leaving

(* The next attempt is with another key of the step or on the next step.   *)
LEMMA NextKeyOK ==
  ASSUME NEW w, OnStep(w)
  PROVE  Follows(Walk!NextKey(w), w)
  <1> DEFINE x == Walk!NextKey(w)
             A == Walk!Allowance(w.steps[w.at])
  <1>1. CASE w.n + 1 >= A
    <2>1. x = Walk!NextStep(w)
      BY <1>1 DEF Walk!NextKey
    <2> QED BY <2>1, OnStepLeaves, NextStepOK
  <1>2. CASE ~(w.n + 1 >= A)
    <2>1. x = [w EXCEPT !.n = w.n + 1, !.phase = "pick", !.key = None, !.model = None]
      BY <1>2 DEF Walk!NextKey
    <2>2. w \in WalkRec /\ w.n \in Nat /\ w.n + 1 \in Nat /\ w.steps \in Seq(Walk!Step)
          /\ w.at \in 1 .. Len(w.steps)
      BY RecFields DEF OnStep
    <2>3. A \in Nat
      BY <2>2, AllowanceFacts
    <2> HIDE DEF x, A
    <2>4. x \in WalkRec
      BY <2>1, <2>2 DEF WalkRec
    <2>5. /\ x.kind = w.kind /\ x.steps = w.steps /\ x.at = w.at /\ x.n = w.n + 1 /\ x.phase = "pick"
          /\ x.tier = w.tier /\ x.capped = w.capped /\ x.degraded = w.degraded /\ x.tries = w.tries
          /\ x.bad = w.bad /\ x.late = w.late
      BY <2>1, <2>2 DEF WalkRec
    <2>6. x.n < Walk!Allowance(x.steps[x.at])
      BY <1>2, <2>2, <2>3, <2>5 DEF A
    <2>7. ASSUME w.kind.run = "chat"
          PROVE  /\ x.tries <= Walk!KeySum(x.steps)[x.at - 1] + x.n
                 /\ x.tries <= Walk!KeySum(x.steps)[x.at - 1] + x.n + 1
      <3>1. w.tries <= Walk!KeySum(w.steps)[w.at - 1] + w.n + 1 /\ w.tries \in Nat
        BY <2>2, <2>7, RecFields DEF OnStep
      <3>2. w.at - 1 \in 0 .. Len(w.steps) /\ Len(w.steps) \in Nat
        BY <2>2
      <3>3. Walk!KeySum(w.steps)[w.at - 1] \in Nat
        BY <2>2, <3>2, KeySums
      <3> QED BY <3>1, <3>3, <2>2, <2>5
    <2>8. OnStep(x)
      BY <2>4, <2>5, <2>6, <2>7 DEF OnStep
    <2>9. AtPick(x)
      BY <2>5, <2>7, <2>8 DEF AtPick
    <2> QED BY <2>5, <2>9 DEF Follows, x
  <1> QED BY <1>1, <1>2

(* A verdict of the caps leads on, to a free key or to the end.            *)
LEMMA BlockedOK ==
  ASSUME NEW w, OnStep(w), NEW scope \in {"key", "project"}
  PROVE  Follows(Walk!Blocked(w, scope), w)
  <1> DEFINE x == Walk!Blocked(w, scope)
             o == [w EXCEPT !.other = TRUE, !.capped = w.capped \/ scope = "project"]
             f == [o EXCEPT !.tier = "free", !.degraded = TRUE]
             step == w.steps[w.at]
  <1>1. w \in WalkRec /\ w.capped \in BOOLEAN /\ w.kind \in Kinds
    BY RecFields DEF OnStep
  <1>2. /\ o \in WalkRec /\ o.kind = w.kind /\ o.steps = w.steps /\ o.at = w.at /\ o.n = w.n
        /\ o.tier = w.tier /\ o.degraded = w.degraded /\ o.tries = w.tries /\ o.bad = w.bad
        /\ o.late = w.late /\ o.capped = (w.capped \/ scope = "project") /\ o.cut = w.cut
    BY <1>1 DEF WalkRec
  <1>3. x = IF w.kind.run # "chat"
            THEN IF scope = "project" THEN Walk!End(o, "failed") ELSE Walk!NextKey(o)
            ELSE IF scope = "key" THEN Walk!NextStep(o)
            ELSE IF w.kind.paid \/ step.tier # "any" THEN Walk!End(o, "exhausted")
            ELSE IF w.tier # "free" THEN Walk!NextKey(f)
            ELSE Walk!NextStep(o)
    BY Zenon DEF Walk!Blocked
  <1> HIDE DEF x, o
  <1>4. w.kind.paid \in BOOLEAN
    BY <1>1, KindFacts
  <1>5. Leaving(w)
    BY OnStepLeaves
  <1>6. \A y : Follows(y, o) => Follows(y, w)
    BY <1>2 DEF Follows
  <1>7. ASSUME NEW r \in {"failed", "exhausted"} PROVE Follows(Walk!End(o, r), w)
    <2> DEFINE y == Walk!End(o, r)
    <2>1. r \in Walk!Result /\ r \notin {"none", "content"}
      BY DEF Walk!Result
    <2>2. /\ y \in WalkRec /\ y.phase = "done" /\ y.kind = o.kind /\ y.result = r
          /\ y.steps = o.steps /\ y.at = o.at /\ y.late = o.late
      BY <1>2, <2>1, EndFacts
    <2> HIDE DEF y
    <2>3. w.at \in 0 .. Len(w.steps) + 1
      <3>1. w.at \in 1 .. Len(w.steps) /\ w.steps \in Seq(Walk!Step)
        BY RecFields DEF OnStep
      <3> QED BY <3>1
    <2>4. Over(y)
      BY <1>2, <2>1, <2>2, <2>3 DEF Over
    <2> QED BY <1>2, <2>2, <2>4 DEF Follows, y
  <1>8. CASE w.kind.run # "chat"
    <2>1. OnStep(o)
      BY <1>2, <1>8 DEF OnStep
    <2>2. Follows(Walk!NextKey(o), w)
      BY <1>6, <2>1, NextKeyOK
    <2> QED BY <1>3, <1>7, <1>8, <2>2 DEF x
  <1>9. CASE w.kind.run = "chat" /\ scope = "key"
    <2>1. Leaving(o)
      BY <1>2, <1>5, <1>9 DEF Leaving
    <2>2. Follows(Walk!NextStep(o), w)
      BY <1>6, <2>1, NextStepOK
    <2> QED BY <1>3, <1>9, <2>2 DEF x
  <1>10. CASE w.kind.run = "chat" /\ scope = "project" /\ (w.kind.paid \/ step.tier # "any")
    BY <1>3, <1>7, <1>10 DEF x
  <1>11. CASE /\ w.kind.run = "chat" /\ scope = "project" /\ ~(w.kind.paid \/ step.tier # "any")
              /\ w.tier # "free"
    <2>1. /\ f \in WalkRec /\ f.kind = w.kind /\ f.steps = w.steps /\ f.at = w.at /\ f.n = w.n
          /\ f.tier = "free" /\ f.degraded = TRUE /\ f.tries = w.tries /\ f.bad = w.bad
          /\ f.late = w.late
      BY <1>2 DEF WalkRec, Walk!Tier
    <2> HIDE DEF f
    <2>2. OnStep(f)
      BY <2>1, <1>11 DEF OnStep
    <2>3. Follows(Walk!NextKey(f), f)
      BY <2>2, NextKeyOK
    <2>4. Follows(Walk!NextKey(f), w)
      BY <2>1, <2>3 DEF Follows
    <2> QED BY <1>3, <1>11, <2>4 DEF x
  <1>12. CASE /\ w.kind.run = "chat" /\ scope = "project" /\ ~(w.kind.paid \/ step.tier # "any")
              /\ w.tier = "free"
    <2>1. w.degraded /\ ~w.kind.paid
      BY <1>12 DEF OnStep
    <2>2. Leaving(o)
      BY <1>2, <1>5, <1>12, <2>1 DEF Leaving
    <2>3. Follows(Walk!NextStep(o), w)
      BY <1>6, <2>2, NextStepOK
    <2> QED BY <1>3, <1>12, <2>3 DEF x
  <1> QED BY <1>8, <1>9, <1>10, <1>11, <1>12

-----------------------------------------------------------------------------
(* A walk that has not begun.                                              *)
Idle(w) ==
  /\ w.steps = <<>> /\ w.at = 0 /\ w.n = 0 /\ w.tries = 0 /\ w.bad = {} /\ w.late = 0
  /\ ~w.degraded /\ ~w.capped

(* The key a walk holds belongs to its step and to the tier it may use.    *)
Holding(w) ==
  /\ w.key \in Key /\ ProvOf[w.key] = w.steps[w.at].prov
  /\ w.tier = "any" \/ TierOf[w.key] = w.tier
  /\ w.steps[w.at].frugal => TierOf[w.key] = "free"

(* The model is one of the key's, for a pinned chat the pinned one.        *)
Asks(w) ==
  /\ w.model \in Walk!ModelsOf(ProvOf[w.key])
  /\ w.kind.run = "chat" /\ w.kind.pin => w.model = PinOf[ProvOf[w.key]]

(* Key and model were in order when the walk chose them.                   *)
Fit(w, hs, cs) ==
  w.excused \/ /\ hs[w.key] = "ok"
               /\ w.kind.run # "decision" =>
                    IF w.phase = "start"
                    THEN Walk!_model_pool(w) # <<>> =>
                           \E m \in Walk!Ran(Walk!_model_pool(w)) : m \notin cs[w.key]
                    ELSE w.model \notin cs[w.key]

(* A cancelled chat is between its last two attempts.                      *)
LateOK(w, halt) ==
  w.kind.run = "chat" => /\ w.late <= 1 /\ (w.late = 1 => halt)
                         /\ w.phase = "start" => w.late = 0

(* The inductive invariant of a walk, phase by phase.                      *)
WalkInv(w, hs, cs, halt) ==
  /\ w \in WalkRec /\ LateOK(w, halt)
  /\ w.phase = "idle" => Idle(w)
  /\ w.phase = "pick" => AtPick(w)
  /\ w.phase = "done" => Over(w)
  /\ w.phase \in {"start", "call", "fallback"} => OnStep(w) /\ Holding(w)
  /\ w.phase \in {"call", "fallback"} => Asks(w)
  /\ w.phase \in {"start", "call"} => Fit(w, hs, cs)

(* The types of what walks share.                                          *)
SharedOK ==
  /\ health \in [Key -> {"ok", "parked", "dead"}]
  /\ cool \in [Key -> SUBSET Walk!Model]
  /\ hung \subseteq Key /\ learned \subseteq Provider
  /\ route \in Walk!Target \cup {None}
  /\ stop \in BOOLEAN /\ moves \in 0 .. Meddle

(* The walk and what it shares.                                            *)
WalkIInv == SharedOK /\ WalkInv(walk, health, cool, stop)

(* The guarantees follow.                                                  *)
LEMMA WalkInvImplies ==
  ASSUME WalkIInv
  PROVE  /\ Walk!TypeOK /\ Walk!PinnedModelOnly /\ Walk!NoPaidAfterCapped /\ Walk!FreeFirst
         /\ Walk!ParkedNotCalled /\ Walk!EveryStepTaken /\ Walk!CancelCostsOneAttempt
         /\ Walk!ContentRetriedOnce
  <1>1. walk \in WalkRec /\ WalkInv(walk, health, cool, stop) /\ SharedOK
    BY DEF WalkIInv, WalkInv
  <1>2. /\ walk.phase \in {"idle", "pick", "start", "call", "fallback", "done"} /\ walk.kind \in Kinds
        /\ walk.steps \in Seq(Walk!Step) /\ walk.at \in Nat /\ walk.n \in Nat /\ walk.tier \in Walk!Tier
        /\ walk.tries \in Nat /\ walk.key \in Key \cup {None}
        /\ walk.model \in Walk!Model \cup {None} /\ walk.result \in Walk!Result
    BY <1>1, RecFields
  <1>3. walk.phase = "call" => OnStep(walk) /\ Holding(walk) /\ Asks(walk) /\ Fit(walk, health, cool)
    BY <1>1 DEF WalkInv
  <1>4. walk.phase = "call" /\ walk.kind.run = "chat" => ChatOK(walk.kind, walk.steps)
    BY <1>3 DEF OnStep, WalkSteps
  <1>5. walk.phase = "call" => walk.at \in 1 .. Len(walk.steps) /\ Len(walk.steps) \in Nat
    BY <1>2, <1>3 DEF OnStep
  <1>6. Walk!TypeOK
    <2>1. walk.at \in 0 .. Len(walk.steps) + 1
      <3>1. walk.at \in 0 .. Len(walk.steps) + 1 \/ walk.at \in 1 .. Len(walk.steps) \/ walk.at = 0
        BY <1>1, <1>2 DEF WalkInv, Idle, AtPick, OnStep, Over
      <3> QED BY <1>2, <3>1
    <2>2. walk.phase \in {"call", "fallback"} => walk.model \in Walk!ModelsOf(ProvOf[walk.key])
      BY <1>1 DEF WalkInv, Asks
    <2>3. Kinds \subseteq Walk!Kind
      BY WalkAssumption
    <2> QED BY <1>1, <1>2, <2>1, <2>2, <2>3 DEF Walk!TypeOK, SharedOK
  <1>7. Walk!PinnedModelOnly
    BY <1>3 DEF Walk!PinnedModelOnly, Asks
  <1>8. Walk!NoPaidAfterCapped
    <2> SUFFICES ASSUME walk.phase = "call", walk.kind.run = "chat", ~walk.kind.pin, walk.capped
                 PROVE  TierOf[walk.key] = "free"
      BY DEF Walk!NoPaidAfterCapped
    <2>1. walk.degraded /\ ~walk.kind.paid
      BY <1>3 DEF OnStep
    <2>2. walk.steps[walk.at].tier = "any"
      BY <1>4, <1>5, <2>1 DEF ChatOK
    <2>3. walk.tier = "free"
      BY <1>3, <2>1, <2>2 DEF OnStep
    <2> QED BY <1>3, <2>3 DEF Holding
  <1>9. Walk!FreeFirst
    <2> SUFFICES ASSUME walk.phase = "call", walk.kind.run = "chat", ~walk.kind.paid
                 PROVE  /\ walk.at = 1 /\ walk.steps[1].key # None /\ walk.steps[2].prov \notin Paid =>
                             TierOf[walk.key] = "free"
                        /\ walk.kind.free /\ ~walk.kind.pin => ProvOf[walk.key] \notin Paid
      BY DEF Walk!FreeFirst
    <2>1. walk.steps # <<>>
      BY <1>5
    <2>2. walk.steps[1].key # None /\ walk.steps[2].prov \notin Paid => walk.steps[1].frugal
      BY <1>4, <2>1 DEF ChatOK
    <2>3. walk.kind.free /\ ~walk.kind.pin => walk.steps[walk.at].prov \notin Paid
      BY <1>4, <1>5 DEF ChatOK
    <2> QED BY <1>3, <2>2, <2>3 DEF Holding
  <1>10. Walk!ParkedNotCalled
    BY <1>3 DEF Walk!ParkedNotCalled, Fit
  <1>11. Walk!EveryStepTaken
    BY <1>1 DEF Walk!EveryStepTaken, WalkInv, Over
  <1>12. Walk!CancelCostsOneAttempt
    BY <1>1 DEF Walk!CancelCostsOneAttempt, WalkInv, LateOK
  <1>13. Walk!ContentRetriedOnce
    <2> SUFFICES ASSUME walk.phase = "call", ~walk.kind.pin,
                        <<ProvOf[walk.key], walk.model>> \in walk.bad
                 PROVE  walk.steps[1].key # None /\ ProvOf[walk.steps[1].key] = ProvOf[walk.key]
      BY DEF Walk!ContentRetriedOnce
    <2>1. walk.kind.run = "chat"
      BY <1>3 DEF OnStep
    <2>2. PICK i \in 1 .. walk.at - 1 : walk.steps[i].prov = ProvOf[walk.key]
      <3> DEFINE b == <<ProvOf[walk.key], walk.model>>
      <3>1. b \in walk.bad /\ b[1] = ProvOf[walk.key]
        OBVIOUS
      <3> HIDE DEF b
      <3> QED BY <3>1, <1>3 DEF OnStep
    <2>3. i \in 1 .. Len(walk.steps) /\ i < walk.at /\ 1 \in 1 .. Len(walk.steps)
      BY <1>5
    <2>4. walk.steps[i].prov = walk.steps[walk.at].prov
      BY <1>3, <2>2 DEF Holding
    <2>5. i = 1 /\ walk.steps[1].key # None
      BY <1>4, <1>5, <2>1, <2>3, <2>4 DEF ChatOK
    <2>6. StepOK(walk.steps[1])
      BY <1>3, <2>3 DEF OnStep, WalkSteps
    <2> QED BY <2>2, <2>5, <2>6 DEF StepOK
  <1> QED BY <1>6, <1>7, <1>8, <1>9, <1>10, <1>11, <1>12, <1>13

(* No walk has begun.                                                      *)
LEMMA WalkInvInit == Walk!Init => WalkIInv
  <1> SUFFICES ASSUME Walk!Init PROVE WalkIInv
    OBVIOUS
  <1>1. SharedOK
    <2>1. 0 \in 0 .. Meddle
      BY WalkAssumption
    <2> QED BY <2>1 DEF Walk!Init, SharedOK
  <1>2. walk = Walk!Fresh
    BY DEF Walk!Init
  <1>3. walk \in WalkRec
    BY <1>2, FreshRec
  <1>4. /\ walk.phase = "idle" /\ walk.steps = <<>> /\ walk.at = 0 /\ walk.n = 0 /\ walk.tries = 0
        /\ walk.bad = {} /\ walk.late = 0 /\ walk.degraded = FALSE /\ walk.capped = FALSE
    BY <1>2 DEF Walk!Fresh
  <1>5. WalkInv(walk, health, cool, stop)
    BY <1>3, <1>4 DEF WalkInv, LateOK, Idle
  <1> QED BY <1>1, <1>5 DEF WalkIInv

(* After an attempt the invariant holds whatever the keys are.             *)
LEMMA FollowsInv ==
  ASSUME NEW w, NEW x, Follows(x, w), NEW hs, NEW cs, NEW halt,
         w.kind.run = "chat" => w.late <= 1 /\ (w.late = 1 => halt)
  PROVE  WalkInv(x, hs, cs, halt)
  <1>1. x \in WalkRec /\ x.phase \in {"pick", "done"}
    BY DEF Follows, AtPick, OnStep, Over
  <1>2. LateOK(x, halt)
    BY <1>1 DEF Follows, LateOK
  <1>3. (x.phase = "pick" => AtPick(x)) /\ (x.phase = "done" => Over(x))
    BY DEF Follows, AtPick, Over
  <1> QED BY <1>1, <1>2, <1>3 DEF WalkInv

(* A walk that ends before its last step does so with a verdict that is    *)
(* not a lack of capacity, or was cut.                                     *)
LEMMA EndOK ==
  ASSUME NEW w \in WalkRec, NEW r \in Walk!Result, w.at \in 0 .. Len(w.steps) + 1,
         w.kind.run = "chat" /\ r \in {"none", "content"} /\ ~w.cut => w.steps = <<>>
  PROVE  Follows(Walk!End(w, r), w)
  <1> DEFINE x == Walk!End(w, r)
  <1>1. /\ x \in WalkRec /\ x.phase = "done" /\ x.kind = w.kind /\ x.result = r
        /\ x.steps = w.steps /\ x.at = w.at /\ x.cut = w.cut /\ x.late = w.late
    BY EndFacts
  <1> HIDE DEF x
  <1>2. Over(x)
    BY <1>1 DEF Over
  <1> QED BY <1>1, <1>2 DEF Follows, x

(* A request begins its walk on the first of sound steps, or has none to   *)
(* take.                                                                   *)
LEMMA BeginOK ==
  ASSUME WalkIInv, Walk!Begin
  PROVE  WalkIInv'
  <1>1. walk \in WalkRec /\ walk.phase = "idle" /\ Idle(walk) /\ SharedOK
    BY DEF WalkIInv, WalkInv, Walk!Begin
  <1>2. PICK kind \in Kinds :
          \E over \in IF kind.run = "chat" THEN SUBSET Walk!Ran(Chain) ELSE {{}},
             target \in IF kind.run = "chat" THEN Walk!lookup_route(kind) ELSE {None} :
            \E steps \in Walk!RunSteps(kind, over, target) :
              LET w == [walk EXCEPT !.kind = kind, !.steps = steps]
              IN  /\ walk' = IF steps = <<>> THEN Walk!End(w, "none")
                             ELSE [w EXCEPT !.phase = "pick", !.at = 1,
                                            !.tier = Walk!StepTier(w, steps[1])]
                  /\ learned' = over /\ route' = target
    BY Zenon DEF Walk!Begin
  <1>3. PICK over \in IF kind.run = "chat" THEN SUBSET Walk!Ran(Chain) ELSE {{}},
             target \in IF kind.run = "chat" THEN Walk!lookup_route(kind) ELSE {None} :
            \E steps \in Walk!RunSteps(kind, over, target) :
              LET w == [walk EXCEPT !.kind = kind, !.steps = steps]
              IN  /\ walk' = IF steps = <<>> THEN Walk!End(w, "none")
                             ELSE [w EXCEPT !.phase = "pick", !.at = 1,
                                            !.tier = Walk!StepTier(w, steps[1])]
                  /\ learned' = over /\ route' = target
    BY <1>2, Zenon
  <1>4. PICK steps \in Walk!RunSteps(kind, over, target) :
              LET w == [walk EXCEPT !.kind = kind, !.steps = steps]
              IN  /\ walk' = IF steps = <<>> THEN Walk!End(w, "none")
                             ELSE [w EXCEPT !.phase = "pick", !.at = 1,
                                            !.tier = Walk!StepTier(w, steps[1])]
                  /\ learned' = over /\ route' = target
    BY <1>3, Zenon
  <1>5. kind.run = "chat" => over \in SUBSET Walk!Ran(Chain) /\ target \in Walk!lookup_route(kind)
    BY <1>3
  <1>6. WalkSteps(kind, steps)
    BY <1>4, <1>5, RunStepsOK
  <1>7. over \subseteq Provider /\ target \in Walk!Target \cup {None}
    <2>1. Walk!Ran(Chain) \subseteq Provider
      BY ChainDraws DEF Walk!Ran
    <2>2. \A k : Walk!lookup_route(k) \subseteq Walk!Target \cup {None}
      BY DEF Walk!lookup_route
    <2> QED BY <1>3, <2>1, <2>2
  <1>8. SharedOK'
    <2>1. learned' = over /\ route' = target /\ UNCHANGED <<health, cool, hung, stop, moves>>
      BY <1>4 DEF Walk!Begin
    <2> QED BY <1>1, <1>7, <2>1 DEF SharedOK
  <1>9. steps \in Seq(Walk!Step) /\ Len(steps) \in Nat
    BY <1>6 DEF WalkSteps
  <1>10. PICK w : w = [walk EXCEPT !.kind = kind, !.steps = steps]
    OBVIOUS
  <1>11. /\ w \in WalkRec /\ w.kind = kind /\ w.steps = steps /\ w.at = 0 /\ w.n = 0 /\ w.tries = 0
         /\ w.bad = {} /\ w.late = 0 /\ ~w.degraded /\ ~w.capped
    BY <1>1, <1>9, <1>10 DEF WalkRec, Idle
  <1>12. PICK x : x = walk'
    OBVIOUS
  <1>13. x = IF steps = <<>> THEN Walk!End(w, "none")
             ELSE [w EXCEPT !.phase = "pick", !.at = 1, !.tier = Walk!StepTier(w, steps[1])]
    BY <1>4, <1>10, <1>12, Zenon
  <1>14. Follows(x, w)
    <2>1. CASE steps = <<>>
      <3>1. x = Walk!End(w, "none") /\ "none" \in Walk!Result /\ w.at \in 0 .. Len(w.steps) + 1
        BY <1>9, <1>11, <1>13, <2>1 DEF Walk!Result
      <3> QED BY <1>11, <2>1, <3>1, EndOK
    <2>2. CASE steps # <<>>
      <3> DEFINE t == Walk!StepTier(w, steps[1])
      <3>1. x = [w EXCEPT !.phase = "pick", !.at = 1, !.tier = t]
        BY <1>13, <2>2
      <3>2. 1 \in 1 .. Len(steps) /\ steps[1] \in Walk!Step
        BY <1>9, <2>2
      <3>3. \A y \in Walk!Step : y.tier \in Walk!Tier
        BY DEF Walk!Step
      <3>4. t \in Walk!Tier /\ (steps[1].tier = "any" /\ ~w.kind.paid => t # "free")
        BY <1>11, <3>2, <3>3 DEF Walk!StepTier, Walk!Tier
      <3> HIDE DEF t
      <3>5. /\ x \in WalkRec /\ x.phase = "pick" /\ x.kind = w.kind /\ x.steps = w.steps /\ x.at = 1
            /\ x.n = w.n /\ x.tries = w.tries /\ x.bad = w.bad /\ x.late = w.late /\ x.tier = t
            /\ x.degraded = w.degraded /\ x.capped = w.capped
        BY <1>11, <3>1, <3>4 DEF WalkRec
      <3>6. x.n < Walk!Allowance(x.steps[x.at])
        BY <3>2, <3>5, <1>11, AllowanceFacts
      <3>7. 0 \in 0 .. Len(steps) /\ 1 - 1 = 0
        BY <1>9
      <3>8. Walk!KeySum(steps)[0] = 0
        BY <1>9, KeySums
      <3>9. x.tries <= Walk!KeySum(x.steps)[x.at - 1] + x.n
            /\ x.tries <= Walk!KeySum(x.steps)[x.at - 1] + x.n + 1
        BY <3>5, <3>7, <3>8, <1>11
      <3>10. OnStep(x)
        BY <1>6, <1>11, <3>2, <3>4, <3>5, <3>6, <3>9 DEF OnStep
      <3>11. AtPick(x)
        BY <3>5, <3>9, <3>10 DEF AtPick
      <3> QED BY <3>5, <3>11 DEF Follows
    <2> QED BY <2>1, <2>2
  <1>15. WalkInv(x, health', cool', stop')
    BY <1>11, <1>14, FollowsInv
  <1> QED BY <1>8, <1>12, <1>15 DEF WalkIInv

(* A key the pick returns was available to the step.                       *)
LEMMA PickedAvailable ==
  ASSUME NEW w, NEW k \in Walk!pick_and_reserve(w), k # None
  PROVE  k \in Walk!Available(w)
  <1> DEFINE step == w.steps[w.at]
             avail == Walk!Available(w)
             Pins == {a \in Walk!KeysOf(step.prov) : a \notin hung} \cup {None}
             ordinary == {j \in avail : \E lock, sat \in SUBSET avail, aff \in Pins :
                                          j \in Walk!Best(avail \ lock, sat, aff)}
  <1>1. ordinary \subseteq avail
    OBVIOUS
  <1>2. k \in IF w.tier # "paid" /\ Walk!providers_in_timeout_storm(step.prov) THEN {None}
              ELSE IF step.key # None THEN {IF step.key \in avail THEN step.key ELSE None}
              ELSE IF step.prov \in Sticky /\ w.tier # "free" THEN ordinary \cup avail \cup {None}
              ELSE ordinary \cup {None}
    BY Zenon DEF Walk!pick_and_reserve
  <1> HIDE DEF ordinary, avail
  <1>3. k \in avail
    BY <1>1, <1>2
  <1> QED BY <1>3 DEF avail

(* A walk before an attempt has not used up its budget.                    *)
LEMMA NotSpent ==
  ASSUME NEW w, AtPick(w)
  PROVE  ~Walk!Spent(w)
  <1> SUFFICES ASSUME w.kind.run = "chat", w.tries >= Walk!_attempt_budget(w.steps) PROVE FALSE
    BY DEF Walk!Spent
  <1> DEFINE x == w.steps[w.at]
             S == Walk!KeySum(w.steps)
             L == Len(w.steps)
  <1>1. /\ OnStep(w) /\ w \in WalkRec /\ w.at \in 1 .. L /\ w.steps \in Seq(Walk!Step) /\ L \in Nat
        /\ w.n \in Nat /\ w.tries \in Nat /\ w.n < Walk!Allowance(x)
    BY RecFields DEF AtPick, OnStep
  <1>2. x \in Walk!Step /\ w.at - 1 \in 0 .. L /\ w.at \in 0 .. L /\ L \in 0 .. L
    BY <1>1
  <1>3. Walk!Allowance(x) \in Nat /\ MaxKeys[x.prov] \in Nat /\ Walk!Allowance(x) <= MaxKeys[x.prov]
    BY <1>2, AllowanceFacts
  <1>4. /\ S[w.at] = S[w.at - 1] + MaxKeys[x.prov] /\ S[w.at - 1] \in Nat /\ S[w.at] \in Nat
        /\ S[L] \in Nat /\ S[w.at] <= S[L]
    BY <1>1, <1>2, KeySums
  <1>5. w.tries <= S[w.at - 1] + w.n
    BY DEF AtPick
  <1>6. S[L] <= MaxAttempts /\ MaxAttempts \in Nat
    BY <1>1, WalkAssumption DEF OnStep, WalkSteps
  <1> HIDE DEF S, L, x
  <1>7. w.tries < S[L]
    <2>1. w.n \in Nat /\ w.tries \in Nat /\ w.n < Walk!Allowance(x)
      BY <1>1
    <2>2. S[w.at - 1] + w.n + 1 <= S[w.at]
      BY ONLY <2>1, <1>3, <1>4, Room
    <2> QED BY ONLY <2>1, <2>2, <1>4, <1>5, Below
  <1>8. Walk!_attempt_budget(w.steps) = IF S[L] < MaxAttempts THEN S[L] ELSE MaxAttempts
    BY Zenon DEF Walk!_attempt_budget, S, L
  <1> QED BY <1>1, <1>4, <1>6, <1>7, <1>8

(* The key that is picked is available to the step; without one the step   *)
(* is left.                                                                *)
LEMMA PickOK ==
  ASSUME WalkIInv, Walk!Pick
  PROVE  WalkIInv'
  <1> USE DEF Walk!shared
  <1>1. PICK w : w = walk
    OBVIOUS
  <1> DEFINE step == w.steps[w.at]
  <1>2. w \in WalkRec /\ AtPick(w) /\ OnStep(w) /\ SharedOK /\ LateOK(w, stop) /\ w.phase = "pick"
    BY <1>1 DEF WalkIInv, WalkInv, Walk!Pick, AtPick
  <1>3. SharedOK' /\ UNCHANGED <<health, cool, hung, stop>>
    BY <1>2 DEF Walk!Pick, SharedOK
  <1>4. w.at \in 0 .. Len(w.steps) + 1 /\ w.kind \in Kinds /\ w.tries \in Nat
    <2>1. w.at \in 1 .. Len(w.steps) /\ w.steps \in Seq(Walk!Step) /\ w.kind \in Kinds /\ w.tries \in Nat
      BY <1>2, RecFields DEF OnStep
    <2> QED BY <2>1
  <1>5. w.kind.run = "chat" => w.late <= 1 /\ (w.late = 1 => stop')
    BY <1>2, <1>3 DEF LateOK
  <1>6. PICK x : x = walk'
    OBVIOUS
  <1>7. \/ Walk!Stopped(w) /\ x = Walk!End(w, "cancelled")
        \/ ~Walk!Stopped(w) /\ Walk!Spent(w) /\ x = Walk!End(w, "none")
        \/ /\ w.kind.run \in {"chat", "transcribe"} /\ ~Walk!Stopped(w)
           /\ x = Walk!End([w EXCEPT !.cut = TRUE], IF w.kind.run = "chat" THEN "none" ELSE "failed")
        \/ /\ ~Walk!Stopped(w) /\ ~Walk!Spent(w)
           /\ \E k \in Walk!pick_and_reserve(w) :
                x = IF k = None THEN Walk!NextStep(w)
                    ELSE IF step.frugal /\ TierOf[k] # "free" THEN Walk!NextStep(w)
                    ELSE [w EXCEPT !.phase = "start", !.key = k, !.tries = w.tries + 1,
                                   !.seen = TRUE, !.excused = FALSE]
    BY <1>1, <1>6, Zenon DEF Walk!Pick
  <1>8. SUFFICES WalkInv(x, health', cool', stop')
    BY <1>3, <1>6 DEF WalkIInv
  <1>9. Leaving(w)
    BY <1>2, OnStepLeaves
  <1>10. Follows(Walk!NextStep(w), w)
    BY <1>9, NextStepOK
  <1>11. CASE Walk!Stopped(w) /\ x = Walk!End(w, "cancelled")
    <2>1. "cancelled" \in Walk!Result
      BY DEF Walk!Result
    <2>2. Follows(x, w)
      BY <1>2, <1>4, <1>11, <2>1, EndOK
    <2> QED BY <1>5, <2>2, FollowsInv
  <1>12. CASE /\ w.kind.run \in {"chat", "transcribe"} /\ ~Walk!Stopped(w)
              /\ x = Walk!End([w EXCEPT !.cut = TRUE], IF w.kind.run = "chat" THEN "none" ELSE "failed")
    <2> DEFINE v == [w EXCEPT !.cut = TRUE]
               r == IF w.kind.run = "chat" THEN "none" ELSE "failed"
    <2>1. v \in WalkRec /\ v.cut /\ v.kind = w.kind /\ v.late = w.late /\ v.steps = w.steps /\ v.at = w.at
      BY <1>2 DEF WalkRec
    <2>2. r \in Walk!Result
      BY DEF Walk!Result
    <2> HIDE DEF v, r
    <2>3. x = Walk!End(v, r)
      BY <1>12 DEF v, r
    <2>4. Follows(x, v)
      BY <1>4, <2>1, <2>2, <2>3, EndOK
    <2>5. Follows(x, w)
      BY <2>1, <2>4 DEF Follows
    <2> QED BY <1>5, <2>5, FollowsInv
  <1>13. ASSUME ~Walk!Stopped(w), NEW k \in Walk!pick_and_reserve(w),
                x = IF k = None THEN Walk!NextStep(w)
                    ELSE IF step.frugal /\ TierOf[k] # "free" THEN Walk!NextStep(w)
                    ELSE [w EXCEPT !.phase = "start", !.key = k, !.tries = w.tries + 1,
                                   !.seen = TRUE, !.excused = FALSE]
         PROVE  WalkInv(x, health', cool', stop')
    <2>1. CASE x = Walk!NextStep(w)
      BY <1>5, <1>10, <2>1, FollowsInv
    <2>2. CASE /\ k # None /\ (step.frugal => TierOf[k] = "free")
               /\ x = [w EXCEPT !.phase = "start", !.key = k, !.tries = w.tries + 1,
                                !.seen = TRUE, !.excused = FALSE]
      <3>1. k \in Walk!Available(w)
        BY <2>2, PickedAvailable
      <3>2. /\ k \in Key /\ ProvOf[k] = step.prov /\ health[k] = "ok" /\ w.tier \in {"any", TierOf[k]}
            /\ w.kind.run # "decision" /\ Walk!_model_pool(w) # <<>> =>
                 ~(Walk!Ran(Walk!_model_pool(w)) \subseteq cool[k])
        BY <3>1 DEF Walk!Available, Walk!KeysOf
      <3>3. /\ x \in WalkRec /\ x.phase = "start" /\ x.key = k /\ x.tries = w.tries + 1 /\ ~x.excused
            /\ x.kind = w.kind /\ x.steps = w.steps /\ x.at = w.at /\ x.n = w.n /\ x.tier = w.tier
            /\ x.degraded = w.degraded /\ x.capped = w.capped /\ x.bad = w.bad /\ x.late = w.late
        <4>1. w.tries + 1 \in Nat
          BY <1>4
        <4> DEFINE t == w.tries + 1
        <4> HIDE DEF t
        <4>2. x = [w EXCEPT !.phase = "start", !.key = k, !.tries = t, !.seen = TRUE, !.excused = FALSE]
              /\ t \in Nat
          BY <2>2, <4>1 DEF t
        <4>3. x \in WalkRec
          BY <1>2, <3>2, <4>2 DEF WalkRec
        <4>4. /\ x.phase = "start" /\ x.key = k /\ x.tries = t /\ ~x.excused
              /\ x.kind = w.kind /\ x.steps = w.steps /\ x.at = w.at /\ x.n = w.n /\ x.tier = w.tier
              /\ x.degraded = w.degraded /\ x.capped = w.capped /\ x.bad = w.bad /\ x.late = w.late
          BY <1>2, <4>2 DEF WalkRec
        <4> QED BY <4>3, <4>4 DEF t
      <3>4. x.kind.run = "chat" => x.tries <= Walk!KeySum(x.steps)[x.at - 1] + x.n + 1
        <4>1. w.steps \in Seq(Walk!Step) /\ w.at - 1 \in 0 .. Len(w.steps) /\ w.n \in Nat
          <5>1. w.at \in 1 .. Len(w.steps) /\ w.steps \in Seq(Walk!Step) /\ w.n \in Nat
            BY <1>2, RecFields DEF OnStep
          <5> QED BY <5>1
        <4>2. Walk!KeySum(w.steps)[w.at - 1] \in Nat
          BY <4>1, KeySums
        <4>3. w.kind.run = "chat" => w.tries <= Walk!KeySum(w.steps)[w.at - 1] + w.n
          BY <1>2 DEF AtPick
        <4> QED BY <1>4, <3>3, <4>1, <4>2, <4>3
      <3>5. OnStep(x)
        BY <1>2, <3>3, <3>4 DEF OnStep
      <3>6. Holding(x)
        BY <2>2, <3>2, <3>3 DEF Holding
      <3>7. Walk!_model_pool(x) = Walk!_model_pool(w)
        BY <3>3 DEF Walk!_model_pool
      <3>8. Fit(x, health, cool)
        BY <3>2, <3>3, <3>7 DEF Fit
      <3>9. LateOK(x, stop)
        <4>1. w.kind.run = "chat" => ~stop
          BY <1>13 DEF Walk!Stopped
        <4>2. w.late \in 0 .. 2
          BY <1>2, RecFields
        <4> QED BY <1>2, <3>3, <4>1, <4>2 DEF LateOK
      <3>10. WalkInv(x, health, cool, stop)
        BY <3>3, <3>5, <3>6, <3>8, <3>9 DEF WalkInv
      <3> QED BY <1>3, <3>10
    <2> QED BY <1>13, <2>1, <2>2
  <1> QED BY <1>2, <1>7, <1>11, <1>12, <1>13, NotSpent

(* The models of a step: its provider's, for a pinned chat the pinned one. *)
LEMMA PoolFacts ==
  ASSUME NEW w, OnStep(w)
  PROVE  LET pool == Walk!_model_pool(w)
             p == w.steps[w.at].prov
         IN  /\ pool \in Seq(Walk!Model) /\ Walk!Ran(pool) \subseteq Walk!ModelsOf(p)
             /\ w.kind.run = "chat" /\ w.kind.pin => \A m \in Walk!Ran(pool) : m = PinOf[p]
  <1> DEFINE pool == Walk!_model_pool(w)
             step == w.steps[w.at]
             p == step.prov
  <1>1. w \in WalkRec /\ WalkSteps(w.kind, w.steps) /\ w.at \in 1 .. Len(w.steps)
    BY DEF OnStep
  <1>2. StepOK(step)
    BY <1>1 DEF WalkSteps
  <1>3. p \in Provider /\ step.model \in Walk!Model \cup {None}
    BY <1>2 DEF StepOK, Walk!Step
  <1>4. pool = IF step.model # None THEN <<step.model>>
               ELSE IF w.kind.run = "chat" \/ Pool[p] = <<>> THEN Pool[p] ELSE <<Pool[p][1]>>
    BY Zenon DEF Walk!_model_pool
  <1>5. Pool[p] \in Seq(Walk!Model)
    BY <1>3, WalkAssumption
  <1>6. w.kind.run = "chat" /\ w.kind.pin => step.model # None /\ step.model = PinOf[p]
    BY <1>1 DEF WalkSteps, ChatOK
  <1>7. \A i \in 1 .. Len(Pool[p]) : Pool[p][i] \in Walk!ModelsOf(p)
    BY DEF Walk!ModelsOf, Walk!Ran
  <1>8. ASSUME NEW m \in Walk!Model
        PROVE  <<m>> \in Seq(Walk!Model) /\ Walk!Ran(<<m>>) = {m}
    <2>1. <<m>> \in Seq(Walk!Model) /\ Len(<<m>>) = 1 /\ <<m>>[1] = m /\ 1 .. 1 = {1}
      OBVIOUS
    <2> QED BY <2>1 DEF Walk!Ran
  <1> HIDE DEF pool, p
  <1>9. CASE step.model # None
    <2>1. step.model \in Walk!Model /\ step.model \in Walk!ModelsOf(p) /\ pool = <<step.model>>
      BY <1>2, <1>3, <1>4, <1>9 DEF StepOK, p
    <2>2. pool \in Seq(Walk!Model) /\ Walk!Ran(pool) = {step.model}
      BY <1>8, <2>1
    <2> QED BY <1>6, <2>1, <2>2 DEF pool, p
  <1>10. CASE step.model = None /\ (w.kind.run = "chat" \/ Pool[p] = <<>>)
    <2>1. pool = Pool[p]
      BY <1>4, <1>10
    <2>2. Walk!Ran(pool) \subseteq Walk!ModelsOf(p)
      BY <1>7, <2>1 DEF Walk!Ran
    <2> QED BY <1>5, <1>6, <1>10, <2>1, <2>2 DEF pool, p
  <1>11. CASE step.model = None /\ ~(w.kind.run = "chat" \/ Pool[p] = <<>>)
    <2>1. pool = <<Pool[p][1]>> /\ w.kind.run # "chat"
      BY <1>4, <1>11
    <2>2. 1 \in 1 .. Len(Pool[p])
      BY <1>5, <1>11
    <2>3. Pool[p][1] \in Walk!Model /\ Pool[p][1] \in Walk!ModelsOf(p)
      BY <1>5, <1>7, <2>2
    <2>4. pool \in Seq(Walk!Model) /\ Walk!Ran(pool) = {Pool[p][1]}
      BY <1>8, <2>1, <2>3
    <2> QED BY <2>1, <2>3, <2>4 DEF pool, p
  <1> QED BY <1>9, <1>10, <1>11

(* The rotation finds a model that is not cooling down if there is one.    *)
LEMMA RotateFacts ==
  ASSUME NEW pool \in Seq(Walk!Model), pool # <<>>, NEW k, NEW start \in 0 .. Len(pool) - 1
  PROVE  LET m == Walk!_rotate_model(pool, k, start)
         IN  /\ m \in Walk!Ran(pool)
             /\ (\E q \in Walk!Ran(pool) : q \notin cool[k]) => m \notin cool[k]
  <1> DEFINE L == Len(pool)
             at(i) == ((start + i) % L) + 1
             open == {i \in 0 .. L - 1 : pool[at(i)] \notin cool[k]}
             first == CHOOSE i \in open : \A j \in open : i <= j
             m == Walk!_rotate_model(pool, k, start)
  <1>1. L \in Nat \ {0} /\ start \in Nat /\ start + 1 \in 1 .. L /\ start <= L - 1
    OBVIOUS
  <1>2. m = IF L < 2 \/ open = {} THEN pool[start + 1] ELSE pool[at(first)]
    BY Zenon DEF Walk!_rotate_model
  <1>3. \A i \in 1 .. L : pool[i] \in Walk!Ran(pool)
    BY DEF Walk!Ran
  <1>4. \A i \in 0 .. L - 1 : at(i) \in 1 .. L
    <2> TAKE i \in 0 .. L - 1
    <2>1. start + i \in Int
      BY <1>1
    <2> DEFINE a == start + i
    <2> HIDE DEF a, L
    <2>2. a \in Int
      BY <2>1 DEF a
    <2>3. (a % L) \in 0 .. L - 1
      BY ONLY <1>1, <2>2
    <2>4. (a % L) + 1 \in 1 .. L
      BY ONLY <1>1, <2>3
    <2> QED BY <2>4 DEF a
  <1>5. ASSUME NEW x \in 1 .. L PROVE \E i \in 0 .. L - 1 : at(i) = x
    <2> HIDE DEF L
    <2> DEFINE a == x - 1
    <2>1. a \in 0 .. L - 1 /\ a + 1 = x
      BY <1>1
    <2> HIDE DEF a
    <2>2. a % L = a /\ (a + L) % L = a
      BY ONLY <1>1, <2>1
    <2>3. CASE a >= start
      <3>1. a - start \in 0 .. L - 1 /\ start + (a - start) = a
        BY <1>1, <2>1, <2>3
      <3> QED BY <2>1, <2>2, <3>1
    <2>4. CASE ~(a >= start)
      <3>1. a + L - start \in 0 .. L - 1 /\ start + (a + L - start) = a + L
        BY <1>1, <2>1, <2>4 DEF L
      <3> QED BY <2>1, <2>2, <3>1
    <2> QED BY <2>3, <2>4
  <1>6. open # {} => first \in open
    <2>1. open \in SUBSET Nat
      BY <1>1
    <2> HIDE DEF open
    <2>2. open # {} => \E i \in open : \A j \in open : i <= j
      BY <2>1, Least
    <2> QED BY <2>2
  <1>7. (\E q \in Walk!Ran(pool) : q \notin cool[k]) => open # {}
    <2> SUFFICES ASSUME NEW x \in 1 .. L, pool[x] \notin cool[k] PROVE open # {}
      BY DEF Walk!Ran
    <2>1. PICK i \in 0 .. L - 1 : at(i) = x
      BY <1>5
    <2>2. i \in open
      BY <2>1
    <2> QED BY <2>2
  <1>8. open # {} => first \in 0 .. L - 1 /\ pool[at(first)] \notin cool[k]
    BY <1>6
  <1> HIDE DEF open, first, m, at
  <1>9. m \in Walk!Ran(pool)
    BY <1>1, <1>2, <1>3, <1>4, <1>8
  <1>10. ASSUME NEW q \in Walk!Ran(pool), q \notin cool[k] PROVE m \notin cool[k]
    <2>1. CASE L < 2
      <3>1. L = 1 /\ start + 1 = 1 /\ 1 .. L = {1}
        <4> HIDE DEF L
        <4> QED BY ONLY <1>1, <2>1
      <3>2. q = pool[1] /\ m = pool[1]
        BY <1>2, <2>1, <3>1 DEF Walk!Ran
      <3> QED BY <1>10, <3>2
    <2>2. CASE ~(L < 2)
      BY <1>2, <1>7, <1>8, <1>10, <2>2
    <2> QED BY <2>1, <2>2
  <1> QED BY <1>9, <1>10 DEF m

(* A refused decision asks the free model on the key it holds; any other   *)
(* walk goes on.                                                           *)
LEMMA OrFallbackInv ==
  ASSUME NEW w, OnStep(w), Holding(w), Asks(w), NEW y, Follows(y, w), NEW hs, NEW cs, NEW halt,
         w.kind.run = "chat" => w.late <= 1 /\ (w.late = 1 => halt)
  PROVE  WalkInv(Walk!OrFallback(w, y), hs, cs, halt)
  <1> DEFINE x == Walk!OrFallback(w, y)
  <1>1. w \in WalkRec
    BY DEF OnStep
  <1>2. y \in WalkRec
    BY DEF Follows, AtPick, OnStep, Over
  <1>3. CASE ~(w.kind.run = "decision" /\ ~w.kind.pin)
    <2>1. x = y
      BY <1>3 DEF Walk!OrFallback
    <2> QED BY <2>1, FollowsInv
  <1>4. CASE w.kind.run = "decision" /\ ~w.kind.pin
    <2>1. x = [w EXCEPT !.phase = "fallback", !.capped = y.capped]
      BY <1>4 DEF Walk!OrFallback
    <2>2. y.capped \in BOOLEAN
      BY <1>2, RecFields
    <2> HIDE DEF x
    <2>3. /\ x \in WalkRec /\ x.phase = "fallback" /\ x.late = w.late /\ x.kind = w.kind
          /\ x.steps = w.steps /\ x.at = w.at /\ x.n = w.n /\ x.tier = w.tier
          /\ x.tries = w.tries /\ x.bad = w.bad /\ x.key = w.key /\ x.model = w.model
      BY <1>1, <2>1, <2>2 DEF WalkRec
    <2>4. OnStep(x) /\ Holding(x) /\ Asks(x) /\ x.kind.run # "chat"
      BY <1>4, <2>3 DEF OnStep, Holding, Asks
    <2>5. WalkInv(x, hs, cs, halt)
      BY <2>3, <2>4 DEF WalkInv, LateOK
    <2> QED BY <2>5 DEF x
  <1> QED BY <1>3, <1>4

(* The caps and the rotation of models come between the pick and the call. *)
LEMMA StartOK ==
  ASSUME WalkIInv, Walk!Start
  PROVE  WalkIInv'
  <1> USE DEF Walk!shared
  <1>1. PICK w : w = walk
    OBVIOUS
  <1> DEFINE pool == Walk!_model_pool(w)
             step == w.steps[w.at]
             p == step.prov
  <1>2. /\ w \in WalkRec /\ OnStep(w) /\ Holding(w) /\ Fit(w, health, cool) /\ SharedOK
        /\ LateOK(w, stop) /\ w.phase = "start"
    BY <1>1 DEF WalkIInv, WalkInv, Walk!Start
  <1>3. SharedOK' /\ UNCHANGED <<health, cool, hung, stop>>
    BY <1>2 DEF Walk!Start, SharedOK
  <1>4. /\ w.kind \in Kinds /\ w.steps \in Seq(Walk!Step) /\ w.n \in Nat /\ w.base \in Nat
        /\ w.late \in 0 .. 2 /\ w.excused \in BOOLEAN /\ w.key \in Key
    BY <1>2, RecFields DEF Holding
  <1>5. w.kind.run = "chat" => w.late = 0
    BY <1>2 DEF LateOK
  <1>6. PICK x : x = walk'
    OBVIOUS
  <1>7. LET ww == walk
            po == Walk!_model_pool(ww)
        IN  IF po = <<>> THEN walk' = Walk!NextStep(ww)
            ELSE \E b \in IF ww.base = 0 THEN 1 .. Len(po) ELSE {ww.base}, blind \in BOOLEAN :
               LET start == (b + ww.n) % Len(po)
                   m == IF blind THEN po[start + 1] ELSE Walk!_rotate_model(po, ww.key, start)
                   go == [ww EXCEPT !.base = b, !.model = m, !.excused = @ \/ blind]
               IN  \/ walk' = [go EXCEPT !.phase = "call",
                                     !.late = IF stop /\ @ < 2 THEN @ + 1 ELSE @]
                   \/ \E scope \in {"key", "project"} :
                        Walk!Refusable(ww) /\ walk' = Walk!OrFallback(go, Walk!Blocked(go, scope))
    BY Zenon DEF Walk!Start
  <1>8. SUFFICES WalkInv(x, health', cool', stop')
    BY <1>3, <1>6 DEF WalkIInv
  <1>9. CASE pool = <<>>
    <2>0. x = Walk!NextStep(w)
      BY <1>1, <1>6, <1>7, <1>9, Zenon
    <2>1. Follows(x, w)
      BY <1>2, <2>0, OnStepLeaves, NextStepOK
    <2>2. w.kind.run = "chat" => w.late <= 1 /\ (w.late = 1 => stop')
      BY <1>5
    <2> QED BY <2>1, <2>2, FollowsInv
  <1>10. CASE pool # <<>>
    <2>0. Walk!_model_pool(walk) # <<>>
      BY <1>1, <1>10
    <2>1. PICK b \in IF walk.base = 0 THEN 1 .. Len(Walk!_model_pool(walk)) ELSE {walk.base},
               blind \in BOOLEAN :
               LET po == Walk!_model_pool(walk)
                   start == (b + walk.n) % Len(po)
                   m == IF blind THEN po[start + 1] ELSE Walk!_rotate_model(po, walk.key, start)
                   go == [walk EXCEPT !.base = b, !.model = m, !.excused = @ \/ blind]
               IN  \/ walk' = [go EXCEPT !.phase = "call",
                                     !.late = IF stop /\ @ < 2 THEN @ + 1 ELSE @]
                   \/ \E scope \in {"key", "project"} :
                        Walk!Refusable(walk) /\ walk' = Walk!OrFallback(go, Walk!Blocked(go, scope))
      BY <1>7, <2>0, Zenon
    <2> DEFINE start == (b + w.n) % Len(pool)
               m == IF blind THEN pool[start + 1] ELSE Walk!_rotate_model(pool, w.key, start)
    <2>2. /\ pool \in Seq(Walk!Model) /\ Walk!Ran(pool) \subseteq Walk!ModelsOf(p)
          /\ w.kind.run = "chat" /\ w.kind.pin => \A q \in Walk!Ran(pool) : q = PinOf[p]
      BY <1>2, PoolFacts
    <2> HIDE DEF pool
    <2>3. Len(pool) \in Nat \ {0} /\ b \in Nat /\ b + w.n \in Int
      <3>1. b \in IF w.base = 0 THEN 1 .. Len(pool) ELSE {w.base}
        BY <1>1 DEF pool
      <3> QED BY <1>4, <1>10, <2>2, <3>1
    <2>4. start \in 0 .. Len(pool) - 1
      <3> DEFINE a == b + w.n
                 L == Len(pool)
      <3>1. a \in Int /\ L \in Nat \ {0}
        BY <2>3
      <3> HIDE DEF a, L
      <3>2. (a % L) \in 0 .. L - 1
        BY ONLY <3>1
      <3> QED BY <3>2 DEF a, L
    <2> HIDE DEF start
    <2>5. /\ Walk!_rotate_model(pool, w.key, start) \in Walk!Ran(pool)
          /\ (\E q \in Walk!Ran(pool) : q \notin cool[w.key]) =>
                Walk!_rotate_model(pool, w.key, start) \notin cool[w.key]
      BY <1>10, <2>2, <2>4, RotateFacts
    <2>6. start + 1 \in 1 .. Len(pool)
      BY <2>3, <2>4
    <2>7. pool[start + 1] \in Walk!Ran(pool)
      BY <2>6 DEF Walk!Ran
    <2>8. m \in Walk!Ran(pool)
      BY <2>5, <2>7
    <2>9. /\ m \in Walk!Model /\ m \in Walk!ModelsOf(p)
          /\ w.kind.run = "chat" /\ w.kind.pin => m = PinOf[p]
      <3>1. p \in Provider
        <4>1. step \in Walk!Step
          BY <1>2, <1>4 DEF OnStep
        <4> QED BY <4>1 DEF Walk!Step
      <3> QED BY <2>2, <2>8, <3>1 DEF Walk!Model
    <2>10. ~blind /\ (\E q \in Walk!Ran(pool) : q \notin cool[w.key]) => m \notin cool[w.key]
      BY <2>5
    <2> HIDE DEF m
    <2>11. PICK go : go = [w EXCEPT !.base = b, !.model = m, !.excused = @ \/ blind]
      OBVIOUS
    <2>12. /\ go \in WalkRec /\ go.kind = w.kind /\ go.steps = w.steps /\ go.at = w.at /\ go.n = w.n
           /\ go.tier = w.tier /\ go.degraded = w.degraded /\ go.capped = w.capped
           /\ go.tries = w.tries /\ go.bad = w.bad /\ go.late = w.late /\ go.key = w.key
           /\ go.model = m /\ (go.excused <=> w.excused \/ blind)
      <3>1. go \in WalkRec
        BY <1>2, <1>4, <2>3, <2>9, <2>11 DEF WalkRec
      <3>2. PICK c \in BOOLEAN : c = (w.excused \/ blind)
        BY <1>2, RecFields
      <3>3. go = [w EXCEPT !.base = b, !.model = m, !.excused = c] /\ w \in WalkRec
        BY <1>2, <2>11, <3>2
      <3>4. /\ go.kind = w.kind /\ go.steps = w.steps /\ go.at = w.at /\ go.n = w.n
            /\ go.tier = w.tier /\ go.degraded = w.degraded /\ go.capped = w.capped
        BY ONLY <3>3 DEF WalkRec
      <3>5. /\ go.tries = w.tries /\ go.bad = w.bad /\ go.late = w.late /\ go.key = w.key
            /\ go.model = m /\ go.excused = c
        BY ONLY <3>3 DEF WalkRec
      <3> QED BY <3>1, <3>2, <3>4, <3>5
    <2>13. OnStep(go) /\ Holding(go) /\ Asks(go)
      BY <1>2, <2>9, <2>12 DEF OnStep, Holding, Asks
    <2>14. \/ x = [go EXCEPT !.phase = "call", !.late = IF stop /\ @ < 2 THEN @ + 1 ELSE @]
           \/ \E scope \in {"key", "project"} : x = Walk!OrFallback(go, Walk!Blocked(go, scope))
      BY <1>1, <1>6, <2>1, <2>11, Zenon DEF m, start, pool
    <2>15. CASE x = [go EXCEPT !.phase = "call", !.late = IF stop /\ @ < 2 THEN @ + 1 ELSE @]
      <3> DEFINE l == IF stop /\ go.late < 2 THEN go.late + 1 ELSE go.late
      <3>1. x = [go EXCEPT !.phase = "call", !.late = l] /\ l \in 0 .. 2
        BY <1>4, <2>12, <2>15
      <3>2. w.kind.run = "chat" => l <= 1 /\ (l = 1 => stop)
        BY <1>5, <2>12
      <3> HIDE DEF l
      <3>3. /\ x \in WalkRec /\ x.phase = "call" /\ x.late = l /\ x.kind = go.kind
            /\ x.steps = go.steps /\ x.at = go.at /\ x.n = go.n
            /\ x.tier = go.tier /\ x.degraded = go.degraded /\ x.capped = go.capped
            /\ x.tries = go.tries /\ x.bad = go.bad /\ x.key = go.key
            /\ x.model = go.model /\ x.excused = go.excused
        BY <2>12, <3>1 DEF WalkRec
      <3>4. OnStep(x) /\ Holding(x) /\ Asks(x)
        BY <2>13, <3>3 DEF OnStep, Holding, Asks
      <3>5. LateOK(x, stop)
        BY <2>12, <3>2, <3>3 DEF LateOK
      <3>6. Fit(x, health, cool)
        <4> SUFFICES ASSUME ~x.excused
                     PROVE  /\ health[x.key] = "ok"
                            /\ x.kind.run # "decision" => x.model \notin cool[x.key]
          BY <3>3 DEF Fit
        <4>1. ~w.excused /\ ~blind
          BY <2>12, <3>3
        <4>2. /\ health[w.key] = "ok"
              /\ w.kind.run # "decision" => \E q \in Walk!Ran(pool) : q \notin cool[w.key]
          BY <1>2, <1>10, <4>1 DEF Fit, pool
        <4> QED BY <2>10, <2>12, <3>3, <4>1, <4>2
      <3>7. WalkInv(x, health, cool, stop)
        BY <3>3, <3>4, <3>5, <3>6 DEF WalkInv
      <3> QED BY <1>3, <3>7
    <2>16. ASSUME NEW scope \in {"key", "project"}, x = Walk!OrFallback(go, Walk!Blocked(go, scope))
           PROVE  WalkInv(x, health', cool', stop')
      <3>1. PICK y : y = Walk!Blocked(go, scope)
        OBVIOUS
      <3>2. Follows(y, go)
        BY <2>13, <3>1, BlockedOK
      <3>3. go.kind.run = "chat" => go.late <= 1 /\ (go.late = 1 => stop')
        BY <1>5, <2>12
      <3>4. x = Walk!OrFallback(go, y)
        BY <2>16, <3>1
      <3> QED BY <2>13, <3>2, <3>3, <3>4, OrFallbackInv
    <2> QED BY <2>14, <2>15, <2>16
  <1> QED BY <1>9, <1>10

(* An error penalises one key.                                             *)
LEMMA PenalizeFacts ==
  ASSUME SharedOK, NEW k \in Key, NEW m \in Walk!Model, NEW e, Walk!_penalize(k, m, e)
  PROVE  /\ health' \in [Key -> {"ok", "parked", "dead"}]
         /\ cool' \in [Key -> SUBSET Walk!Model] /\ hung' \subseteq Key
         /\ \A j \in Key \ {k} : health'[j] = health[j] /\ cool'[j] = cool[j]
  <1>1. health \in [Key -> {"ok", "parked", "dead"}] /\ cool \in [Key -> SUBSET Walk!Model] /\ hung \subseteq Key
    BY DEF SharedOK
  <1>2. hung' \subseteq Key
    BY <1>1 DEF Walk!_penalize
  <1>3. cool' \in [Key -> SUBSET Walk!Model] /\ \A j \in Key \ {k} : cool'[j] = cool[j]
    <2>1. cool' = cool \/ cool' = [cool EXCEPT ![k] = @ \cup {m}]
      BY DEF Walk!_penalize, Walk!mark_model_cooldown
    <2> QED BY <1>1, <2>1
  <1>4. health' \in [Key -> {"ok", "parked", "dead"}] /\ \A j \in Key \ {k} : health'[j] = health[j]
    <2>1. health' = health \/ health' = [health EXCEPT ![k] = "dead"]
          \/ health' = [health EXCEPT ![k] = IF @ = "dead" THEN "dead" ELSE "parked"]
      BY DEF Walk!_penalize, Walk!mark_cooldown
    <2> QED BY <1>1, <2>1
  <1> QED BY <1>2, <1>3, <1>4

(* A failed call penalises its key, and the walk goes on.                  *)
LEMMA CallErrorOK ==
  ASSUME WalkIInv, Walk!CallError
  PROVE  WalkIInv'
  <1>1. /\ walk \in WalkRec /\ OnStep(walk) /\ Holding(walk) /\ Asks(walk) /\ SharedOK
        /\ LateOK(walk, stop) /\ walk.phase = "call"
    BY DEF WalkIInv, WalkInv, Walk!CallError
  <1>2. PICK w : w = [walk EXCEPT !.other = TRUE]
    OBVIOUS
  <1>3. /\ w \in WalkRec /\ w.kind = walk.kind /\ w.steps = walk.steps /\ w.at = walk.at
        /\ w.n = walk.n /\ w.tier = walk.tier /\ w.degraded = walk.degraded
        /\ w.capped = walk.capped /\ w.tries = walk.tries /\ w.bad = walk.bad
        /\ w.late = walk.late /\ w.key = walk.key /\ w.model = walk.model
    BY <1>1, <1>2 DEF WalkRec
  <1>4. OnStep(w) /\ Holding(w) /\ Asks(w)
    BY <1>1, <1>3 DEF OnStep, Holding, Asks
  <1>5. PICK e \in {"timeout", "throttle", "quota", "tokens", "auth", "gone", "large", "error"} :
          LET v == [walk EXCEPT !.other = TRUE]
              leave == Walk!NextStep(v)
              on == Walk!NextKey(v)
              teach == Walk!TooLarge(e) /\ v.kind.run = "chat"
          IN  /\ IF e = "gone" THEN UNCHANGED <<health, cool, hung>> ELSE Walk!_penalize(v.key, v.model, e)
              /\ learned' = IF teach THEN learned \cup {ProvOf[v.key]} ELSE learned
              /\ walk' = Walk!OrFallback(v, IF v.kind.run = "decision" THEN on
                                            ELSE IF e = "gone" \/ teach THEN leave ELSE on)
    BY Zenon DEF Walk!CallError
  <1>6. PICK x : x = walk'
    OBVIOUS
  <1>7. x = Walk!OrFallback(w, Walk!NextStep(w)) \/ x = Walk!OrFallback(w, Walk!NextKey(w))
    <2>1. x = Walk!OrFallback(w, IF w.kind.run = "decision" THEN Walk!NextKey(w)
                                 ELSE IF e = "gone" \/ (Walk!TooLarge(e) /\ w.kind.run = "chat")
                                      THEN Walk!NextStep(w) ELSE Walk!NextKey(w))
      BY <1>2, <1>5, <1>6, Zenon
    <2> QED BY <2>1
  <1>8. Follows(Walk!NextStep(w), w) /\ Follows(Walk!NextKey(w), w)
    BY <1>4, OnStepLeaves, NextStepOK, NextKeyOK
  <1>9. UNCHANGED <<route, stop, moves>>
    BY DEF Walk!CallError
  <1>10. w.kind.run = "chat" => w.late <= 1 /\ (w.late = 1 => stop')
    BY <1>1, <1>3, <1>9 DEF LateOK
  <1>11. WalkInv(x, health', cool', stop')
    BY <1>4, <1>7, <1>8, <1>10, OrFallbackInv
  <1>12. w.key \in Key /\ ProvOf[w.key] \in Provider /\ w.model \in Walk!Model
    <2>1. w.key \in Key /\ ProvOf[w.key] \in Provider
      BY <1>4, WalkAssumption DEF Holding
    <2> QED BY <1>4, <2>1 DEF Asks, Walk!Model
  <1>13. /\ health' \in [Key -> {"ok", "parked", "dead"}]
         /\ cool' \in [Key -> SUBSET Walk!Model] /\ hung' \subseteq Key
    <2>1. IF e = "gone" THEN UNCHANGED <<health, cool, hung>> ELSE Walk!_penalize(w.key, w.model, e)
      BY <1>2, <1>5, Zenon
    <2>2. CASE e = "gone"
      BY <1>1, <2>1, <2>2 DEF SharedOK
    <2>3. CASE e # "gone"
      BY <1>1, <1>12, <2>1, <2>3, PenalizeFacts
    <2> QED BY <2>2, <2>3
  <1>14. learned' \subseteq Provider
    <2>1. learned' = IF Walk!TooLarge(e) /\ w.kind.run = "chat" THEN learned \cup {ProvOf[w.key]} ELSE learned
      BY <1>2, <1>5, Zenon
    <2> QED BY <1>1, <1>12, <2>1 DEF SharedOK
  <1>15. SharedOK'
    BY <1>1, <1>9, <1>13, <1>14 DEF SharedOK
  <1> QED BY <1>6, <1>11, <1>15 DEF WalkIInv

(* An answer that is refused puts its provider behind the walk.            *)
LEMMA RejectOK ==
  ASSUME WalkIInv, Walk!Reject
  PROVE  WalkIInv'
  <1> USE DEF Walk!shared
  <1>1. /\ walk \in WalkRec /\ OnStep(walk) /\ Holding(walk) /\ Asks(walk) /\ SharedOK
        /\ LateOK(walk, stop) /\ walk.phase = "call" /\ walk.kind.run = "chat"
    BY DEF WalkIInv, WalkInv, Walk!Reject
  <1>2. SharedOK' /\ UNCHANGED stop
    BY <1>1 DEF Walk!Reject, SharedOK
  <1>3. Leaving(walk)
    BY <1>1, OnStepLeaves
  <1>4. PICK v : v = [walk EXCEPT !.other = TRUE]
    OBVIOUS
  <1>5. PICK z : z = [walk EXCEPT !.bad = @ \cup {<<ProvOf[walk.key], walk.model>>}]
    OBVIOUS
  <1>6. PICK x : x = walk'
    OBVIOUS
  <1>7. x = Walk!NextStep(v) \/ x = Walk!NextStep(z)
    BY <1>4, <1>5, <1>6, Zenon DEF Walk!Reject, Walk!Hollow
  <1>8. Leaving(v) /\ v.late = walk.late /\ v.kind = walk.kind
    <2>1. /\ v \in WalkRec /\ v.kind = walk.kind /\ v.steps = walk.steps /\ v.at = walk.at
          /\ v.degraded = walk.degraded /\ v.capped = walk.capped /\ v.tries = walk.tries
          /\ v.bad = walk.bad /\ v.late = walk.late
      BY <1>1, <1>4 DEF WalkRec
    <2> QED BY <1>3, <2>1 DEF Leaving
  <1>9. Leaving(z) /\ z.late = walk.late /\ z.kind = walk.kind
    <2> DEFINE b == <<ProvOf[walk.key], walk.model>>
    <2>1. walk.key \in Key /\ ProvOf[walk.key] \in Provider
      BY <1>1, WalkAssumption DEF Holding
    <2>2. walk.model \in Walk!Model
      BY <1>1, <2>1 DEF Asks, Walk!Model
    <2>3. b \in Provider \X Walk!Model /\ b[1] = walk.steps[walk.at].prov
      BY <1>1, <2>1, <2>2 DEF Holding
    <2> HIDE DEF b
    <2>4. walk.bad \in SUBSET (Provider \X Walk!Model)
      BY <1>1, RecFields
    <2>5. PICK new : new = walk.bad \cup {b}
      OBVIOUS
    <2>6. new \in SUBSET (Provider \X Walk!Model)
      BY <2>3, <2>4, <2>5
    <2>7. z = [walk EXCEPT !.bad = new]
      BY <1>5, <2>5 DEF b
    <2>8. /\ z \in WalkRec /\ z.kind = walk.kind /\ z.steps = walk.steps /\ z.at = walk.at
          /\ z.degraded = walk.degraded /\ z.capped = walk.capped /\ z.tries = walk.tries
          /\ z.bad = new /\ z.late = walk.late
      BY <1>1, <2>6, <2>7 DEF WalkRec
    <2>9. walk.at \in 1 .. walk.at
      BY <1>1 DEF OnStep
    <2>10. \A c \in z.bad : \E i \in 1 .. z.at : z.steps[i].prov = c[1]
      BY <1>3, <2>3, <2>5, <2>8, <2>9 DEF Leaving
    <2> QED BY <1>1, <1>3, <2>8, <2>10 DEF Leaving
  <1>10. walk.late <= 1 /\ (walk.late = 1 => stop')
    BY <1>1, <1>2 DEF LateOK
  <1>11. WalkInv(x, health', cool', stop')
    <2>1. CASE x = Walk!NextStep(v)
      <3>1. Follows(x, v)
        BY <1>8, <2>1, NextStepOK
      <3> QED BY <1>8, <1>10, <3>1, FollowsInv
    <2>2. CASE x = Walk!NextStep(z)
      <3>1. Follows(x, z)
        BY <1>9, <2>2, NextStepOK
      <3> QED BY <1>9, <1>10, <3>1, FollowsInv
    <2> QED BY <1>7, <2>1, <2>2
  <1> QED BY <1>2, <1>6, <1>11 DEF WalkIInv

(* A success revives its key and harms none.                               *)
LEMMA RecoverFacts ==
  ASSUME NEW k \in Key, health \in [Key -> {"ok", "parked", "dead"}]
  PROVE  /\ Walk!Recover(k) \in [Key -> {"ok", "parked", "dead"}]
         /\ \A j \in Key : health[j] = "ok" => Walk!Recover(k)[j] = "ok"
  BY DEF Walk!Recover

(* A walk that holds a key may end with any verdict that is not a lack of  *)
(* capacity.                                                               *)
LEMMA HeldEnds ==
  ASSUME NEW w, OnStep(w), NEW r \in {"answer", "failed"}
  PROVE  Follows(Walk!End(w, r), w)
  <1>1. w \in WalkRec /\ w.at \in 1 .. Len(w.steps) /\ w.steps \in Seq(Walk!Step)
    BY RecFields DEF OnStep
  <1>2. r \in Walk!Result /\ r \notin {"none", "content"} /\ w.at \in 0 .. Len(w.steps) + 1
    BY <1>1 DEF Walk!Result
  <1> QED BY <1>1, <1>2, EndOK

(* An answer ends the walk.                                                *)
LEMMA SucceedOK ==
  ASSUME WalkIInv, Walk!Succeed
  PROVE  WalkIInv'
  <1>1. /\ walk \in WalkRec /\ OnStep(walk) /\ Holding(walk) /\ Asks(walk) /\ SharedOK
        /\ LateOK(walk, stop) /\ walk.phase = "call"
    BY DEF WalkIInv, WalkInv, Walk!Succeed
  <1>2. walk.key \in Key /\ ProvOf[walk.key] \in Provider
    BY <1>1, WalkAssumption DEF Holding
  <1>3. walk.model \in Walk!Model /\ walk.model \in Walk!ModelsOf(ProvOf[walk.key])
    BY <1>1, <1>2 DEF Asks, Walk!Model
  <1>4. SharedOK'
    <2>1. health' = Walk!Recover(walk.key) /\ UNCHANGED <<cool, hung, learned, stop, moves>>
          /\ (route' = route \/ route' = [key |-> walk.key, model |-> walk.model])
      BY DEF Walk!Succeed
    <2>2. health' \in [Key -> {"ok", "parked", "dead"}]
      BY <1>1, <1>2, <2>1, RecoverFacts DEF SharedOK
    <2>3. route' \in Walk!Target \cup {None}
      <3>1. [key |-> walk.key, model |-> walk.model] \in Walk!Target
        BY <1>2, <1>3 DEF Walk!Target
      <3> QED BY <1>1, <2>1, <3>1 DEF SharedOK
    <2> QED BY <1>1, <2>1, <2>2, <2>3 DEF SharedOK
  <1>5. PICK x : x = walk'
    OBVIOUS
  <1>6. Follows(x, walk)
    <2>1. x = Walk!End(walk, "answer")
      BY <1>5 DEF Walk!Succeed
    <2> QED BY <1>1, <2>1, HeldEnds
  <1>7. walk.kind.run = "chat" => walk.late <= 1 /\ (walk.late = 1 => stop')
    <2>1. UNCHANGED stop
      BY DEF Walk!Succeed
    <2> QED BY <1>1, <2>1 DEF LateOK
  <1>8. WalkInv(x, health', cool', stop')
    BY <1>6, <1>7, FollowsInv
  <1> QED BY <1>4, <1>5, <1>8 DEF WalkIInv

(* The free model of a refused decision answers or the walk goes on.       *)
LEMMA FallbackOK ==
  ASSUME WalkIInv, Walk!Fallback
  PROVE  WalkIInv'
  <1>1. /\ walk \in WalkRec /\ OnStep(walk) /\ Holding(walk) /\ SharedOK
        /\ LateOK(walk, stop) /\ walk.phase = "fallback"
    BY DEF WalkIInv, WalkInv, Walk!Fallback
  <1>2. walk.key \in Key
    BY <1>1 DEF Holding
  <1>3. SharedOK' /\ UNCHANGED stop
    <2>1. (health' = Walk!Recover(walk.key) \/ health' = health)
          /\ UNCHANGED <<cool, hung, learned, route, stop, moves>>
      BY DEF Walk!Fallback
    <2>2. health' \in [Key -> {"ok", "parked", "dead"}]
      BY <1>1, <1>2, <2>1, RecoverFacts DEF SharedOK
    <2> QED BY <1>1, <2>1, <2>2 DEF SharedOK
  <1>4. PICK x : x = walk'
    OBVIOUS
  <1>5. Follows(x, walk)
    <2>1. \/ x = Walk!End(walk, "answer") \/ x = Walk!End(walk, "failed") \/ x = Walk!NextKey(walk)
      BY <1>4 DEF Walk!Fallback
    <2> QED BY <1>1, <2>1, HeldEnds, NextKeyOK
  <1>6. walk.kind.run = "chat" => walk.late <= 1 /\ (walk.late = 1 => stop')
    BY <1>1, <1>3 DEF LateOK
  <1>7. WalkInv(x, health', cool', stop')
    BY <1>5, <1>6, FollowsInv
  <1> QED BY <1>3, <1>4, <1>7 DEF WalkIInv

(* What others do leaves the walk's record as it is, but for the excuse.   *)
LEMMA TouchedInv ==
  ASSUME NEW w, NEW hs, NEW cs, NEW halt, WalkInv(w, hs, cs, halt),
         NEW x, NEW g \in BOOLEAN, x = [w EXCEPT !.excused = @ \/ g],
         NEW hs2, NEW cs2, NEW halt2, halt => halt2,
         ~g => \A k \in Key : k = w.key => (hs[k] = "ok" => hs2[k] = "ok") /\ cs2[k] \subseteq cs[k]
  PROVE  WalkInv(x, hs2, cs2, halt2)
  <1>1. w \in WalkRec /\ w.excused \in BOOLEAN
    BY RecFields DEF WalkInv
  <1>2. /\ x \in WalkRec /\ x.phase = w.phase /\ x.late = w.late /\ x.kind = w.kind
        /\ x.steps = w.steps /\ x.at = w.at /\ x.n = w.n /\ x.tier = w.tier
        /\ x.tries = w.tries /\ x.bad = w.bad /\ x.key = w.key /\ x.model = w.model
        /\ x.capped = w.capped /\ x.degraded = w.degraded /\ (x.excused <=> w.excused \/ g)
        /\ x.result = w.result /\ x.cut = w.cut
    <2>1. PICK b \in BOOLEAN : b = (w.excused \/ g)
      BY <1>1
    <2>2. x = [w EXCEPT !.excused = b]
      BY <2>1
    <2>3. x \in WalkRec /\ x.excused = b
      BY ONLY <1>1, <2>1, <2>2 DEF WalkRec
    <2>4. /\ x.phase = w.phase /\ x.late = w.late /\ x.kind = w.kind /\ x.steps = w.steps
          /\ x.at = w.at /\ x.n = w.n /\ x.tier = w.tier
      BY ONLY <1>1, <2>2 DEF WalkRec
    <2>5. /\ x.tries = w.tries /\ x.bad = w.bad /\ x.key = w.key /\ x.model = w.model
          /\ x.capped = w.capped /\ x.degraded = w.degraded
          /\ x.result = w.result /\ x.cut = w.cut
      BY ONLY <1>1, <2>2 DEF WalkRec
    <2> QED BY <2>1, <2>3, <2>4, <2>5
  <1>3. LateOK(x, halt2)
    BY <1>2 DEF WalkInv, LateOK
  <1>4. x.phase = "idle" => Idle(x)
    BY <1>2 DEF WalkInv, Idle
  <1>5. OnStep(w) => OnStep(x)
    BY <1>2 DEF OnStep
  <1>6. x.phase = "pick" => AtPick(x)
    BY <1>2, <1>5 DEF WalkInv, AtPick
  <1>7. x.phase = "done" => Over(x)
    BY <1>2 DEF WalkInv, Over
  <1>8. x.phase \in {"start", "call", "fallback"} => OnStep(x) /\ Holding(x)
    BY <1>2, <1>5 DEF WalkInv, Holding
  <1>9. x.phase \in {"call", "fallback"} => Asks(x)
    BY <1>2 DEF WalkInv, Asks
  <1>10. x.phase \in {"start", "call"} => Fit(x, hs2, cs2)
    <2> SUFFICES ASSUME x.phase \in {"start", "call"} PROVE Fit(x, hs2, cs2)
      OBVIOUS
    <2>1. Fit(w, hs, cs) /\ w.key \in Key
      BY <1>2 DEF WalkInv, Holding
    <2>2. Walk!_model_pool(x) = Walk!_model_pool(w)
      BY <1>2 DEF Walk!_model_pool
    <2>3. CASE x.excused
      BY <2>3 DEF Fit
    <2>4. CASE ~x.excused
      <3>1. ~w.excused /\ ~g
        BY <1>2, <2>4
      <3>2. (hs[w.key] = "ok" => hs2[w.key] = "ok") /\ cs2[w.key] \subseteq cs[w.key]
        BY <2>1, <3>1
      <3> QED BY <1>2, <2>1, <2>2, <3>1, <3>2 DEF Fit
    <2> QED BY <1>2, <2>3, <2>4
  <1> QED BY <1>2, <1>3, <1>4, <1>6, <1>7, <1>8, <1>9, <1>10 DEF WalkInv

(* The same when the record does not change at all.                        *)
LEMMA UntouchedInv ==
  ASSUME NEW w, NEW hs, NEW cs, NEW halt, WalkInv(w, hs, cs, halt),
         NEW hs2, NEW cs2, NEW halt2, halt => halt2,
         \A k \in Key : (hs[k] = "ok" => hs2[k] = "ok") /\ cs2[k] \subseteq cs[k]
  PROVE  WalkInv(w, hs2, cs2, halt2)
  <1>1. w \in WalkRec
    BY DEF WalkInv
  <1>2. PICK g \in BOOLEAN : ~g
    OBVIOUS
  <1>3. w = [w EXCEPT !.excused = @ \/ g]
    BY <1>1, <1>2 DEF WalkRec
  <1>4. \A k \in Key : k = w.key => (hs[k] = "ok" => hs2[k] = "ok") /\ cs2[k] \subseteq cs[k]
    OBVIOUS
  <1>5. WalkInv(w, hs, cs, halt) /\ (halt => halt2)
    OBVIOUS
  <1> QED BY ONLY <1>3, <1>4, <1>5, g \in BOOLEAN, TouchedInv

(* Other walks, the sweeps and a cancel change the keys' state and at most *)
(* excuse the call in flight.                                              *)
LEMMA OthersOK ==
  ASSUME WalkIInv, Walk!Others
  PROVE  WalkIInv'
  <1>1. SharedOK /\ WalkInv(walk, health, cool, stop)
    BY DEF WalkIInv
  <1>2. moves' \in 0 .. Meddle
    <2>1. moves \in 0 .. Meddle /\ moves < Meddle /\ moves' = moves + 1 /\ Meddle \in Nat
      BY <1>1, WalkAssumption DEF Walk!Others, SharedOK
    <2> QED BY <2>1
  <1>3. /\ health \in [Key -> {"ok", "parked", "dead"}] /\ cool \in [Key -> SUBSET Walk!Model]
        /\ hung \subseteq Key /\ learned \subseteq Provider /\ route \in Walk!Target \cup {None}
        /\ stop \in BOOLEAN
    BY <1>1 DEF SharedOK
  <1>4. CASE Walk!OtherError
    <2>1. PICK k \in Key, e \in {"timeout", "throttle", "quota", "auth"} :
            \E m \in Walk!ModelsOf(ProvOf[k]) :
              /\ Walk!_penalize(k, m, e) /\ Walk!Touch(k)
              /\ UNCHANGED <<learned, route, stop>>
      BY <1>4, Zenon DEF Walk!OtherError
    <2>2. PICK m \in Walk!ModelsOf(ProvOf[k]) :
              /\ Walk!_penalize(k, m, e) /\ Walk!Touch(k)
              /\ UNCHANGED <<learned, route, stop>>
      BY <2>1
    <2>3. m \in Walk!Model
      BY WalkAssumption DEF Walk!Model
    <2>4. /\ health' \in [Key -> {"ok", "parked", "dead"}]
          /\ cool' \in [Key -> SUBSET Walk!Model] /\ hung' \subseteq Key
          /\ \A j \in Key \ {k} : health'[j] = health[j] /\ cool'[j] = cool[j]
      BY <1>1, <2>2, <2>3, PenalizeFacts
    <2>5. SharedOK'
      BY <1>2, <1>3, <2>2, <2>4 DEF SharedOK
    <2>6. PICK x : x = walk'
      OBVIOUS
    <2>7. PICK g \in BOOLEAN : g <=> walk.key = k
      OBVIOUS
    <2>8. x = [walk EXCEPT !.excused = @ \/ g]
      <3>1. x = [walk EXCEPT !.excused = @ \/ walk.key = k]
        BY <2>2, <2>6 DEF Walk!Touch
      <3>2. (walk.key = k) = g
        BY <2>7
      <3>3. g \in BOOLEAN
        BY <2>7
      <3> QED BY <3>1, <3>2
    <2>9. ~g => \A j \in Key : j = walk.key =>
            (health[j] = "ok" => health'[j] = "ok") /\ cool'[j] \subseteq cool[j]
      BY <2>4, <2>7
    <2>10. stop => stop'
      BY <2>2
    <2>11. WalkInv(x, health', cool', stop')
      BY <1>1, <2>7, <2>8, <2>9, <2>10, TouchedInv
    <2> QED BY <2>5, <2>6, <2>11 DEF WalkIInv
  <1>5. CASE walk' = walk /\ UNCHANGED <<learned, route>> /\ (stop => stop') /\ stop' \in BOOLEAN
             /\ health' \in [Key -> {"ok", "parked", "dead"}]
             /\ cool' \in [Key -> SUBSET Walk!Model] /\ hung' \subseteq Key
             /\ \A j \in Key : (health[j] = "ok" => health'[j] = "ok") /\ cool'[j] \subseteq cool[j]
    <2>1. SharedOK'
      BY <1>2, <1>3, <1>5 DEF SharedOK
    <2>2. WalkInv(walk, health', cool', stop')
      BY <1>1, <1>5, UntouchedInv
    <2>3. PICK x : x = walk
      OBVIOUS
    <2>4. WalkInv(x, health', cool', stop') /\ walk' = x
      BY <1>5, <2>2, <2>3
    <2> QED BY <2>1, <2>4 DEF WalkIInv
  <1>6. CASE Walk!Revive
    <2>1. PICK k \in Key : /\ health[k] = "dead" /\ health' = [health EXCEPT ![k] = "ok"]
                           /\ UNCHANGED <<cool, hung, learned, route, stop, walk>>
      BY <1>6 DEF Walk!Revive
    <2> QED BY <1>3, <1>5, <2>1
  <1>7. CASE Walk!Expire /\ UNCHANGED <<learned, route, stop, walk>>
    <2>1. CASE \E k \in Key : health[k] = "parked" /\ health' = Walk!Recover(k) /\ UNCHANGED <<cool, hung>>
      <3>1. PICK k \in Key : health' = Walk!Recover(k) /\ UNCHANGED <<cool, hung>>
        BY <2>1
      <3> QED BY <1>3, <1>5, <1>7, <3>1, RecoverFacts
    <2>2. CASE \E k \in Key : \E m \in cool[k] : /\ cool' = [cool EXCEPT ![k] = @ \ {m}]
                                                 /\ UNCHANGED <<health, hung>>
      <3>1. PICK k \in Key : \E m \in cool[k] : /\ cool' = [cool EXCEPT ![k] = @ \ {m}]
                                                /\ UNCHANGED <<health, hung>>
        BY <2>2
      <3> QED BY <1>3, <1>5, <1>7, <3>1
    <2>3. CASE \E k \in hung : hung' = hung \ {k} /\ UNCHANGED <<health, cool>>
      BY <1>3, <1>5, <1>7, <2>3
    <2> QED BY <1>7, <2>1, <2>2, <2>3 DEF Walk!Expire
  <1>8. CASE Walk!Cancel
    BY <1>3, <1>5, <1>8 DEF Walk!Cancel
  <1> QED BY <1>4, <1>6, <1>7, <1>8 DEF Walk!Others

(* Every step of a walk keeps the invariant.                               *)
LEMMA WalkInvStep ==
  ASSUME WalkIInv, Walk!Next
  PROVE  WalkIInv'
  BY BeginOK, PickOK, StartOK, CallErrorOK, RejectOK, SucceedOK, FallbackOK, OthersOK DEF Walk!Next

(* Steps of the other components leave the walk alone.                     *)
LEMMA WalkInvStutter ==
  ASSUME WalkIInv, UNCHANGED walkVars
  PROVE  WalkIInv'
  <1>1. /\ health' = health /\ cool' = cool /\ hung' = hung /\ learned' = learned /\ route' = route
        /\ stop' = stop /\ moves' = moves /\ walk' = walk
    BY DEF walkVars
  <1>2. SharedOK'
    BY <1>1 DEF WalkIInv, SharedOK
  <1>3. WalkInv(walk, health, cool, stop)
    BY DEF WalkIInv
  <1>4. PICK x, h, c, t : x = walk /\ h = health /\ c = cool /\ t = stop
    OBVIOUS
  <1>5. WalkInv(x, h, c, t)
    BY <1>3, <1>4
  <1>6. walk' = x /\ health' = h /\ cool' = c /\ stop' = t
    BY <1>1, <1>4
  <1> QED BY <1>2, <1>5, <1>6 DEF WalkIInv

(* WalkIInv is kept along every behaviour that is about the walk.          *)
LEMMA WalkAlong == SpecAll => [](which = "walk" => WalkIInv)
  <1>1. InitAll => (which = "walk" => WalkIInv)
    BY WalkInvInit DEF InitAll
  <1>2. (which = "walk" => WalkIInv) /\ [NextAll]_allVars => (which = "walk" => WalkIInv)'
    <2> SUFFICES ASSUME which = "walk" => WalkIInv, [NextAll]_allVars, which' = "walk"
                 PROVE  WalkIInv'
      OBVIOUS
    <2>1. CASE Asking
      BY <2>1, WalkInvStep DEF Asking
    <2>2. CASE Queueing \/ Dispatching \/ Reading \/ FileKeeping
      BY <2>2 DEF Queueing, Dispatching, Reading, FileKeeping
    <2>3. CASE UNCHANGED allVars
      <3>1. which' = which /\ UNCHANGED walkVars
        BY <2>3 DEF allVars
      <3> QED BY <3>1, WalkInvStutter
    <2> QED BY <2>1, <2>2, <2>3 DEF NextAll
  <1> QED BY <1>1, <1>2, PTL DEF SpecAll

(* A walk over providers (services/llm_service.py, services/attempt.py)    *)
(* calls only what the request, the caps and the state of the keys allow:  *)
(* a pinned request gets its model, a capped one free keys, a free head no *)
(* bill, a key nothing while it is parked; it gives up only when it has    *)
(* asked everybody and no later than one call after its cancel. For every  *)
(* chain, keys, models, requests and whatever others do meanwhile.         *)
THEOREM WalksSound == SpecAll => []WalkSound
  <1>1. (which = "walk" => WalkIInv) => WalkSound
    BY WalkInvImplies DEF WalkSound, WalkTypeOK, PinnedModelOnly, NoPaidAfterCapped, FreeFirst,
       ParkedNotCalled, EveryStepTaken, CancelCostsOneAttempt, ContentRetriedOnce
  <1> QED BY <1>1, WalkAlong, PTL
=============================================================================
