------------------------------ MODULE JobQueue ------------------------------
(***************************************************************************)
(* The asynchronous job queue: the deep_jobs table, the dispatcher every   *)
(* web worker runs over it, and the execution of one claimed job.          *)
(*                                                                         *)
(*   services/job_queue.py    claim, execute, requeue, stale sweep,        *)
(*                            graceful shutdown, retention                 *)
(*   services/deep_jobs.py    submit and the terminal write (_finish)      *)
(*   services/job_control.py  cancel and the cancel flag                   *)
(*   services/llm_service.py  the loop head of run_chat / run_transcribe   *)
(*   main.py                  start and stop of a worker process           *)
(*                                                                         *)
(* A row is what the database holds; a task is one execution of a claimed  *)
(* row inside one process and knows only the values its claim returned.    *)
(* Every database statement is one action; between two of them any other   *)
(* process may act. `started_at' is the number of the claim that wrote it  *)
(* (0 is NULL): the timestamp of a claim identifies it.                    *)
(*                                                                         *)
(* Time is discrete. A running row ages; a task that is still walking has  *)
(* its own clock and is bounded by the timeouts the code sets. A task that *)
(* only has its outcome left to record is NOT bounded: its statement may   *)
(* reach the database arbitrarily late.                                    *)
(***************************************************************************)
EXTENDS Integers, FiniteSets

CONSTANTS
  Job,                \* rows a client may submit
  Transcription,      \* the jobs whose capability is "transcription"
  Worker,             \* web worker processes, each with one dispatcher
  Nobody,             \* host of a task that does not exist
  MaxRetries,         \* _MAX_RETRIES
  MaxContentRetries,  \* _MAX_CONTENT_RETRIES
  StaleRunning,       \* _STALE_RUNNING_S
  WalkBudget,         \* per job: _CHAT_WALL_DEADLINE_S / _DEEP_FINISH_BY_S
  CallTimeout,        \* per job: _call_timeout of its capability
  StartSlack,         \* a claimed task begins its walk within this time
  AttemptSlack,       \* an attempt's own bookkeeping around the call
  AttemptCap,         \* _attempt_budget: key slots of the walk
  MaxConcurrency,     \* _MAX_CONCURRENCY
  MaxClaims,          \* bound: claims of one job
  MaxRestarts         \* bound: crashes and stops of worker processes

ASSUME SetsAssumption == Transcription \subseteq Job /\ Nobody \notin Worker

ASSUME WorkersAssumption == IsFiniteSet(Worker)

ASSUME RetryAssumption ==
  /\ MaxRetries \in Nat /\ MaxContentRetries \in 0 .. MaxRetries
  /\ AttemptCap \in Nat /\ MaxConcurrency \in Nat
  /\ MaxClaims \in Nat /\ MaxRestarts \in Nat

ASSUME TimeoutAssumption ==
  /\ StaleRunning \in Nat /\ StartSlack \in Nat /\ AttemptSlack \in Nat
  /\ WalkBudget \in [Job -> Nat] /\ CallTimeout \in [Job -> Nat]

(* The margin the comments at _STALE_RUNNING_S and _DEEP_WALL_DEADLINE_S   *)
(* argue for: the longest a live walk can last fits in the stale window.   *)
ASSUME MarginAssumption ==
  \A j \in Job : StartSlack + WalkBudget[j] + AttemptSlack <= StaleRunning

VARIABLES
  row,        \* deep_jobs: one row per job
  claims,     \* how often each job was claimed; the source of started_at
  task,       \* task[j][k]: the execution created by claim k of job j
  proc,       \* life cycle of each worker process
  held,       \* _CLAIMED of each process: job -> started_at (0: no entry)
  restarts,   \* stops and crashes so far (bounded by MaxRestarts)
  handbacks,  \* history: times a stopping process gave the job back
  late        \* history: attempts begun after the client's cancel

vars == <<row, claims, task, proc, held, restarts, handbacks, late>>

Claim == 1 .. MaxClaims
Terminal == {"done", "error", "cancelled"}
Status == {"none", "pending", "running", "purged"} \cup Terminal
Walking == {"claimed", "walk", "gate", "call"}
Settling == Terminal \cup {"requeue", "defer"}
Phase == {"idle"} \cup Walking \cup Settling

Row == [status : Status, started_at : 0 .. MaxClaims,
        retry_count : 0 .. MaxRetries + 1, deferred : BOOLEAN,
        cancel_requested : BOOLEAN, audio : BOOLEAN, age : 0 .. StaleRunning + 1]

Task == [phase : Phase, host : Worker \cup {Nobody},
         retry : 0 .. MaxRetries + 1, cancel : BOOLEAN, limit : 0 .. MaxRetries,
         clock : Nat, finish_by : Nat, due : Nat, slot : 0 .. AttemptCap,
         fails : {"none", "content", "other"}]

NoRow == [status |-> "none", started_at |-> 0, retry_count |-> 0, deferred |-> FALSE,
          cancel_requested |-> FALSE, audio |-> FALSE, age |-> 0]

IdleTask == [phase |-> "idle", host |-> Nobody, retry |-> 0, cancel |-> FALSE,
             limit |-> 0, clock |-> 0, finish_by |-> 0, due |-> 0, slot |-> 0, fails |-> "none"]

TypeOK ==
  /\ row \in [Job -> Row]
  /\ claims \in [Job -> 0 .. MaxClaims]
  /\ task \in [Job -> [Claim -> Task]]
  /\ proc \in [Worker -> {"up", "stopping", "releasing", "down"}]
  /\ held \in [Worker -> [Job -> 0 .. MaxClaims]]
  /\ restarts \in 0 .. MaxRestarts
  /\ handbacks \in [Job -> Nat]
  /\ late \in [Job -> Nat]

Init ==
  /\ row = [j \in Job |-> NoRow]
  /\ claims = [j \in Job |-> 0]
  /\ task = [j \in Job |-> [k \in Claim |-> IdleTask]]
  /\ proc = [w \in Worker |-> "up"]
  /\ held = [w \in Worker |-> [j \in Job |-> 0]]
  /\ restarts = 0
  /\ handbacks = [j \in Job |-> 0]
  /\ late = [j \in Job |-> 0]

SetRow(j, r) == row' = [row EXCEPT ![j] = r]
SetTask(j, k, t) == task' = [task EXCEPT ![j][k] = t]

-----------------------------------------------------------------------------
(* Clients                                                                 *)

(* A new row. The lookups that make submission idempotent are JobSubmit's. *)
Submit(j) ==
  /\ row[j].status = "none"
  /\ SetRow(j, [NoRow EXCEPT !.status = "pending", !.audio = (j \in Transcription)])
  /\ UNCHANGED <<claims, task, proc, held, restarts, handbacks, late>>

(* FOR UPDATE makes the read and the write of the row one step; a terminal *)
(* row is left alone.                                                      *)
Cancel(j) ==
  /\ \/ /\ row[j].status = "pending"
        /\ SetRow(j, [row[j] EXCEPT !.status = "cancelled", !.audio = FALSE])
     \/ /\ row[j].status = "running"
        /\ SetRow(j, [row[j] EXCEPT !.cancel_requested = TRUE])
  /\ UNCHANGED <<claims, task, proc, held, restarts, handbacks, late>>

-----------------------------------------------------------------------------
(* The dispatcher of one process                                           *)

InFlight(w) ==
  {p \in Job \X Claim : task[p[1]][p[2]].phase # "idle" /\ task[p[1]][p[2]].host = w}

(* FOR UPDATE SKIP LOCKED: rows another transaction holds are passed over, *)
(* so a batch is any set of eligible rows, whatever their priorities.      *)
ClaimableBatch(w, S) ==
  /\ proc[w] = "up"
  /\ S # {}
  /\ \A j \in S : row[j].status = "pending" /\ ~row[j].deferred
  /\ Cardinality(S) <= MaxConcurrency - Cardinality(InFlight(w))
  /\ \A j \in S : claims[j] < MaxClaims

ClaimRows(S) ==
  /\ row' = [j \in Job |->
       IF j \in S THEN [row[j] EXCEPT !.status = "running", !.started_at = claims[j] + 1,
                                      !.age = 0]
                  ELSE row[j]]
  /\ claims' = [j \in Job |-> IF j \in S THEN claims[j] + 1 ELSE claims[j]]

(* RETURNING hands the task the row as it was claimed.                     *)
NewTask(w, r) ==
  [IdleTask EXCEPT !.phase = "claimed", !.host = w, !.retry = r.retry_count,
                   !.cancel = r.cancel_requested]

ClaimBatch(w, S) ==
  /\ ClaimableBatch(w, S)
  /\ ClaimRows(S)
  /\ task' = [j \in Job |-> [k \in Claim |->
       IF j \in S /\ k = claims[j] + 1 THEN NewTask(w, row[j]) ELSE task[j][k]]]
  /\ held' = [held EXCEPT ![w] = [j \in Job |->
       IF j \in S THEN claims[j] + 1 ELSE held[w][j]]]
  /\ UNCHANGED <<proc, restarts, handbacks, late>>

(* The claim commits but the tick fails (connection lost on the reply): no *)
(* task exists for the rows.                                               *)
ClaimReplyLost(w, S) ==
  /\ ClaimableBatch(w, S)
  /\ ClaimRows(S)
  /\ UNCHANGED <<task, proc, held, restarts, handbacks, late>>

Stale_late(r) == r.status = "running" /\ r.age > StaleRunning + 1

Stale(r) == r.status = "running" /\ r.age > StaleRunning

Reclaimed_unbounded(r) ==
  [r EXCEPT !.status = "pending", !.started_at = 0, !.age = 0,
            !.retry_count = r.retry_count + 1]

Reclaimed(r) ==
  [r EXCEPT !.status = IF r.retry_count + 1 > MaxRetries THEN "error" ELSE "pending",
            !.started_at = 0, !.age = 0, !.retry_count = r.retry_count + 1]

RequeueStaleRunning(w) ==
  /\ proc[w] = "up"
  /\ \E j \in Job : Stale(row[j])
  /\ row' = [j \in Job |-> IF Stale(row[j]) THEN Reclaimed(row[j]) ELSE row[j]]
  /\ UNCHANGED <<claims, task, proc, held, restarts, handbacks, late>>

(* Retention deletes a terminal row; no statement finds it afterwards.     *)
PurgeFinished(j) ==
  /\ \E w \in Worker : proc[w] = "up"
  /\ row[j].status \in Terminal
  /\ SetRow(j, [NoRow EXCEPT !.status = "purged"])
  /\ UNCHANGED <<claims, task, proc, held, restarts, handbacks, late>>

-----------------------------------------------------------------------------
(* Execution of a claimed job                                              *)

Settle(t, ph) == [t EXCEPT !.phase = ph, !.clock = 0, !.finish_by = 0, !.due = 0,
                           !.slot = 0, !.fails = "none"]

(* The call to _requeue_or_fail with the retry limit of this outcome.      *)
GiveBack(t, limit) == [Settle(t, "requeue") EXCEPT !.limit = limit]

(* _execute up to the first provider: a missing project, a cancel seen by  *)
(* the claim, a request no retry can fix, a cached answer, a failed lookup *)
(* of the walk, or the walk itself.                                        *)
Begin(j, k) ==
  LET t == task[j][k] IN
  /\ t.phase = "claimed"
  /\ \/ SetTask(j, k, Settle(t, "error"))
     \/ t.cancel /\ SetTask(j, k, Settle(t, "cancelled"))
     \/ ~t.cancel /\ j \notin Transcription /\ SetTask(j, k, Settle(t, "done"))
     \/ ~t.cancel /\ SetTask(j, k, GiveBack(t, MaxRetries))
     \/ ~t.cancel /\ SetTask(j, k, [t EXCEPT !.phase = "walk",
                                            !.finish_by = t.clock + WalkBudget[j]])
  /\ UNCHANGED <<row, claims, proc, held, restarts, handbacks, late>>

PollStop_once(j, k) ==
  LET t == task[j][k] IN
  /\ t.phase = "walk"
  /\ SetTask(j, k, IF j \notin Transcription /\ t.slot = 0 /\ row[j].cancel_requested
                     THEN Settle(t, "cancelled")
                   ELSE IF t.slot = AttemptCap THEN GiveBack(t, MaxRetries)
                   ELSE [t EXCEPT !.phase = "gate"])
  /\ UNCHANGED <<row, claims, proc, held, restarts, handbacks, late>>

(* The loop head: should_stop is polled before every attempt of a chat     *)
(* walk (run_transcribe has no such poll), then the attempt cap applies.   *)
PollStop(j, k) ==
  LET t == task[j][k] IN
  /\ t.phase = "walk"
  /\ SetTask(j, k, IF j \notin Transcription /\ row[j].cancel_requested
                     THEN Settle(t, "cancelled")
                   ELSE IF t.slot = AttemptCap THEN GiveBack(t, MaxRetries)
                   ELSE [t EXCEPT !.phase = "gate"])
  /\ UNCHANGED <<row, claims, proc, held, restarts, handbacks, late>>

CanFinish_startBy(j, t) == t.clock <= t.finish_by

(* The finish-by gate: now + call_timeout <= finish_by.                    *)
CanFinish(j, t) == t.clock + CallTimeout[j] <= t.finish_by

(* Past the gate a key is picked and the attempt begins, or the provider   *)
(* has no key left and the walk moves on.                                  *)
TryKey(j, k) ==
  LET t == task[j][k] IN
  /\ t.phase = "gate"
  /\ \/ /\ ~CanFinish(j, t)
        /\ SetTask(j, k, GiveBack(t, MaxRetries))
        /\ UNCHANGED late
     \/ /\ CanFinish(j, t)
        /\ SetTask(j, k, [t EXCEPT !.phase = "walk", !.slot = t.slot + 1])
        /\ UNCHANGED late
     \/ /\ CanFinish(j, t)
        /\ SetTask(j, k, [t EXCEPT !.phase = "call", !.slot = t.slot + 1,
                                   !.due = t.clock + CallTimeout[j] + AttemptSlack])
        /\ late' = [late EXCEPT ![j] = @ + (IF row[j].cancel_requested THEN 1 ELSE 0)]
  /\ UNCHANGED <<row, claims, proc, held, restarts, handbacks>>

(* An answer, a spent budget (final for a chat job only), or a failure:    *)
(* fails is "content" while only bad answers were seen, "other" for good   *)
(* after any other failure.                                                *)
AttemptEnds(j, k) ==
  LET t == task[j][k] IN
  /\ t.phase = "call"
  /\ \/ SetTask(j, k, Settle(t, "done"))
     \/ j \notin Transcription /\ SetTask(j, k, Settle(t, "error"))
     \/ SetTask(j, k, [t EXCEPT !.phase = "walk", !.due = 0, !.fails = "other"])
     \/ /\ j \notin Transcription /\ t.fails # "other"
        /\ SetTask(j, k, [t EXCEPT !.phase = "walk", !.due = 0, !.fails = "content"])
  /\ UNCHANGED <<row, claims, proc, held, restarts, handbacks, late>>

(* An exception out of the walk: ValueError, TypeError, KeyError are final,*)
(* any other (TranscribeFailed, a database error) is retried.              *)
WalkRaises(j, k) ==
  LET t == task[j][k] IN
  /\ t.phase \in {"walk", "gate", "call"}
  /\ \/ SetTask(j, k, Settle(t, "error"))
     \/ SetTask(j, k, GiveBack(t, MaxRetries))
  /\ UNCHANGED <<row, claims, proc, held, restarts, handbacks, late>>

(* No step of the chain is left (a provider may end its slots early). Only *)
(* bad answers and nothing else is CONTENT_FAILED, with its own limit.     *)
ChainExhausted(j, k) ==
  LET t == task[j][k] IN
  /\ t.phase = "walk"
  /\ SetTask(j, k, GiveBack(t, IF t.fails = "content" THEN MaxContentRetries
                                                        ELSE MaxRetries))
  /\ UNCHANGED <<row, claims, proc, held, restarts, handbacks, late>>

-----------------------------------------------------------------------------
(* Recording the outcome                                                   *)

Owns_unfenced(j, k) == row[j].status # "purged"

(* The claim guard of every write: WHERE started_at = the claimed value.   *)
Owns(j, k) == row[j].started_at = k

(* _execute_guarded drops the _CLAIMED entry of the job when the task ends,*)
(* whichever claim the entry belongs to.                                   *)
EndTask(j, k) ==
  /\ SetTask(j, k, IdleTask)
  /\ held' = [held EXCEPT ![task[j][k].host] = [@ EXCEPT ![j] = 0]]

(* _requeue_or_fail: the cancel flag is read in a transaction of its own,  *)
(* the write it decides on comes later.                                    *)
RequeueOrFail(j, k) ==
  LET t == task[j][k] IN
  /\ t.phase = "requeue"
  /\ SetTask(j, k, [t EXCEPT !.phase =
       IF row[j].cancel_requested THEN "cancelled"
       ELSE IF t.retry + 1 > t.limit THEN "error" ELSE "defer"])
  /\ UNCHANGED <<row, claims, proc, held, restarts, handbacks, late>>

Deferred_free(j, k) ==
  [row[j] EXCEPT !.status = "pending", !.started_at = 0, !.age = 0, !.deferred = TRUE]

(* Back to pending with backoff and the retry counted from the snapshot.   *)
Deferred(j, k) ==
  [row[j] EXCEPT !.status = "pending", !.started_at = 0, !.age = 0, !.deferred = TRUE,
                 !.retry_count = task[j][k].retry + 1]

Defer(j, k) ==
  /\ task[j][k].phase = "defer"
  /\ IF Owns(j, k) THEN SetRow(j, Deferred(j, k)) ELSE UNCHANGED row
  /\ EndTask(j, k)
  /\ UNCHANGED <<claims, proc, restarts, handbacks, late>>

Finished_keepsAudio(j, k) == [row[j] EXCEPT !.status = task[j][k].phase, !.age = 0]

(* _finish writes the status and clears the audio; started_at stays.       *)
Finished(j, k) ==
  [row[j] EXCEPT !.status = task[j][k].phase, !.audio = FALSE, !.age = 0]

FinishWrite(j, k) ==
  /\ task[j][k].phase \in Terminal
  /\ IF Owns(j, k) THEN SetRow(j, Finished(j, k)) ELSE UNCHANGED row

Finish(j, k) ==
  /\ FinishWrite(j, k)
  /\ EndTask(j, k)
  /\ UNCHANGED <<claims, proc, restarts, handbacks, late>>

(* The write commits, the acknowledgement is lost: retry_terminal_write    *)
(* runs the statement again.                                               *)
FinishUnacked(j, k) ==
  /\ FinishWrite(j, k)
  /\ UNCHANGED <<claims, task, proc, held, restarts, handbacks, late>>

(* _execute_guarded: the bookkeeping itself failed; the row stays as it is.*)
TaskDies(j, k) ==
  /\ task[j][k].phase \in Settling \cup {"claimed"}
  /\ EndTask(j, k)
  /\ UNCHANGED <<row, claims, proc, restarts, handbacks, late>>

-----------------------------------------------------------------------------
(* Worker processes                                                        *)

TasksGone(w) == task' = [j \in Job |-> [k \in Claim |->
                  IF task[j][k].host = w THEN IdleTask ELSE task[j][k]]]

(* SIGTERM: the dispatch loop has ended, in-flight jobs have their grace.  *)
Stop(w) ==
  /\ proc[w] = "up" /\ restarts < MaxRestarts
  /\ proc' = [proc EXCEPT ![w] = "stopping"]
  /\ restarts' = restarts + 1
  /\ UNCHANGED <<row, claims, task, held, handbacks, late>>

(* The grace is over: stragglers are cancelled and keep their entries.     *)
CancelStragglers(w) ==
  /\ proc[w] = "stopping"
  /\ proc' = [proc EXCEPT ![w] = "releasing"]
  /\ TasksGone(w)
  /\ UNCHANGED <<row, claims, held, restarts, handbacks, late>>

ReleaseClaim_running(w, j) ==
  /\ proc[w] \in {"up", "releasing"} /\ held[w][j] # 0
  /\ held' = [held EXCEPT ![w] = [@ EXCEPT ![j] = 0]]
  /\ \/ /\ row[j].status = "running" /\ row[j].started_at = held[w][j]
        /\ SetRow(j, [row[j] EXCEPT !.status = "pending", !.started_at = 0, !.age = 0])
        /\ handbacks' = [handbacks EXCEPT ![j] = @ + 1]
     \/ UNCHANGED <<row, handbacks>>
  /\ UNCHANGED <<claims, task, proc, restarts, late>>

(* release_claimed_jobs, one entry: fenced on the status and on the claim, *)
(* the retry is not counted; a failing statement never blocks the rest.    *)
ReleaseClaim(w, j) ==
  /\ proc[w] = "releasing" /\ held[w][j] # 0
  /\ held' = [held EXCEPT ![w] = [@ EXCEPT ![j] = 0]]
  /\ \/ /\ row[j].status = "running" /\ row[j].started_at = held[w][j]
        /\ SetRow(j, [row[j] EXCEPT !.status = "pending", !.started_at = 0, !.age = 0])
        /\ handbacks' = [handbacks EXCEPT ![j] = @ + 1]
     \/ UNCHANGED <<row, handbacks>>
  /\ UNCHANGED <<claims, task, proc, restarts, late>>

Exit(w) ==
  /\ proc[w] = "releasing" /\ \A j \in Job : held[w][j] = 0
  /\ proc' = [proc EXCEPT ![w] = "down"]
  /\ UNCHANGED <<row, claims, task, held, restarts, handbacks, late>>

(* SIGKILL, OOM, power: nothing of the process survives.                   *)
Crash(w) ==
  /\ proc[w] # "down" /\ restarts < MaxRestarts
  /\ proc' = [proc EXCEPT ![w] = "down"]
  /\ TasksGone(w)
  /\ held' = [held EXCEPT ![w] = [j \in Job |-> 0]]
  /\ restarts' = restarts + 1
  /\ UNCHANGED <<row, claims, handbacks, late>>

Restart(w) ==
  /\ proc[w] = "down"
  /\ proc' = [proc EXCEPT ![w] = "up"]
  /\ UNCHANGED <<row, claims, task, held, restarts, handbacks, late>>

-----------------------------------------------------------------------------
(* Time                                                                    *)

(* How long a walking task may still take before it has to move.           *)
MayWait(t) ==
  CASE t.phase = "claimed"          -> t.clock < StartSlack
    [] t.phase \in {"walk", "gate"} -> t.clock < t.finish_by
    [] t.phase = "call"             -> t.clock < t.due
    [] OTHER                        -> TRUE

Aged(r) == IF r.status = "running" /\ r.age <= StaleRunning
             THEN [r EXCEPT !.age = r.age + 1] ELSE r

Tick ==
  /\ \A j \in Job, k \in Claim : MayWait(task[j][k])
  /\ row' = [j \in Job |-> Aged(row[j])]
  /\ task' = [j \in Job |-> [k \in Claim |->
       IF task[j][k].phase \in Walking
         THEN [task[j][k] EXCEPT !.clock = task[j][k].clock + 1] ELSE task[j][k]]]
  /\ UNCHANGED <<claims, proc, held, restarts, handbacks, late>>

(* run_after has passed.                                                   *)
BackoffElapses(j) ==
  /\ row[j].deferred
  /\ SetRow(j, [row[j] EXCEPT !.deferred = FALSE])
  /\ UNCHANGED <<claims, task, proc, held, restarts, handbacks, late>>

-----------------------------------------------------------------------------
TaskStep(j, k) ==
  \/ Begin(j, k) \/ PollStop(j, k) \/ TryKey(j, k) \/ AttemptEnds(j, k)
  \/ WalkRaises(j, k) \/ ChainExhausted(j, k) \/ RequeueOrFail(j, k)
  \/ Defer(j, k) \/ Finish(j, k) \/ TaskDies(j, k)

ProcStep(w) ==
  \/ CancelStragglers(w) \/ Exit(w) \/ Restart(w)
  \/ \E j \in Job : ReleaseClaim(w, j)

Next ==
  \/ \E j \in Job : Submit(j) \/ Cancel(j) \/ PurgeFinished(j) \/ BackoffElapses(j)
  \/ \E w \in Worker, S \in SUBSET Job : ClaimBatch(w, S) \/ ClaimReplyLost(w, S)
  \/ \E w \in Worker : RequeueStaleRunning(w) \/ Stop(w) \/ Crash(w) \/ ProcStep(w)
  \/ \E j \in Job, k \in Claim : TaskStep(j, k) \/ FinishUnacked(j, k)
  \/ Tick

Spec == Init /\ [][Next]_vars

ClaimOf(j) == \E w \in Worker, S \in SUBSET Job : j \in S /\ ClaimBatch(w, S)

(* Every loop of a live process keeps running and a stopped container is   *)
(* started again; nothing is assumed of clients, losses or crashes.        *)
Fairness ==
  /\ WF_vars(Tick)
  /\ \A j \in Job : WF_vars(BackoffElapses(j)) /\ WF_vars(ClaimOf(j))
  /\ \A w \in Worker : WF_vars(RequeueStaleRunning(w)) /\ WF_vars(ProcStep(w))
  /\ \A j \in Job, k \in Claim : WF_vars(TaskStep(j, k))

FairSpec == Spec /\ Fairness
-----------------------------------------------------------------------------
(* Properties                                                              *)

(* A job is executed by one task at a time: whoever still walks providers  *)
(* for a job holds the row's current claim. This is what the finish-by     *)
(* gate of the walk buys against the stale sweep (_STALE_RUNNING_S).       *)
SoleExecution ==
  \A j \in Job, k \in Claim :
    task[j][k].phase \in Walking => row[j].status = "running" /\ row[j].started_at = k

(* The status a client has polled as final never changes: a worker that    *)
(* returns after its job was reclaimed, finished or cancelled elsewhere    *)
(* changes nothing (the claim guard of _finish and _requeue_or_fail).      *)
TerminalStable ==
  [][\A j \in Job : row[j].status \in Terminal =>
       row'[j].status \in {row[j].status, "purged"}]_vars

(* The retry budget is exact under every mixture of requeues, dead workers,*)
(* lost replies and restarts: an execution is paid for by a retry or by a  *)
(* graceful hand-back (_release_claim does not count one).                 *)
ExecutionBudget == \A j \in Job : claims[j] <= MaxRetries + 1 + handbacks[j]

(* A free execution needs an operator: a job is handed back at most once   *)
(* per stop of a process, however the stop interleaves with reclaims.      *)
HandbackBudget == \A j \in Job : handbacks[j] <= restarts

(* After a client cancelled a running chat job at most one more provider   *)
(* attempt is begun for it, over all its executions: the one whose poll    *)
(* had already been answered. A requeue, a hand-back and a stale reclaim   *)
(* all keep the flag in force.                                             *)
CancelBudget == \A j \in Job \ Transcription : late[j] <= 1

(* A transcription that was answered or cancelled keeps no audio, whatever *)
(* late task, sweep or hand-back touched its row (_finish, _cancel_plain). *)
(* One that the stale sweep gives up on keeps it until the retention.      *)
AudioEndsWithAnswer ==
  \A j \in Job : row[j].status \in {"done", "cancelled"} => ~row[j].audio

-----------------------------------------------------------------------------
(* The inductive invariant behind the theorems of JobQueueProofs           *)

(* started_at names a claim exactly while the row is or was being run.     *)
RowClaim(j) ==
  /\ row[j].started_at <= claims[j]
  /\ row[j].status \in {"none", "pending", "purged"} => row[j].started_at = 0
  /\ row[j].status = "running" => row[j].started_at # 0

(* A claim that was not made has no task.                                  *)
FreshTask(j) == \A k \in Claim : k > claims[j] => task[j][k].phase = "idle"

(* How late a walking task can be, and that its walk is not over.          *)
InTime(j, t) ==
  /\ t.phase = "claimed" => t.clock <= StartSlack
  /\ t.phase \in {"walk", "gate", "call"} =>
       t.finish_by <= StartSlack + WalkBudget[j] /\ t.clock <= t.finish_by + AttemptSlack
  /\ t.phase = "call" => t.due <= t.finish_by + AttemptSlack
  /\ t.phase = "gate" => t.slot < AttemptCap

(* A walking task owns its row and is as old as the claim.                 *)
WalkOwns(j) ==
  \A k \in Claim : task[j][k].phase \in Walking =>
    /\ row[j].status = "running" /\ row[j].started_at = k
    /\ row[j].age = task[j][k].clock
    /\ InTime(j, task[j][k])

(* Tasks live in processes that still run them.                            *)
TaskHosted(j) ==
  \A k \in Claim :
    IF task[j][k].phase = "idle" THEN task[j][k].host = Nobody
    ELSE task[j][k].host \in Worker /\ proc[task[j][k].host] \in {"up", "stopping"}

(* A _CLAIMED entry names a claim of this process.                         *)
HeldHere(j) ==
  \A w \in Worker :
    /\ held[w][j] <= claims[j]
    /\ \A k \in Claim : held[w][j] = k /\ task[j][k].phase # "idle" => task[j][k].host = w

(* Only the repetition of the same terminal write can still match a        *)
(* settled row.                                                            *)
SettledOnce(j) ==
  \A k \in Claim :
    row[j].status \in Terminal /\ row[j].started_at = k =>
      task[j][k].phase \in {"idle", row[j].status}

(* Every claim is accounted for.                                           *)
Accounted(j) ==
  /\ claims[j] <= MaxRetries + 1 + handbacks[j]
  /\ row[j].status = "none" => row[j].retry_count = 0
  /\ row[j].status \in {"none", "pending"} =>
       row[j].retry_count <= MaxRetries /\ claims[j] = row[j].retry_count + handbacks[j]
  /\ row[j].status = "running" =>
       row[j].retry_count <= MaxRetries /\ claims[j] = row[j].retry_count + handbacks[j] + 1

(* The retry count a task counts from is the row's while it owns the row.  *)
SnapshotFresh(j) ==
  \A k \in Claim :
    /\ task[j][k].phase # "idle" /\ row[j].started_at = k => task[j][k].retry = row[j].retry_count
    /\ task[j][k].phase = "defer" => task[j][k].retry < MaxRetries

(* Once an attempt was begun after the cancel, nobody is past a poll that  *)
(* did not see the flag.                                                   *)
CancelSeen(j) ==
  j \notin Transcription =>
    /\ late[j] <= 1
    /\ late[j] = 1 =>
         /\ row[j].status # "none"
         /\ row[j].status \in {"pending", "running"} => row[j].cancel_requested
         /\ \A k \in Claim : task[j][k].phase # "gate"
         /\ \A k \in Claim : task[j][k].phase = "claimed" => task[j][k].cancel

JobInv(j) ==
  /\ RowClaim(j) /\ FreshTask(j) /\ WalkOwns(j) /\ TaskHosted(j) /\ HeldHere(j)
  /\ SettledOnce(j) /\ Accounted(j) /\ SnapshotFresh(j) /\ CancelSeen(j)

(* Together they are inductive.                                            *)
IndInv == TypeOK /\ \A j \in Job : JobInv(j)

(* The processes that could still give the job back, and the budget for it.*)
Releasable(j) == {w \in Worker : proc[w] \in {"stopping", "releasing"} /\ held[w][j] # 0}

(* Inductive for HandbackBudget: every stop pays for one hand-back, made   *)
(* or still possible.                                                      *)
StopsPay == \A j \in Job : handbacks[j] + Cardinality(Releasable(j)) <= restarts

Lifecycle == INSTANCE JobLifecycle
               WITH st <- [j \in Job |-> row[j].status], runs <- claims,
                    MaxRuns <- MaxRetries + 1 + MaxRestarts

(* The queue is a correct implementation of the job life cycle clients see.*)
ImplementsLifecycle == Lifecycle!Spec

(* Whatever processes crash, stop or lose replies, an accepted job is      *)
(* settled in the end (dispatcher_loop, _requeue_stale_running, shutdown). *)
EventuallySettled == Lifecycle!Delivered
=============================================================================
