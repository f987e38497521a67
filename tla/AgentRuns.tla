------------------------------ MODULE AgentRuns ------------------------------
(***************************************************************************)
(* Agent runs: the queue row and the side row of a run, its event log      *)
(* (agent/runs.py), the worker lane that claims runs and sweeps lost ones  *)
(* (agent/worker.py) and the executions that drive a CLI                   *)
(* (agent/executor.py).                                                    *)
(*                                                                         *)
(* An event is written by a transaction that reads the side row without a  *)
(* lock, and later inserts (run, last_seq + 1): two steps, `tx' open in    *)
(* between, and the primary key of the event log is all that orders two    *)
(* writers. Time is left out: a timeout, a delay or a deadline may pass at *)
(* any moment, as nothing bounds how slow a task is.                       *)
(***************************************************************************)
EXTENDS Integers, FiniteSets

CONSTANTS
  Run,
  Interactive,      \* runs of priority 0
  Resume,           \* runs created to resume a session
  Codex,            \* runs that may need the auth-refresh gate
  Slot,             \* the lane's slots
  Reserve,          \* slots kept for interactive runs
  Client, Sweeper,  \* concurrent requests to cancel, and housekeeping passes
  MaxBusy,          \* session_busy_max
  MaxWaits,         \* quota waits that fit before a run's deadline
  MaxSeq,           \* bound on the events of a run
  MaxDeaths,        \* bound on the tasks that die or lose their lease
  NoRun

ASSUME RunAssumption ==
  /\ NoRun \notin Run /\ Interactive \subseteq Run /\ Resume \subseteq Run /\ Codex \subseteq Run
  /\ IsFiniteSet(Slot) /\ Reserve \in Nat /\ (Reserve = 0 \/ Reserve < Cardinality(Slot))
  /\ Client \cap Sweeper = {}
  /\ MaxBusy \in Nat /\ MaxWaits \in Nat /\ MaxSeq \in Nat /\ MaxDeaths \in Nat

VARIABLES
  job,     \* deep_jobs
  run,     \* agent_runs
  events,  \* agent_run_events: the (seq, kind) of every row
  ex,      \* the execution in each slot
  op,      \* the cancel or the sweep each client or sweeper is at
  deaths,  \* how many did
  starts,  \* history: how often a CLI was started for the run
  late     \* history: CLIs started after the run was cancelled or closed

vars == <<job, run, events, ex, op, deaths, starts, late>>
hist == <<starts, late>>

Outcome == {"completed", "failed", "cancelled", "timed_out"}
Closed == {"done", "error", "cancelled"}
Kind == {"event", "waiting", "terminal"}

(* Phases of execute_run: those before the CLI, those with it, and the     *)
(* last write.                                                             *)
Driving == {"stream", "event", "quota", "park"}
PreStart == {"lease", "gate", "busy", "start", "prep", "attest", "ready"}
Phase == {"idle", "claimed", "finish"} \cup PreStart \cup Driving

ExecState == [phase : Phase, run : Run \cup {NoRun}, out : Outcome \cup {"none"},
              leased : BOOLEAN, tx : BOOLEAN, seq : Nat]
OpState == [phase : {"idle", "flag", "close", "unclaimed"}, run : Run \cup {NoRun},
            out : Outcome \cup {"none"}, tx : BOOLEAN, seq : Nat]

TypeOK ==
  /\ job \in [Run -> [status : {"none", "pending", "running"} \cup Closed, retries : Nat]]
  /\ run \in [Run -> [outcome : Outcome \cup {"none"}, last_seq : Nat, cancel : BOOLEAN,
                      waits : 0 .. MaxWaits, resume : BOOLEAN]]
  /\ events \in [Run -> SUBSET ((Nat \ {0}) \X Kind)]
  /\ ex \in [Slot -> ExecState]
  /\ op \in [Client \cup Sweeper -> OpState]
  /\ deaths \in 0 .. MaxDeaths /\ starts \in [Run -> Nat] /\ late \in [Run -> Nat]

NoExec == [phase |-> "idle", run |-> NoRun, out |-> "none", leased |-> FALSE,
           tx |-> FALSE, seq |-> 0]
NoOp == [phase |-> "idle", run |-> NoRun, out |-> "none", tx |-> FALSE, seq |-> 0]

Init ==
  /\ job = [r \in Run |-> [status |-> "none", retries |-> 0]]
  /\ run = [r \in Run |-> [outcome |-> "none", last_seq |-> 0, cancel |-> FALSE,
                           waits |-> 0, resume |-> r \in Resume]]
  /\ events = [r \in Run |-> {}]
  /\ ex = [s \in Slot |-> NoExec]
  /\ op = [o \in Client \cup Sweeper |-> NoOp]
  /\ deaths = 0 /\ starts = [r \in Run |-> 0] /\ late = [r \in Run |-> 0]

Open(r) == run[r].outcome = "none"
Go(s, x) == ex' = [ex EXCEPT ![s] = x]
To(s, phase) == Go(s, [ex[s] EXCEPT !.phase = phase])
Ends(s) == Go(s, NoExec)
Finish(s, out) == Go(s, [ex[s] EXCEPT !.phase = "finish", !.out = out])

-----------------------------------------------------------------------------
(* Creation and claims                                                     *)

(* create_run inserts the queue row and the side row in one transaction.   *)
Create(r) ==
  /\ job[r].status = "none"
  /\ job' = [job EXCEPT ![r].status = "pending"]
  /\ UNCHANGED <<run, events, ex, op, deaths, hist>>

Idle == {s \in Slot : ex[s].phase = "idle"}

Admits_all(r) == Idle # {}

(* claim_for_lane: the last Reserve free slots take interactive runs only. *)
Admits(r) == IF r \in Interactive THEN Idle # {} ELSE Cardinality(Idle) > Reserve

(* A claim locks the row, so two claims never take the same run. It does   *)
(* not look at the outcome.                                                *)
ClaimRow(r) ==
  /\ job[r].status = "pending"
  /\ job' = [job EXCEPT ![r].status = "running"]

Claim(s, r) ==
  /\ s \in Idle /\ Admits(r)
  /\ ClaimRow(r)
  /\ Go(s, [NoExec EXCEPT !.phase = "claimed", !.run = r])
  /\ UNCHANGED <<run, events, op, deaths, hist>>

(* The claim committed and the tick failed before the task was created.    *)
ClaimLost(r) ==
  /\ Admits(r)
  /\ ClaimRow(r)
  /\ UNCHANGED <<run, events, ex, op, deaths, hist>>

-----------------------------------------------------------------------------
(* Writing events                                                          *)

(* The primary key (run_id, seq) of agent_run_events                       *)
SeqFree_always(r, n) == TRUE
SeqFree(r, n) == \A e \in events[r] : e[1] # n

(* An insert of the event and an update of the side row                    *)
Log(r, n, kind, row) ==
  /\ events' = [events EXCEPT ![r] = @ \cup {<<n, kind>>}]
  /\ run' = [run EXCEPT ![r] = [row EXCEPT !.last_seq = n]]

StatusOf(out) == IF out = "completed" THEN "done"
                 ELSE IF out = "cancelled" THEN "cancelled" ELSE "error"

(* A terminal event closes the run.                                        *)
Close(r, n, out) ==
  /\ Log(r, n, "terminal", [run[r] EXCEPT !.outcome = out])
  /\ job' = [job EXCEPT ![r].status = StatusOf(out)]

Requeue(r) == job' = [job EXCEPT ![r] = [status |-> "pending", retries |-> @.retries + 1]]

Writes == {"start", "attest", "event", "park", "finish"}

(* append_event and park_for_quota read the side row: a closed run ends    *)
(* the task, in _finish silently, elsewhere by an exception _guarded logs. *)
BeginWrite_blind(s) ==
  /\ ex[s].phase \in Writes /\ ~ex[s].tx
  /\ Go(s, [ex[s] EXCEPT !.tx = TRUE, !.seq = run[ex[s].run].last_seq])
  /\ UNCHANGED <<job, run, events, op, deaths, hist>>

BeginWrite(s) ==
  LET r == ex[s].run
  IN /\ ex[s].phase \in Writes /\ ~ex[s].tx
     /\ IF Open(r) THEN Go(s, [ex[s] EXCEPT !.tx = TRUE, !.seq = run[r].last_seq]) ELSE Ends(s)
     /\ UNCHANGED <<job, run, events, op, deaths, hist>>

(* Where an execution goes after its write; a lost reply ends it.          *)
After(x) == {NoExec} \cup
  CASE x.phase = "start" -> {[x EXCEPT !.phase = "prep", !.tx = FALSE, !.seq = 0]}
    [] x.phase = "attest" -> {[x EXCEPT !.phase = "ready", !.tx = FALSE, !.seq = 0]}
    [] x.phase = "event" -> {[x EXCEPT !.phase = "stream", !.tx = FALSE, !.seq = 0]}
    [] OTHER -> {}

WriteEvent(s) ==
  LET x == ex[s]
  IN /\ x.tx /\ x.phase \in {"start", "attest", "event"} /\ SeqFree(x.run, x.seq + 1)
     /\ Log(x.run, x.seq + 1, "event", run[x.run])
     /\ \E y \in After(x) : Go(s, y)
     /\ UNCHANGED <<job, op, deaths, hist>>

(* park_for_quota: back to the queue, to resume its own session if it has  *)
(* been assigned one.                                                      *)
Park(s) ==
  LET x == ex[s]
      r == x.run
  IN /\ x.tx /\ x.phase = "park" /\ SeqFree(r, x.seq + 1)
     /\ \E resume \in {run[r].resume, TRUE} :
          Log(r, x.seq + 1, "waiting",
              [run[r] EXCEPT !.waits = @ + 1, !.resume = resume])
     /\ job' = [job EXCEPT ![r].status = "pending"]
     /\ Ends(s)
     /\ UNCHANGED <<op, deaths, hist>>

WriteTerminal(s) ==
  LET x == ex[s]
  IN /\ x.tx /\ x.phase = "finish" /\ SeqFree(x.run, x.seq + 1)
     /\ Close(x.run, x.seq + 1, x.out)
     /\ Ends(s)
     /\ UNCHANGED <<op, deaths, hist>>

(* An IntegrityError: another writer took the number.                      *)
WriteCollides(s) ==
  /\ ex[s].tx /\ ~SeqFree(ex[s].run, ex[s].seq + 1)
  /\ Ends(s)
  /\ UNCHANGED <<job, run, events, op, deaths, hist>>

-----------------------------------------------------------------------------
(* An execution                                                            *)

Still == UNCHANGED <<run, events, op, deaths>>

Begin_noflag(s) ==
  LET r == ex[s].run
  IN /\ ex[s].phase = "claimed"
     /\ \/ ~Open(r) /\ Ends(s)
        \/ Open(r) /\ \E out \in {"failed", "timed_out"} : Finish(s, out)
        \/ Open(r) /\ To(s, IF run[r].resume THEN "lease" ELSE "gate")
     /\ UNCHANGED job /\ Still /\ UNCHANGED hist

(* execute_run reads both rows: closed, refused, past its deadline,        *)
(* cancelled, or on to the session.                                        *)
Begin(s) ==
  LET r == ex[s].run
  IN /\ ex[s].phase = "claimed"
     /\ \/ ~Open(r) /\ Ends(s)
        \/ Open(r) /\ \E out \in {"failed", "timed_out"} : Finish(s, out)
        \/ Open(r) /\ run[r].cancel /\ Finish(s, "cancelled")
        \/ Open(r) /\ ~run[r].cancel /\ To(s, IF run[r].resume THEN "lease" ELSE "gate")
     /\ UNCHANGED job /\ Still /\ UNCHANGED hist

(* A run put back too often fails instead (session_busy_max).              *)
PutBack(s) ==
  LET r == ex[s].run
  IN /\ Requeue(r)
     /\ IF job[r].retries + 1 > MaxBusy THEN Finish(s, "failed") ELSE Ends(s)

(* _execute_with_session: the session's lease is taken or busy.            *)
TakeLease(s) ==
  /\ ex[s].phase = "lease"
  /\ \/ Go(s, [ex[s] EXCEPT !.phase = "gate", !.leased = TRUE]) /\ UNCHANGED job
     \/ PutBack(s)
  /\ Still /\ UNCHANGED hist

(* _codex_auth_gate: no gate is needed, or it is taken, and then the flag  *)
(* is read; a waiting run reads the flag until it gives up.                *)
PassGate(s) ==
  LET r == ex[s].run
  IN /\ ex[s].phase = "gate"
     /\ \/ To(s, "start")
        \/ r \in Codex /\ run[r].cancel /\ Finish(s, "cancelled")
        \/ r \in Codex /\ ~run[r].cancel /\ To(s, "busy")
     /\ UNCHANGED job /\ Still /\ UNCHANGED hist

(* _AuthRefreshBusy, after the flag was read once more.                    *)
GateBusy(s) ==
  /\ ex[s].phase = "busy"
  /\ PutBack(s)
  /\ Still /\ UNCHANGED hist

(* After run.started: a resume the adapter has not, or the billing mode,   *)
(* may refuse the run; otherwise billing.attested is logged.               *)
Prepare(s) ==
  /\ ex[s].phase = "prep"
  /\ Finish(s, "failed") \/ To(s, "attest")
  /\ UNCHANGED job /\ Still /\ UNCHANGED hist

(* Model and attachments are checked; then the CLI is started.             *)
StartCli(s) ==
  LET r == ex[s].run
  IN /\ ex[s].phase = "ready"
     /\ \/ Finish(s, "failed") /\ UNCHANGED hist
        \/ /\ To(s, "stream")
           /\ starts' = [starts EXCEPT ![r] = @ + 1]
           /\ late' = [late EXCEPT ![r] = IF run[r].cancel \/ ~Open(r) THEN @ + 1 ELSE @]
     /\ UNCHANGED job /\ Still

(* _stream: the CLI reports an event, its end, or its usage limit, or is   *)
(* stopped by the flag or by a timeout.                                    *)
Stream(s) ==
  LET r == ex[s].run
  IN /\ ex[s].phase = "stream"
     /\ \/ run[r].last_seq < MaxSeq /\ To(s, "event")
        \/ \E out \in {"completed", "failed", "cancelled", "timed_out"} :
             (out = "cancelled" => run[r].cancel) /\ Finish(s, out)
        \/ To(s, "quota")
     /\ UNCHANGED job /\ Still /\ UNCHANGED hist

GateLost_requeue(s) ==
  /\ ex[s].phase \in {"ready", "stream"} /\ ex[s].run \in Codex
  /\ PutBack(s)
  /\ Still /\ UNCHANGED hist

(* The auth gate was lost before or during the start-up: run.started has   *)
(* been written, so the run ends instead of going back.                    *)
GateLost(s) ==
  /\ ex[s].phase \in {"ready", "stream"} /\ ex[s].run \in Codex
  /\ Finish(s, "failed")
  /\ UNCHANGED job /\ Still /\ UNCHANGED hist

Quota_forever(s) ==
  /\ ex[s].phase = "quota"
  /\ To(s, "park")
  /\ UNCHANGED job /\ Still /\ UNCHANGED hist

(* _wait_for_quota: a wait that passes the deadline ends the run.          *)
Quota(s) ==
  /\ ex[s].phase = "quota"
  /\ \/ Finish(s, "failed")
     \/ run[ex[s].run].waits < MaxWaits /\ To(s, "park")
  /\ UNCHANGED job /\ Still /\ UNCHANGED hist

Dies(s) ==
  /\ deaths < MaxDeaths
  /\ deaths' = deaths + 1
  /\ Ends(s)
  /\ UNCHANGED <<job, run, events, op, hist>>

(* A lost lease (StaleLease) stops the CLI without another write.          *)
LoseLease(s) ==
  /\ ex[s].leased /\ ~ex[s].tx /\ ex[s].phase \in Writes \cup {"stream"}
  /\ Dies(s)

(* An exception in the task, or the death of the worker                    *)
TaskDies(s) ==
  /\ ex[s].phase # "idle"
  /\ Dies(s)

-----------------------------------------------------------------------------
(* Cancels and sweeps                                                      *)

SetOp(o, y) == op' = [op EXCEPT ![o] = y]
Aim(o, r, phase, out) == SetOp(o, [NoOp EXCEPT !.phase = phase, !.run = r, !.out = out])

(* cancel_run reads the run: a queued one is closed, any other flagged.    *)
Cancel(c, r) ==
  /\ op[c].phase = "idle" /\ job[r].status # "none" /\ Open(r)
  /\ IF job[r].status = "pending" THEN Aim(c, r, "close", "cancelled")
     ELSE Aim(c, r, "flag", "none")
  /\ UNCHANGED <<job, run, events, ex, deaths, hist>>

SetFlag(c) ==
  /\ op[c].phase = "flag"
  /\ run' = [run EXCEPT ![op[c].run].cancel = TRUE]
  /\ SetOp(c, NoOp)
  /\ UNCHANGED <<job, events, ex, deaths, hist>>

ListStale_waiting(o, r) ==
  /\ op[o].phase = "idle"
  /\ job[r].status = "pending" /\ run[r].waits > 0 /\ Open(r)
  /\ Aim(o, r, "close", "failed")
  /\ UNCHANGED <<job, run, events, ex, deaths, hist>>

(* fail_stale_agent_runs and expire_overdue_waiting list runs to close.    *)
ListStale(o, r) ==
  /\ op[o].phase = "idle"
  /\ \/ job[r].status = "running"
     \/ job[r].status = "pending" /\ run[r].waits > 0 /\ Open(r)
  /\ Aim(o, r, "close", "failed")
  /\ UNCHANGED <<job, run, events, ex, deaths, hist>>

(* fail_unclaimed_runs lists runs that never started, while no run of the  *)
(* account is running.                                                     *)
ListUnclaimed(o, r) ==
  /\ op[o].phase = "idle"
  /\ job[r].status = "pending" /\ run[r].last_seq = 0 /\ run[r].waits = 0 /\ Open(r)
  /\ \A q \in Run : job[q].status # "running"
  /\ Aim(o, r, "unclaimed", "failed")
  /\ UNCHANGED <<job, run, events, ex, deaths, hist>>

(* append_event without a lock: its read ...                               *)
BeginClose(o) ==
  LET r == op[o].run
  IN /\ op[o].phase = "close" /\ ~op[o].tx
     /\ SetOp(o, IF Open(r) THEN [op[o] EXCEPT !.tx = TRUE, !.seq = run[r].last_seq] ELSE NoOp)
     /\ UNCHANGED <<job, run, events, ex, deaths, hist>>

CommitClose_requeue(o) ==
  LET x == op[o]
  IN /\ x.tx /\ SeqFree(x.run, x.seq + 1)
     /\ IF x.out = "cancelled" THEN Close(x.run, x.seq + 1, x.out)
        ELSE Log(x.run, x.seq + 1, "event", run[x.run]) /\ Requeue(x.run)
     /\ SetOp(o, NoOp)
     /\ UNCHANGED <<ex, deaths, hist>>

(* ... and its commit, or an IntegrityError.                               *)
CommitClose(o) ==
  LET x == op[o]
  IN /\ x.tx /\ SeqFree(x.run, x.seq + 1)
     /\ Close(x.run, x.seq + 1, x.out)
     /\ SetOp(o, NoOp)
     /\ UNCHANGED <<ex, deaths, hist>>

CloseCollides(o) ==
  /\ op[o].tx /\ ~SeqFree(op[o].run, op[o].seq + 1)
  /\ SetOp(o, NoOp)
  /\ UNCHANGED <<job, run, events, ex, deaths, hist>>

(* append_event with only_if_pending keeps the queue row locked from its   *)
(* check to its commit.                                                    *)
CloseUnclaimed(o) ==
  LET r == op[o].run
  IN /\ op[o].phase = "unclaimed"
     /\ IF job[r].status = "pending" /\ Open(r) THEN Close(r, run[r].last_seq + 1, "failed")
        ELSE UNCHANGED <<job, run, events>>
     /\ SetOp(o, NoOp)
     /\ UNCHANGED <<ex, deaths, hist>>

-----------------------------------------------------------------------------
Work(s) ==
  \/ Begin(s) \/ TakeLease(s) \/ PassGate(s) \/ GateBusy(s) \/ Prepare(s)
  \/ StartCli(s) \/ Stream(s) \/ Quota(s) \/ BeginWrite(s) \/ WriteEvent(s) \/ Park(s) \/ WriteTerminal(s) \/ WriteCollides(s)

Sweep(o) == \E r \in Run : ListStale(o, r) \/ ListUnclaimed(o, r)
Operate(o) == SetFlag(o) \/ BeginClose(o) \/ CommitClose(o) \/ CloseCollides(o) \/ CloseUnclaimed(o)

Next ==
  \/ \E r \in Run : Create(r) \/ ClaimLost(r)
  \/ \E s \in Slot, r \in Run : Claim(s, r)
  \/ \E s \in Slot : Work(s) \/ GateLost(s) \/ LoseLease(s) \/ TaskDies(s)
  \/ \E c \in Client, r \in Run : Cancel(c, r)
  \/ \E o \in Sweeper : Sweep(o)
  \/ \E o \in Client \cup Sweeper : Operate(o)

Spec == Init /\ [][Next]_vars

(* Tasks, clients' requests and housekeeping passes go on; a pass lists    *)
(* every stale run, and a lane claims the oldest run of a priority first,  *)
(* so none is passed over for ever.                                        *)
FairSpec ==
  /\ Spec
  /\ \A s \in Slot : WF_vars(Work(s))
  /\ \A o \in Client \cup Sweeper : WF_vars(Operate(o))
  /\ \A r \in Run :
       SF_vars(\E s \in Slot : Claim(s, r)) /\ \A o \in Sweeper : SF_vars(ListStale(o, r))

-----------------------------------------------------------------------------
(* Properties                                                              *)

(* The log of a run is gapless and numbered once, and it ends with its     *)
(* only terminal event exactly when the run has an outcome, whoever wrote  *)
(* it: the worker, a client's cancel, or a sweep (append_event). A queue   *)
(* row is closed only with the outcome.                                    *)
LogSound ==
  \A r \in Run :
    /\ \A e \in events[r] : e[1] <= run[r].last_seq
    /\ \A n \in 1 .. run[r].last_seq : \E e \in events[r] : e[1] = n
    /\ \A d, e \in events[r] : d[1] = e[1] => d = e
    /\ \A e \in events[r] :
         e[2] = "terminal" <=> e[1] = run[r].last_seq /\ ~Open(r)
    /\ job[r].status \in Closed => ~Open(r) /\ job[r].status = StatusOf(run[r].outcome)

(* The first terminal event wins: nothing is logged for a closed run and   *)
(* its outcome stays (append_event, park_for_quota).                       *)
NothingAfterClose ==
  [][\A r \in Run : ~Open(r) =>
       run'[r].outcome = run[r].outcome /\ events'[r] = events[r]]_vars

(* A run is never driven by two executions at once, although rows go back  *)
(* to the queue and are claimed again while their old task still writes.   *)
SoleDriver ==
  \A s, t \in Slot :
    ex[s].phase \in Driving /\ ex[t].phase \in Driving /\ ex[s].run = ex[t].run => s = t

(* A CLI has side effects, so a run is never run again, except to go on    *)
(* after a quota wait (fail_stale_agent_runs, requeue_run, _stream).       *)
NeverRerun == \A r \in Run : starts[r] <= run[r].waits + 1

(* A run that was cancelled or closed starts at most one more CLI, the one *)
(* its execution was about to start (execute_run, cancel_run).             *)
OneLateStart == \A r \in Run : late[r] <= 1

(* A backlog of batch runs never fills the reserved slots (claim_for_lane).*)
ReserveKept ==
  Cardinality({s \in Slot : ex[s].run \in Run \ Interactive}) <= Cardinality(Slot) - Reserve

(* Every run ends with an outcome, even if its worker died, its lease was  *)
(* lost, or its claim never became a task.                                 *)
EventuallyClosed == \A r \in Run : job[r].status = "pending" ~> ~Open(r)

-----------------------------------------------------------------------------
(* The inductive invariant behind the theorems of AgentRunsProofs          *)

Active == {"claimed"} \cup PreStart \cup Driving

(* A transaction whose number is still free read a run that is still open. *)
Snapshot(x) ==
  x.tx => /\ x.seq <= run[x.run].last_seq
          /\ x.seq = run[x.run].last_seq => Open(x.run)

ExecShape(x) ==
  /\ x.phase # "idle" => x.run \in Run
  /\ x.tx => x.phase \in Writes
  /\ x.phase = "finish" => x.out \in Outcome

ExecsSound ==
  /\ \A s \in Slot : ExecShape(ex[s]) /\ Snapshot(ex[s])
  /\ \A s \in Slot : ex[s].phase = "park" => run[ex[s].run].waits < MaxWaits

OpShape(y) ==
  /\ y.phase # "idle" => y.run \in Run
  /\ y.tx => y.phase = "close"
  /\ y.phase = "close" => y.out \in {"cancelled", "failed"}

OpsSound == \A o \in Client \cup Sweeper : OpShape(op[o]) /\ Snapshot(op[o])

(* A run with an execution that has not come to its last write is not in   *)
(* the queue, and it has one such execution.                               *)
OneOwner ==
  /\ \A s \in Slot : ex[s].phase \in Active => job[ex[s].run].status \notin {"none", "pending"}
  /\ \A s, t \in Slot :
       ex[s].phase \in Active /\ ex[t].phase \in Active /\ ex[s].run = ex[t].run => s = t

(* Every start but one is paid for by a wait before the run may start, or  *)
(* be claimed to start, again.                                             *)
StartsPaid ==
  /\ NeverRerun
  /\ \A r \in Run : job[r].status \in {"none", "pending"} => starts[r] <= run[r].waits
  /\ \A s \in Slot :
       ex[s].phase \in {"claimed"} \cup PreStart => starts[ex[s].run] <= run[ex[s].run].waits

(* After a late start nobody is past the checks of execute_run again.      *)
LateSeen ==
  /\ OneLateStart
  /\ \A r \in Run : late[r] > 0 => run[r].cancel \/ ~Open(r)
  /\ \A s \in Slot : ex[s].phase \in PreStart => late[ex[s].run] = 0

RunInv == TypeOK /\ LogSound /\ ExecsSound /\ OpsSound /\ OneOwner /\ StartsPaid /\ LateSeen

-----------------------------------------------------------------------------
(* docs/agent-runs.md: a terminal event closes the run and moves the queue *)
(* row to done or error.                                                   *)
ClosedLeavesQueue == \A r \in Run : ~Open(r) => job[r].status \in Closed
=============================================================================
