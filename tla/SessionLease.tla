---------------------------- MODULE SessionLease ----------------------------
(***************************************************************************)
(* The lease on one resumable CLI session (agent/lock.py) and the runs     *)
(* that drive the session under it (agent/executor.py).                    *)
(*                                                                         *)
(* The database holds one row per session: the run and the fence of its    *)
(* latest holder, and lease_until. A run keeps a heartbeat task beside the *)
(* loop that streams the CLI; every write of the run is a transaction that *)
(* first locks the lease row and compares the fence.                       *)
(*                                                                         *)
(* Time is discrete and relative: `left' is lease_until minus the database *)
(* clock, `dl' the heartbeat's local deadline minus the monotonic clock.   *)
(* now() of Postgres is the start of the transaction, so a statement that  *)
(* waited writes a lease_until counted from before its wait.               *)
(***************************************************************************)
EXTENDS Integers

CONSTANTS
  Exec,       \* executions of runs that resume this session
  RunId, RunOf,
  NoExec,
  Ttl,        \* lease_ttl_s
  Beat,       \* min(lease_heartbeat_s, lease_ttl_s / 3)
  Delay,      \* an acquisition is answered, or fails, within this time
  React,      \* longest wait of _stream between two looks at lease.lost
  WriteTime,  \* a write transaction ends, or fails, within this time
  StopTime    \* cancel_grace_s

ASSUME ExecAssumption == NoExec \notin Exec /\ RunOf \in [Exec -> RunId]

ASSUME TimeAssumption ==
  /\ Ttl \in Nat \ {0} /\ Beat \in Nat \ {0} /\ Delay \in Nat
  /\ React \in Nat /\ WriteTime \in Nat /\ StopTime \in Nat

VARIABLES
  lease,   \* the row of agent_session_leases
  lock,    \* the execution whose transaction has locked the row
  ex,      \* each execution: its loop, its heartbeat, its CLI
  owner,   \* history: the execution the lease was last granted to
  zombie   \* history: a displaced execution committed a write

vars == <<lease, lock, ex, owner, zombie>>

(* How long past the end of its lease a CLI may still be running.          *)
Overrun == Delay + Beat - 1 + React + WriteTime + StopTime

(* Clocks are not followed further into the past than this.                *)
Floor == -(Overrun + 1)

Phase == {"idle", "asking", "granted", "prep", "drive", "stop", "close", "release", "end"}

ExecState ==
  [phase : Phase, fence : Nat, el : Nat, dl : Int, hb : {"off", "sleep", "ask", "ok", "no"},
   hel : Nat, lost : BOOLEAN, quit : BOOLEAN, tx : {"none", "sent", "locked"}, tm : Nat,
   cli : BOOLEAN, until : Int, late : BOOLEAN]

Fresh ==
  [phase |-> "idle", fence |-> 0, el |-> 0, dl |-> 0, hb |-> "off", hel |-> 0, lost |-> FALSE,
   quit |-> FALSE, tx |-> "none", tm |-> 0, cli |-> FALSE, until |-> 0, late |-> FALSE]

TypeOK ==
  /\ lease \in [run : RunId \cup {NoExec}, fence : Nat, left : Int]
  /\ lock \in Exec \cup {NoExec}
  /\ ex \in [Exec -> ExecState]
  /\ owner \in Exec \cup {NoExec}
  /\ zombie \in BOOLEAN

(* A session without a row behaves as one whose lease 0 has expired.       *)
Init ==
  /\ lease = [run |-> NoExec, fence |-> 0, left |-> Floor]
  /\ lock = NoExec
  /\ ex = [e \in Exec |-> Fresh]
  /\ owner = NoExec
  /\ zombie = FALSE

SetExec(e, x) == ex' = [ex EXCEPT ![e] = x]

-----------------------------------------------------------------------------
(* Acquiring                                                               *)

Ask(e) ==
  /\ ex[e].phase = "idle"
  /\ SetExec(e, [ex[e] EXCEPT !.phase = "asking", !.el = 0])
  /\ UNCHANGED <<lease, lock, owner, zombie>>

NextFence_same == lease.fence

(* Every successful acquisition bumps the fence of the row.                *)
NextFence == lease.fence + 1

(* INSERT ... ON CONFLICT DO UPDATE ... WHERE lease_until < now. The       *)
(* transaction started d ago.                                              *)
AcquireDb(e) ==
  /\ ex[e].phase = "asking" /\ lock = NoExec
  /\ \E d \in 0 .. ex[e].el :
       \/ /\ lease.left + d < 0
          /\ lease' = [run |-> RunOf[e], fence |-> NextFence, left |-> Ttl - d]
          /\ owner' = e
          /\ SetExec(e, [ex[e] EXCEPT !.phase = "granted", !.fence = NextFence,
                                      !.until = Ttl - d])
       \/ /\ lease.left + d >= 0
          /\ SetExec(e, [ex[e] EXCEPT !.phase = "idle", !.el = 0])
          /\ UNCHANGED <<lease, owner>>
  /\ UNCHANGED <<lock, zombie>>

(* The statement fails, or its reply is lost after it took effect.         *)
AcquireFails(e) ==
  /\ ex[e].phase \in {"asking", "granted"}
  /\ SetExec(e, [ex[e] EXCEPT !.phase = "end", !.el = 0])
  /\ UNCHANGED <<lease, lock, owner, zombie>>

(* session_lock yields the lease and starts the heartbeat, whose deadline  *)
(* is counted from here.                                                   *)
Enter(e) ==
  /\ ex[e].phase = "granted"
  /\ SetExec(e, [ex[e] EXCEPT !.phase = "prep", !.el = 0, !.dl = Ttl, !.hb = "sleep",
                              !.hel = 0])
  /\ UNCHANGED <<lease, lock, owner, zombie>>

-----------------------------------------------------------------------------
(* The heartbeat                                                           *)

(* WHERE run_id = :r AND fence = :f                                        *)
Current(e) == lease.run = RunOf[e] /\ lease.fence = ex[e].fence

StartRenew(e) ==
  /\ ex[e].hb = "sleep" /\ ex[e].hel = Beat
  /\ SetExec(e, [ex[e] EXCEPT !.hb = "ask", !.hel = 0])
  /\ UNCHANGED <<lease, lock, owner, zombie>>

RenewDb(e) ==
  /\ ex[e].hb = "ask" /\ lock = NoExec
  /\ IF Current(e)
       THEN \E d \in 0 .. ex[e].hel :
              /\ lease' = [lease EXCEPT !.left = Ttl - d]
              /\ SetExec(e, [ex[e] EXCEPT !.hb = "ok", !.until = Ttl - d])
       ELSE /\ SetExec(e, [ex[e] EXCEPT !.hb = "no"])
            /\ UNCHANGED lease
  /\ UNCHANGED <<lock, owner, zombie>>

(* The end of one round: back to sleep unless the deadline has passed.     *)
Rested(x, deadline) ==
  [x EXCEPT !.dl = deadline, !.hel = 0, !.lost = (deadline <= 0),
            !.hb = IF deadline <= 0 THEN "off" ELSE "sleep"]

NewDeadline_fromReply(x) == Ttl

(* Counted from the start of the renewal request.                          *)
NewDeadline(x) == Ttl - x.hel

RenewOk(e) ==
  /\ ex[e].hb = "ok"
  /\ SetExec(e, Rested(ex[e], NewDeadline(ex[e])))
  /\ UNCHANGED <<lease, lock, owner, zombie>>

RenewRefused(e) ==
  /\ ex[e].hb = "no"
  /\ SetExec(e, [ex[e] EXCEPT !.hb = "off", !.hel = 0, !.lost = TRUE])
  /\ UNCHANGED <<lease, lock, owner, zombie>>

(* An error, a timeout or a lost reply; the statement may still reach the  *)
(* database later.                                                         *)
RenewFails(e) ==
  /\ ex[e].hb \in {"ask", "ok", "no"}
  /\ SetExec(e, [Rested(ex[e], ex[e].dl) EXCEPT !.late = (ex[e].late \/ ex[e].hb = "ask")])
  /\ UNCHANGED <<lease, lock, owner, zombie>>

LateRenew(e) ==
  /\ ex[e].late /\ lock = NoExec
  /\ IF Current(e)
       THEN /\ lease' = [lease EXCEPT !.left = Ttl]
            /\ SetExec(e, [ex[e] EXCEPT !.late = FALSE, !.until = Ttl])
       ELSE /\ SetExec(e, [ex[e] EXCEPT !.late = FALSE])
            /\ UNCHANGED lease
  /\ UNCHANGED <<lock, owner, zombie>>

-----------------------------------------------------------------------------
(* Driving the CLI                                                         *)

(* _stream: the loop looks at lease.lost before the CLI's task first runs. *)
StartCli(e) ==
  /\ ex[e].phase = "prep" /\ ex[e].tx = "none"
  /\ SetExec(e, IF ex[e].lost THEN [ex[e] EXCEPT !.phase = "stop", !.quit = TRUE, !.tm = 0]
                ELSE [ex[e] EXCEPT !.phase = "drive", !.cli = TRUE, !.tm = 0])
  /\ UNCHANGED <<lease, lock, owner, zombie>>

(* StaleLease, a refusal or an error before the CLI is started.            *)
GiveUp(x) == IF x.phase = "drive" THEN [x EXCEPT !.phase = "stop", !.quit = TRUE, !.tm = 0,
                                                 !.tx = "none"]
             ELSE [x EXCEPT !.phase = "close", !.quit = TRUE, !.tm = 0, !.tx = "none"]

(* append_event, record_usage, park_for_quota: the transaction is sent.    *)
StartWrite(e) ==
  /\ ex[e].phase \in {"prep", "drive", "close"} /\ ex[e].tx = "none" /\ ~ex[e].quit
  /\ SetExec(e, [ex[e] EXCEPT !.tx = "sent", !.tm = 0])
  /\ UNCHANGED <<lease, lock, owner, zombie>>

Locked_none(e) == NoExec

(* SELECT ... FOR UPDATE keeps the row until the transaction ends.         *)
Locked(e) == e

CheckFence(e) ==
  /\ ex[e].tx = "sent" /\ lock = NoExec
  /\ IF Current(e) THEN /\ lock' = Locked(e)
                        /\ SetExec(e, [ex[e] EXCEPT !.tx = "locked"])
                   ELSE /\ SetExec(e, GiveUp(ex[e]))
                        /\ UNCHANGED lock
  /\ UNCHANGED <<lease, owner, zombie>>

Unlock(e) == lock' = IF lock = e THEN NoExec ELSE lock

(* The write takes effect; the loop looks at lease.lost next.              *)
Commit(e) ==
  /\ ex[e].tx = "locked"
  /\ Unlock(e)
  /\ zombie' = (zombie \/ owner # e)
  /\ SetExec(e, IF ex[e].phase = "drive" /\ ex[e].lost THEN GiveUp(ex[e])
                ELSE [ex[e] EXCEPT !.tx = "none", !.tm = 0])
  /\ UNCHANGED <<lease, owner>>

WriteFails(e) ==
  /\ ex[e].tx # "none"
  /\ Unlock(e)
  /\ SetExec(e, GiveUp(ex[e]))
  /\ UNCHANGED <<lease, owner, zombie>>

SeeLost(e) ==
  /\ ex[e].phase = "drive" /\ ex[e].tx = "none" /\ ex[e].lost
  /\ SetExec(e, GiveUp(ex[e]))
  /\ UNCHANGED <<lease, lock, owner, zombie>>

(* The CLI ends by itself, or a timeout or a cancel ends it.               *)
EndDrive(e) ==
  /\ ex[e].phase = "drive" /\ ex[e].tx = "none"
  /\ \/ SetExec(e, [ex[e] EXCEPT !.phase = "close", !.cli = FALSE, !.tm = 0])
     \/ SetExec(e, [ex[e] EXCEPT !.phase = "stop", !.tm = 0])
  /\ UNCHANGED <<lease, lock, owner, zombie>>

StopCli(e) ==
  /\ ex[e].phase = "stop"
  /\ SetExec(e, [ex[e] EXCEPT !.phase = "close", !.cli = FALSE, !.tm = 0])
  /\ UNCHANGED <<lease, lock, owner, zombie>>

LeaveLock_beating(x) == [x EXCEPT !.phase = "release", !.tm = 0]

(* session_lock's exit: the heartbeat is cancelled, its renewal abandoned. *)
LeaveLock(x) == [x EXCEPT !.phase = "release", !.tm = 0, !.hb = "off", !.hel = 0,
                          !.late = (x.late \/ x.hb = "ask")]

(* The run is over (a refusal before the CLI started included).            *)
Close(e) ==
  /\ ex[e].phase \in {"prep", "close"} /\ ex[e].tx = "none"
  /\ SetExec(e, LeaveLock(ex[e]))
  /\ UNCHANGED <<lease, lock, owner, zombie>>

(* The row is expired in place; an error is suppressed.                    *)
Release(e) ==
  /\ ex[e].phase = "release"
  /\ \/ lock = NoExec /\ Current(e) /\ lease' = [lease EXCEPT !.left = Floor]
     \/ UNCHANGED lease
  /\ SetExec(e, [ex[e] EXCEPT !.phase = "end"])
  /\ UNCHANGED <<lock, owner, zombie>>

(* A container kill takes the CLI with it and aborts the transaction.      *)
Crash(e) ==
  /\ ex[e].phase \notin {"idle", "end"}
  /\ Unlock(e)
  /\ SetExec(e, [Fresh EXCEPT !.phase = "end", !.fence = ex[e].fence])
  /\ UNCHANGED <<lease, owner, zombie>>

-----------------------------------------------------------------------------
(* Time                                                                    *)

Timed(x) == x.phase = "stop" \/ x.tx # "none" \/ (x.phase = "drive" /\ x.lost)

(* Nobody outlives its timeouts.                                           *)
MayWait(x) ==
  /\ x.phase \in {"asking", "granted"} => x.el < Delay
  /\ x.hb = "sleep" => x.hel < Beat
  /\ x.hb \in {"ask", "ok", "no"} => x.dl > 0
  /\ x.tx # "none" => x.tm < WriteTime
  /\ x.phase = "drive" /\ x.lost /\ x.tx = "none" => x.tm < React
  /\ x.phase = "stop" => x.tm < StopTime

Down(n) == IF n > Floor THEN n - 1 ELSE n

Later(x) ==
  [x EXCEPT !.el = IF x.phase \in {"asking", "granted"} THEN x.el + 1 ELSE x.el,
            !.hel = IF x.hb # "off" THEN x.hel + 1 ELSE x.hel,
            !.tm = IF Timed(x) THEN x.tm + 1 ELSE x.tm,
            !.dl = IF x.hb # "off" \/ x.cli THEN Down(x.dl) ELSE 0,
            !.until = IF x.phase = "granted" \/ x.hb # "off" \/ x.cli THEN Down(x.until) ELSE 0]

Tick ==
  /\ \A e \in Exec : MayWait(ex[e])
  /\ lease' = [lease EXCEPT !.left = Down(lease.left)]
  /\ ex' = [e \in Exec |-> Later(ex[e])]
  /\ UNCHANGED <<lock, owner, zombie>>

-----------------------------------------------------------------------------
Step(e) ==
  \/ Ask(e) \/ AcquireDb(e) \/ AcquireFails(e) \/ Enter(e)
  \/ StartRenew(e) \/ RenewDb(e) \/ RenewOk(e) \/ RenewRefused(e) \/ RenewFails(e) \/ LateRenew(e)
  \/ StartCli(e) \/ StartWrite(e) \/ CheckFence(e) \/ Commit(e) \/ WriteFails(e) \/ SeeLost(e)
  \/ EndDrive(e) \/ StopCli(e) \/ Close(e) \/ Release(e) \/ Crash(e)

Next == Tick \/ \E e \in Exec : Step(e)

Spec == Init /\ [][Next]_vars

(* A live process runs its tasks. A run writes a fixed number of events    *)
(* before and after the CLI, and the wall timeout is checked at every head *)
(* of the stream's loop, so neither goes on for ever.                      *)
Fairness ==
  /\ WF_vars(Tick)
  /\ \A e \in Exec :
       /\ WF_vars(AcquireDb(e) \/ AcquireFails(e) \/ Enter(e))
       /\ WF_vars(StartRenew(e))
       /\ WF_vars(RenewOk(e) \/ RenewRefused(e) \/ RenewFails(e))
       /\ WF_vars(CheckFence(e) \/ Commit(e) \/ WriteFails(e))
       /\ WF_vars(SeeLost(e) \/ StopCli(e) \/ Release(e))
       /\ SF_vars(StartCli(e) \/ Close(e)) /\ SF_vars(EndDrive(e))

FairSpec == Spec /\ Fairness
-----------------------------------------------------------------------------
(* Properties                                                              *)

(* lock.py: a zombie worker can never write after its successor started.   *)
(* No transaction of a run commits once the lease was granted to another   *)
(* execution, even one of the same run (check_fence and the row lock).     *)
NoZombieWrite == ~zombie

(* A CLI outlives its lease by a bounded time: the delay of the            *)
(* acquisition's reply, one sleep of the heartbeat, the loop's reaction,   *)
(* a write in progress and the stop (_heartbeat, _stream, _stop_adapter).  *)
CliStopsInTime == \A e \in Exec : ex[e].cli => ex[e].until >= -Overrun

(* A session is not blocked for ever by a run that ended, crashed, or lost *)
(* the reply to its acquisition, late renewals included (session_lock).    *)
SessionFreed == \A e \in Exec : (owner = e) ~> (lease.left < 0 \/ owner # e)

-----------------------------------------------------------------------------
(* The inductive invariant behind the theorems of SessionLeaseProofs       *)

(* Which parts of an execution are alive in which phase; the heartbeat of  *)
(* an execution that holds the lock is off only after it set lost.         *)
Shape(x) ==
  /\ x.phase \notin {"idle", "asking", "end"} => x.fence # 0
  /\ x.tx # "none" => x.phase \in {"prep", "drive", "close"}
  /\ x.cli => x.phase \in {"drive", "stop"}
  /\ x.hb # "off" => x.phase \in {"prep", "drive", "stop", "close"}
  /\ x.phase \in {"prep", "drive", "stop", "close"} /\ ~x.lost => x.hb # "off"
  /\ x.lost => x.hb = "off" /\ x.phase \notin {"idle", "asking", "granted"}

(* The local deadline follows the lease at most one reply behind.          *)
Tracks(x) ==
  /\ x.phase \in {"asking", "granted"} => x.el <= Delay
  /\ x.phase = "granted" => x.until >= Ttl - x.el
  /\ x.hb # "off" \/ x.cli => x.dl <= x.until + Delay /\ x.dl <= Ttl
  /\ x.hb = "ok" => x.until >= Ttl - x.hel

(* A heartbeat notices its deadline at most one sleep late.                *)
Beats(x) ==
  /\ x.hb = "sleep" => x.hel <= Beat /\ x.dl >= 1 - x.hel
  /\ x.hb \in {"ask", "ok", "no"} => 1 - Beat <= x.dl /\ x.dl <= Ttl - x.hel

(* How far past its deadline each part of the way to the stop can be.      *)
Reacts(x) ==
  /\ x.phase = "drive" /\ x.tx = "none" =>
       IF x.lost THEN x.tm <= React /\ x.dl >= 1 - Beat - x.tm ELSE x.tm = 0
  /\ x.tx # "none" => x.tm <= WriteTime
  /\ x.phase = "drive" /\ x.tx # "none" => x.dl >= 1 - Beat - React - x.tm
  /\ x.phase = "stop" => x.tm <= StopTime
  /\ x.phase = "stop" /\ x.cli => x.dl >= 1 - Beat - React - WriteTime - x.tm
  /\ x.phase = "drive" => x.cli

Local(x) == Shape(x) /\ Tracks(x) /\ Beats(x) /\ Reacts(x)

(* A token names one acquisition, and a checked one is still the latest.   *)
Fenced(e) ==
  /\ ex[e].fence <= lease.fence
  /\ ex[e].fence # 0 /\ ex[e].fence = lease.fence => owner = e
  /\ ex[e].tx = "locked" => lock = e /\ owner = e

(* Together they are inductive.                                            *)
LeaseInv == TypeOK /\ ~zombie /\ \A e \in Exec : Local(ex[e]) /\ Fenced(e)
=============================================================================
