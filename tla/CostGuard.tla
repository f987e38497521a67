------------------------------ MODULE CostGuard ------------------------------
(***************************************************************************)
(* The money caps (routing/cost_guard.py), the spend counters of the keys  *)
(* (routing/selector.py) and the attempt that reserves, calls, refunds and *)
(* books (services/attempt.py).                                            *)
(*                                                                         *)
(* Money is a number of units. A window (day, month) is its ordinal; a     *)
(* counter belongs to the window its stamp names and reads 0 in any other. *)
(* The parameters of a statement are computed before it is sent: the month *)
(* by the program, the day at the start of the transaction. `at' keeps the *)
(* windows of that moment while the statement is on its way.               *)
(***************************************************************************)
EXTENDS Integers, FiniteSets, Functions

CONSTANTS
  Slot,               \* attempts that may run at the same time
  Key,
  Plans,              \* what the keys and the project may be configured to
  NoKey

Window == {"daily", "monthly"}

(* The rows of api_keys and projects the guard reads, the settings, and    *)
(* the bounds of the model.                                                *)
Plan ==
  [keys : SUBSET Key,                           \* the keys in service
   tier : [Key -> {"free", "trial", "paid"}],
   win : [Key -> SUBSET Window], cap : [Key -> [Window -> Nat]],
   projWin : SUBSET Window, projCap : [Window -> Nat],
   globalCap : Nat,                             \* GLOBAL_DAILY_CAP_USD, 0 for none
   attempts : Nat \ {0},                        \* _ATTEMPTS of retry_terminal_write
   maxCost : Nat,                               \* bound on estimates and costs
   maxDay : Nat \ {0}]                          \* bound on the days that pass

ASSUME CapAssumption ==
  /\ IsFiniteSet(Slot) /\ Slot # {} /\ IsFiniteSet(Key) /\ NoKey \notin Key
  /\ Plans \subseteq Plan

VARIABLES
  plan,     \* the configuration this behaviour runs with
  now,      \* the current windows
  key,      \* the counters of api_keys and their reset stamps
  spent,    \* usage_log: the cost booked on each key in the current windows
  cache,    \* _global_cache
  att,      \* the attempt of each slot
  leaked,   \* history: reservations of the current windows never refunded
  excused   \* history: spend of the current windows no counter answers for

vars == <<plan, now, key, spent, cache, att, leaked, excused>>
hist == <<leaked, excused>>

Tier == plan.tier
KeyWin == plan.win        \* the capped windows of each key
KeyCap == plan.cap
ProjWin == plan.projWin   \* those of the project
ProjCap == plan.projCap
GlobalCap == plan.globalCap
Attempts == plan.attempts
MaxCost == plan.maxCost
MaxDay == plan.maxDay

Money == [Key -> [Window -> Nat]]

Phase == {"idle", "reserve", "project", "projectM", "global", "undo", "call", "release", "record"}

AttState ==
  [phase : Phase, key : Key \cup {NoKey}, est : Nat, cost : Nat,
   out : {"none", "ok", "rejected", "error", "cancel", "forgot"},
   at : [Window -> Nat], hold : [Window -> Nat], tries : Nat, dup : BOOLEAN,
   free : BOOLEAN]

NoWindow == [w \in Window |-> 0]

Over == [phase |-> "idle", key |-> NoKey, est |-> 0, cost |-> 0, out |-> "none",
         at |-> NoWindow, hold |-> NoWindow, tries |-> 0, dup |-> FALSE,
         free |-> FALSE]

TypeOK ==
  /\ plan \in Plans
  /\ now \in [Window -> Nat \ {0}]
  /\ key \in [Key -> [used : [Window -> Nat], stamp : [Window -> Nat]]]
  /\ spent \in Money /\ leaked \in Money /\ excused \in Money
  /\ cache \in [val : Nat, live : BOOLEAN]
  /\ att \in [Slot -> AttState]

NoMoney == [k \in Key |-> [w \in Window |-> 0]]

Init ==
  /\ plan \in Plans
  /\ now = [w \in Window |-> 1]
  /\ key = [k \in Key |-> [used |-> NoWindow, stamp |-> NoWindow]]
  /\ spent = NoMoney /\ leaked = NoMoney /\ excused = NoMoney
  /\ cache = [val |-> 0, live |-> FALSE]
  /\ att = [s \in Slot |-> Over]

SetAtt(s, a) == att' = [att EXCEPT ![s] = a]
Project(w) == SumFunction([k \in Key |-> spent[k][w]])

(* A statement is sent with the windows of this moment.                    *)
Send(a, phase) == [a EXCEPT !.phase = phase, !.at = now]

(* An attempt that is over for the caps and has its row to write: a        *)
(* failure and a refusal are booked at 0.                                  *)
ToBook(a) ==
  IF a.out \in {"ok", "rejected"} THEN Send([a EXCEPT !.hold = NoWindow], "record")
  ELSE Send([Over EXCEPT !.key = a.key, !.out = "error"], "record")

-----------------------------------------------------------------------------
(* The counters                                                            *)

Fresh_lifetime(k, w, view) == key[k].used[w]

(* FRESH_DAILY_COST_SQL, FRESH_MONTHLY_COST_SQL                            *)
Fresh(k, w, view) == IF key[k].stamp[w] # view[w] THEN 0 ELSE key[k].used[w]

(* What a statement sent at `at' takes for the current windows, when its   *)
(* transaction starts at tx.                                               *)
View(at, tx) == [w \in Window |-> IF w = "daily" THEN tx[w] ELSE at[w]]

(* The transaction starts when the statement is sent or when it runs.      *)
Start(s) == {att[s].at, now}

Debit_unstamped(k, ws, c, view) ==
  key' = [key EXCEPT ![k].used =
           [w \in Window |-> IF w \in ws THEN Fresh(k, w, view) + c ELSE @[w]]]

(* SET used = fresh + c, reset_at = view, for the windows ws.              *)
Debit(k, ws, c, view) ==
  key' = [key EXCEPT ![k] =
           [used  |-> [w \in Window |-> IF w \in ws THEN Fresh(k, w, view) + c ELSE @.used[w]],
            stamp |-> [w \in Window |-> IF w \in ws THEN view[w] ELSE @.stamp[w]]]]

Refunded_unclamped(used, c) == used - c

(* GREATEST(0, used - :c)                                                  *)
Refunded(used, c) == IF used >= c THEN used - c ELSE 0

(* release_cost: the stamps are neither compared nor set.                  *)
Credit(k, c) ==
  key' = [key EXCEPT ![k].used =
           [w \in Window |-> IF w \in KeyWin[k] THEN Refunded(@[w], c) ELSE @[w]]]

(* History: the counters of current windows that a write with a view of    *)
(* the past starts again.                                                  *)
Lost(k, ws, view) ==
  {w \in ws : view[w] # now[w] /\ key[k].stamp[w] = now[w] /\ key[k].used[w] > 0}

Excuse(k, ws, view, amount) ==
  excused' = [excused EXCEPT ![k] = [w \in Window |->
    @[w] + amount[w] + (IF w \in Lost(k, ws, view) THEN key[k].used[w] ELSE 0)]]

-----------------------------------------------------------------------------
(* reserve_cost                                                            *)

ZeroCap_none(k) == FALSE

(* A cap of 0 means free providers only.                                   *)
ZeroCap(k) == \/ \E w \in KeyWin[k] : KeyCap[k][w] = 0
              \/ \E w \in ProjWin : ProjCap[w] = 0

(* The walk takes a key below its caps and estimates the cost of the call. *)
(* A model known to be free is estimated at 0, and so is one without price.*)
Pick(s) ==
  /\ att[s].phase = "idle"
  /\ \E k \in plan.keys, est \in 0 .. MaxCost, free \in BOOLEAN :
       LET a == [Over EXCEPT !.key = k, !.est = est, !.free = free]
           exempt == Tier[k] = "free" /\ est = 0
           refused == Tier[k] = "paid" /\ ~free /\ ZeroCap(k)
       IN /\ \A w \in KeyWin[k] : Fresh(k, w, now) < KeyCap[k][w]
          /\ free => est = 0
          /\ \/ exempt /\ SetAtt(s, [a EXCEPT !.phase = "call"])
             \/ refused /\ SetAtt(s, ToBook(a))
             \/ /\ ~exempt /\ ~refused
                /\ SetAtt(s, IF KeyWin[k] = {} THEN [a EXCEPT !.phase = "project"]
                             ELSE Send(a, "reserve"))
  /\ UNCHANGED <<now, key, spent, cache, hist>>

Room_zero(k, est, view) == \A w \in KeyWin[k] : Fresh(k, w, view) <= KeyCap[k][w]

(* WHERE fresh + :c <= cap, for every capped window                        *)
Room(k, est, view) == \A w \in KeyWin[k] : Fresh(k, w, view) + est <= KeyCap[k][w]

(* One UPDATE debits every capped window or none.                          *)
ReserveDb(s, view) ==
  LET k == att[s].key
      est == att[s].est
  IN /\ att[s].phase = "reserve"
     /\ Room(k, est, view)
     /\ Debit(k, KeyWin[k], est, view)
     /\ Excuse(k, KeyWin[k], view,
          [w \in Window |-> IF w \in KeyWin[k] /\ view[w] # now[w] THEN est ELSE 0])
     /\ UNCHANGED <<now, spent, cache>>

Debited(s, view) == [w \in Window |-> IF w \in KeyWin[att[s].key] THEN view[w] ELSE 0]

Reserve(s) ==
  \E tx \in Start(s) :
    LET view == View(att[s].at, tx)
    IN /\ ReserveDb(s, view)
       /\ SetAtt(s, [att[s] EXCEPT !.phase = "project", !.at = NoWindow,
                                      !.hold = Debited(s, view)])
       /\ UNCHANGED leaked

ReserveRefused(s) ==
  /\ att[s].phase = "reserve"
  /\ \E tx \in Start(s) : ~Room(att[s].key, att[s].est, View(att[s].at, tx))
  /\ SetAtt(s, ToBook(att[s]))
  /\ UNCHANGED <<now, key, spent, cache, hist>>

(* How the slot looks after an attempt that never came to its refund.      *)
Forgotten(a) == [Over EXCEPT !.out = IF a.est > 0 THEN "forgot" ELSE "none"]

(* History: an attempt that ends while it holds a reservation.             *)
Leak(k, est, hold) ==
  leaked' = [leaked EXCEPT ![k] =
              [w \in Window |-> IF hold[w] = now[w] THEN @[w] + est ELSE @[w]]]

(* A database error or a cancel while the debit is on its way: it may have *)
(* been committed, and run_attempt catches only CostGuardError.            *)
ReserveDies(s) ==
  \/ \E tx \in Start(s) :
       LET view == View(att[s].at, tx)
       IN /\ ReserveDb(s, view)
          /\ Leak(att[s].key, att[s].est, Debited(s, view))
          /\ SetAtt(s, Forgotten(att[s]))
  \/ /\ att[s].phase = "reserve"
     /\ SetAtt(s, Over)
     /\ UNCHANGED <<now, key, spent, cache, hist>>

ProjectSpent_zero(w, est) == Project(w) > ProjCap[w]

(* The project's SUM over usage_log and the estimate against its cap       *)
ProjectSpent(w, est) == Project(w) + est > ProjCap[w]

(* The daily cap of the project, then the monthly one.                     *)
CheckProject(s) ==
  LET w == IF att[s].phase = "project" THEN "daily" ELSE "monthly"
      over == w \in ProjWin /\ ProjectSpent(w, att[s].est)
  IN /\ att[s].phase \in {"project", "projectM"}
     /\ SetAtt(s, [att[s] EXCEPT !.phase = IF over THEN "undo"
                                           ELSE IF w = "daily" THEN "projectM" ELSE "global"])
     /\ UNCHANGED <<now, key, spent, cache, hist>>

(* _global_cost_today and the comparison with the global cap.              *)
CheckGlobal(s) ==
  LET used == IF cache.live THEN cache.val ELSE Project("daily")
  IN /\ att[s].phase = "global"
     /\ cache' = IF GlobalCap = 0 THEN cache ELSE [val |-> used, live |-> TRUE]
     /\ SetAtt(s, [att[s] EXCEPT !.phase =
          IF GlobalCap > 0 /\ used + att[s].est > GlobalCap THEN "undo" ELSE "call"])
     /\ UNCHANGED <<now, key, spent, hist>>

CacheExpires ==
  /\ cache.live
  /\ cache' = [cache EXCEPT !.live = FALSE]
  /\ UNCHANGED <<now, key, spent, att, hist>>

Undo_none(s) ==
  /\ att[s].phase = "undo"
  /\ SetAtt(s, ToBook(att[s]))
  /\ UNCHANGED <<now, key, spent, cache, hist>>

(* A refusal after the debit refunds it before CostGuardError is raised.   *)
Undo(s) ==
  /\ att[s].phase = "undo"
  /\ Credit(att[s].key, att[s].est)
  /\ SetAtt(s, ToBook(att[s]))
  /\ UNCHANGED <<now, spent, cache, hist>>

(* A database error or a cancel after the debit leaves reserve_cost with   *)
(* an exception that no refund follows.                                    *)
CheckDies(s) ==
  /\ \/ /\ att[s].phase = "undo"
        /\ Credit(att[s].key, att[s].est)
        /\ SetAtt(s, Over)
        /\ UNCHANGED leaked
     \/ /\ att[s].phase \in {"project", "projectM", "global", "undo"}
        /\ Leak(att[s].key, att[s].est, att[s].hold)
        /\ SetAtt(s, IF att[s].hold = NoWindow THEN Over ELSE Forgotten(att[s]))
        /\ UNCHANGED key
  /\ UNCHANGED <<now, spent, cache, excused>>

-----------------------------------------------------------------------------
(* The call and what follows it                                            *)

(* `reserved' is the estimate; nothing is refunded when it is 0.           *)
AfterCall(a) == IF a.est > 0 THEN [a EXCEPT !.phase = "release"]
                ELSE IF a.out = "cancel" THEN Over ELSE ToBook(a)

(* _billed_cost, and the price of a model known to be free                 *)
Billed(a) == ~a.free /\ (Tier[a.key] = "free" => a.est > 0)

(* The provider answers, fails, or the request is cancelled.               *)
Call(s) ==
  /\ att[s].phase = "call"
  /\ \/ \E c \in 0 .. MaxCost : \E out \in {"ok", "rejected"} :
          /\ Billed(att[s]) \/ c = 0
          /\ SetAtt(s, AfterCall([att[s] EXCEPT !.cost = c, !.out = out, !.free = FALSE]))
     \/ \E out \in {"error", "cancel"} :
          SetAtt(s, AfterCall([att[s] EXCEPT !.out = out, !.free = FALSE]))
  /\ UNCHANGED <<now, key, spent, cache, hist>>

(* _release_reservation: shielded; a failed refund is swallowed.           *)
Release(s) ==
  /\ att[s].phase = "release"
  /\ \/ Credit(att[s].key, att[s].est) /\ UNCHANGED leaked
     \/ Leak(att[s].key, att[s].est, att[s].hold) /\ UNCHANGED key
  /\ SetAtt(s, IF att[s].out = "cancel" THEN Over ELSE ToBook(att[s]))
  /\ UNCHANGED <<now, spent, cache, excused>>

(* A cancel during the refund ends the attempt; the refund goes on.        *)
ReleaseCancelled(s) ==
  /\ att[s].phase = "release" /\ att[s].out # "cancel"
  /\ SetAtt(s, [att[s] EXCEPT !.out = "cancel"])
  /\ UNCHANGED <<now, key, spent, cache, hist>>

(* record_usage: one statement inserts the row and adds to the counters.   *)
BookDb(s, a) ==
  LET k == att[s].key
      c == att[s].cost
  IN /\ att[s].phase = "record"
     /\ \E tx \in Start(s) :
          LET view == View(att[s].at, tx)
              inLog == [w \in Window |-> tx[w] = now[w]]
          IN /\ Debit(k, Window, c, view)
             /\ spent' = [spent EXCEPT ![k] = [w \in Window |-> @[w] + (IF inLog[w] THEN c ELSE 0)]]
             /\ Excuse(k, Window, view, [w \in Window |->
                  IF ~inLog[w] THEN 0
                  ELSE IF view[w] # now[w] \/ att[s].dup THEN c
                  ELSE IF c > att[s].est THEN c - att[s].est ELSE 0])
     /\ SetAtt(s, a)

Book(s) == BookDb(s, Over) /\ UNCHANGED <<now, cache, leaked>>

(* retry_terminal_write: a transient error repeats the statement, which    *)
(* may have been committed; the last error ends the attempt.               *)
Retried(a, done) ==
  IF a.tries + 1 < Attempts
    THEN Send([a EXCEPT !.tries = a.tries + 1, !.dup = (a.dup \/ done)], "record") ELSE Over

BookUnacked(s) ==
  /\ BookDb(s, Retried(att[s], TRUE))
  /\ UNCHANGED <<now, cache, leaked>>

BookFails(s) ==
  /\ att[s].phase = "record"
  /\ SetAtt(s, Retried(att[s], FALSE))
  /\ UNCHANGED <<now, key, spent, cache, hist>>

(* Only the booking of a good answer is shielded from a cancel.            *)
BookCancelled(s) ==
  /\ att[s].phase = "record" /\ att[s].out # "ok"
  /\ SetAtt(s, Over)
  /\ UNCHANGED <<now, key, spent, cache, hist>>

-----------------------------------------------------------------------------
(* Estimates that a released attempt has not turned into a booking yet.    *)
Owed(a) == IF a.phase = "record" /\ ~a.dup
             THEN (IF a.cost < a.est THEN a.cost ELSE a.est) ELSE 0
Holds(a, w) == IF a.hold[w] # 0 THEN a.est ELSE 0
OnKey(s, k, amount) == IF att[s].key = k THEN amount ELSE 0

(* A day ends, and perhaps a month. Nothing is written: counters are reset *)
(* by the next statement that touches them.                                *)
Roll ==
  /\ now["daily"] < MaxDay
  /\ \E ws \in {{"daily"}, Window} :
       LET Reset(m) == [k \in Key |-> [w \in Window |-> IF w \in ws THEN 0 ELSE m[k][w]]]
       IN /\ now' = [w \in Window |-> IF w \in ws THEN now[w] + 1 ELSE now[w]]
          /\ spent' = Reset(spent) /\ leaked' = Reset(leaked)
          /\ excused' = [k \in Key |-> [w \in Window |->
               IF w \in ws THEN SumFunction([s \in Slot |-> OnKey(s, k, Holds(att[s], w) + Owed(att[s]))])
               ELSE excused[k][w]]]
  /\ UNCHANGED <<key, cache, att>>

Step(s) ==
  \/ Pick(s) \/ Reserve(s) \/ ReserveRefused(s) \/ ReserveDies(s)
  \/ CheckProject(s) \/ CheckGlobal(s) \/ Undo(s) \/ CheckDies(s)
  \/ Call(s) \/ Release(s) \/ ReleaseCancelled(s)
  \/ Book(s) \/ BookUnacked(s) \/ BookFails(s) \/ BookCancelled(s)

Next == UNCHANGED plan /\ (Roll \/ CacheExpires \/ \E s \in Slot : Step(s))

Spec == Init /\ [][Next]_vars

-----------------------------------------------------------------------------
(* Properties                                                              *)

Held(k, w) ==
  SumFunction([s \in Slot |->
    OnKey(s, k, IF att[s].hold[w] = now[w] THEN att[s].est ELSE 0)])

(* The counter never misses money: what is booked or reserved on a key in  *)
(* the current window is in its counter, up to the excused amounts         *)
(* (reserve_cost, release_cost, record_usage and the lazy reset).          *)
NothingMissed ==
  \A k \in Key : \A w \in KeyWin[k] :
    Fresh(k, w, now) + excused[k][w] >= spent[k][w] + Held(k, w)

(* The counter holds nothing twice: a key is refused work only for money   *)
(* booked, reserved, or reserved by an attempt whose refund was lost.      *)
NothingInvented ==
  \A k \in Key : \A w \in KeyWin[k] :
    Fresh(k, w, now) <= spent[k][w] + Held(k, w) + leaked[k][w]

(* A key's cap is overshot by at most one estimate per other concurrent    *)
(* attempt, the one that is between its refund and its booking.            *)
KeyOvershoot ==
  \A k \in Key : \A w \in KeyWin[k] :
    spent[k][w] <= KeyCap[k][w] + (Cardinality(Slot) - 1) * MaxCost + excused[k][w]

(* The same for a project's cap, which is compared with the booked cost.   *)
ProjectOvershoot ==
  \A w \in ProjWin :
    Project(w) <= ProjCap[w] + (Cardinality(Slot) - 1) * MaxCost
                  + SumFunction([k \in Key |-> excused[k][w]])

(* A project with a cap of 0 spends nothing on paid keys, models without a *)
(* price included (the refusal of reserve_cost before any reservation).    *)
ZeroCapSpendsNothing ==
  (\E w \in ProjWin : ProjCap[w] = 0) =>
    \A k \in Key : Tier[k] = "paid" => spent[k] = NoWindow

(* attempt.py: every path that called reserve_cost reaches the refund.     *)
EveryPathReleases == \A s \in Slot : att[s].out # "forgot"
=============================================================================
