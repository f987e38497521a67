-------------------------- MODULE KeyMonitorProofs --------------------------
(***************************************************************************)
(* What the monitor's sweep may do to a key row it read before its probes, *)
(* for every kind of key, all lengths of parks and any number of calls,    *)
(* sweeps and changes in between; in the second part, that the model       *)
(* comparison keeps one question per caller and every answer it saved; in  *)
(* the third, that the alerts of the checks after a sweep are throttled.   *)
(***************************************************************************)
EXTENDS MCBackground, TLAPS

WorldState ==
  [revoked: BOOLEAN, funds: BOOLEAN, quota: Quota, net: {"up", "down", "failing"},
   spent: BOOLEAN, sealed: BOOLEAN]

RowState ==
  [exists: BOOLEAN, active: BOOLEAN, alive: BOOLEAN, cool: 0..Month, err: Cause,
   tier: {"free", "paid"}]

CallState ==
  [pc: {"none", "out", "book"}, reply: Reply \cup {"none"}, quota: Quota, hint: {0, 1, Day}]

KindState == [probe: {"list", "gen", "none"}, micro: BOOLEAN, vibe: BOOLEAN]

MonState ==
  [pc: {"sleep", "probing", "writing", "tail"}, here: BOOLEAN, alive: BOOLEAN,
   sealed: BOOLEAN, sweep: 0..(EveryN - 1), broke: BOOLEAN, billable: BOOLEAN,
   verdict: Verdict]

Typed ==
  /\ world \in WorldState /\ kind \in KindState /\ row \in RowState /\ strikes \in 0..2
  /\ call \in CallState /\ mon \in MonState /\ file \in BOOLEAN /\ tail \in BOOLEAN
  /\ revived \in [broke: BOOLEAN, billable: BOOLEAN] /\ moves \in Nat /\ calls \in Nat

(* A key that cannot be probed has no verdict that changes its row.        *)
Unprobed == kind.probe = "none" => mon.verdict \in {"none", "skip"}

(* A sweep that read an empty balance bills its probe, even if the row has *)
(* changed since.                                                          *)
BrokeIsBilled == mon.broke => mon.billable

MonitorInv == Typed /\ Unprobed /\ BrokeIsBilled /\ KnownBillingDeathNeedsBilledCall

-----------------------------------------------------------------------------
(* The length of a park from the backoff ladder.                           *)
LEMMA LadderType ==
  ASSUME NEW n \in 0..3
  PROVE  cooldown_seconds(n) \in 0..MaxCooldown
  <1>1. 2^0 = 1 /\ 2^1 = 2 /\ 2^2 = 4 /\ 2^3 = 8
    OBVIOUS
  <1>2. n = 0 \/ n = 1 \/ n = 2 \/ n = 3
    OBVIOUS
  <1>3. 2^n \in Nat
    <2>1. CASE n = 0
      BY <1>1, <2>1
    <2>2. CASE n = 1
      BY <1>1, <2>2
    <2>3. CASE n = 2
      BY <1>1, <2>3
    <2>4. CASE n = 3
      BY <1>1, <2>4
    <2> QED
      BY <1>2, <2>1, <2>2, <2>3, <2>4
  <1> QED
    BY <1>3, MonitorAssumption DEF cooldown_seconds, Min2

(* Whatever a throttled call was told, its park ends within a month.       *)
LEMMA ParkType ==
  ASSUME Typed, NEW u \in cooldown_until(call)
  PROVE  u \in 0..Month
  <1>1. adaptive_cooldown(call.reply) \in 0..MaxCooldown
    BY LadderType DEF adaptive_cooldown, Typed
  <1>2. call.hint \in {0, 1, Day}
    BY DEF Typed, CallState
  <1>3. u = Max2(call.hint, adaptive_cooldown(call.reply)) \/ u \in Until(Month)
        \/ u \in Until(Day) \/ u \in Until(Hour) \/ u = adaptive_cooldown(call.reply)
    BY DEF cooldown_until
  <1>4. CASE u = Max2(call.hint, adaptive_cooldown(call.reply))
    BY <1>1, <1>2, <1>4, MonitorAssumption DEF Max2
  <1>5. CASE u \in Until(Month) \/ u \in Until(Day) \/ u \in Until(Hour)
    BY <1>5, MonitorAssumption DEF Until
  <1>6. CASE u = adaptive_cooldown(call.reply)
    BY <1>1, <1>6, MonitorAssumption
  <1> QED
    BY <1>3, <1>4, <1>5, <1>6

(* A verdict's park ends within a month and never before the present one.  *)
LEMMA ExtendType ==
  ASSUME Typed, NEW v, NEW u \in _cooldown_end(v)
  PROVE  /\ _extend_cooldown_values(u).cool \in 0..Month
         /\ _extend_cooldown_values(u).cool >= row.cool
         /\ _extend_cooldown_values(u).err \in Cause
  <1>1. u \in 0..Month
    BY MonitorAssumption DEF _cooldown_end, Until
  <1>2. row.cool \in 0..Month /\ row.err \in Cause /\ "throttle" \in Cause
    BY DEF Typed, RowState, Cause
  <1> QED
    BY <1>1, <1>2, MonitorAssumption DEF _extend_cooldown_values, Max2

(* What a sweep writes to the row, in all cases.                           *)
LEMMA JudgedRow ==
  ASSUME MonitorInv, Judged
  PROVE  /\ row' \in RowState
         /\ row'.cool >= row.cool
         /\ file' \in BOOLEAN
         /\ \/ revived' = revived
            \/ mon.verdict \notin {"none", "skip"} /\ revived' = Revival
         /\ row'.alive => row.alive \/ mon.verdict \notin {"none", "skip"}
  <1>0. row \in RowState /\ file \in BOOLEAN /\ row.cool \in Int /\ row.cool >= row.cool
    BY MonitorAssumption DEF MonitorInv, Typed, RowState
  <1>c. {"none", "billing", "auth", "decrypt"} \subseteq Cause
    BY DEF Cause
  <1>1. CASE mon.sealed /\ row' = Killed("decrypt") /\ alert(mon.alive) /\ UNCHANGED revived
    BY <1>0, <1>1, <1>c DEF Killed, alert, RowState
  <1>2. CASE UNCHANGED <<row, file, revived>>
    BY <1>0, <1>2
  <1>3. CASE /\ mon.verdict = "alive" /\ row' = Alive /\ recover(mon.alive)
             /\ revived' = IF row.alive THEN revived ELSE Revival
    BY <1>0, <1>3, <1>c DEF Alive, recover, RowState
  <1>4. CASE /\ mon.verdict \in {"cooldown", "monthly"}
             /\ \E u \in _cooldown_end(mon.verdict): row' = Cooled(u)
             /\ recover(mon.alive)
             /\ revived' = IF row.alive THEN revived ELSE Revival
    <2>1. PICK u \in _cooldown_end(mon.verdict): row' = Cooled(u)
      BY <1>4
    <2>2. /\ _extend_cooldown_values(u).cool \in 0..Month
          /\ _extend_cooldown_values(u).cool >= row.cool
          /\ _extend_cooldown_values(u).err \in Cause
      BY ExtendType DEF MonitorInv
    <2> QED
      BY <1>0, <1>4, <2>1, <2>2 DEF Cooled, recover, RowState
  <1>5. CASE /\ mon.verdict \in {"dead", "broke"}
             /\ row' = Killed(IF mon.verdict = "broke" THEN "billing" ELSE "auth")
             /\ alert(mon.alive) /\ UNCHANGED revived
    BY <1>0, <1>5, <1>c DEF Killed, alert, RowState
  <1> QED
    BY <1>1, <1>2, <1>3, <1>4, <1>5 DEF Judged

-----------------------------------------------------------------------------
(* A key row as it is created satisfies the invariant.                     *)
LEMMA MonitorInit == Init => MonitorInv
  <1> SUFFICES ASSUME Init PROVE MonitorInv
    OBVIOUS
  <1>1. world \in WorldState
    BY DEF Init, WorldState, Quota
  <1>2. kind \in KindState /\ mon \in MonState
    BY MonitorAssumption DEF Init, KindState, MonState, NoSweep, Verdict
  <1>3. row \in RowState
    <2>1. 0 \in 0..Month
      BY MonitorAssumption
    <2> QED
      BY <2>1 DEF Init, RowState, Cause
  <1>4. call \in CallState
    BY DEF Init, NoCall, CallState, Reply, Quota
  <1>5. strikes \in 0..2 /\ moves \in Nat /\ calls \in Nat
    BY DEF Init
  <1>6. file \in BOOLEAN /\ tail \in BOOLEAN
    BY DEF Init
  <1>7. revived \in [broke: BOOLEAN, billable: BOOLEAN] /\ KnownBillingDeathNeedsBilledCall
    BY DEF Init, NotRevived, KnownBillingDeathNeedsBilledCall
  <1>8. Unprobed /\ BrokeIsBilled
    BY DEF Init, NoSweep, Unprobed, BrokeIsBilled
  <1> QED
    BY <1>1, <1>2, <1>3, <1>4, <1>5, <1>6, <1>7, <1>8 DEF MonitorInv, Typed

(* Live traffic changes neither the sweep nor the kind of the key.         *)
LEMMA TrafficInv ==
  ASSUME MonitorInv, CallBegin \/ CallAnswer \/ CallBook
  PROVE  MonitorInv'
  <1> USE DEF MonitorInv, Typed
  <1>1. CASE CallBegin
    BY <1>1 DEF CallBegin, NoCall, CallState, Reply, Quota, Unprobed, BrokeIsBilled,
                KnownBillingDeathNeedsBilledCall
  <1>2. CASE CallAnswer
    <2>1. call' \in CallState
      <3>1. Heard(TRUE) \cup {"timeout"} \subseteq Reply
        BY DEF Heard, Reply
      <3>2. PICK r \in Reply, h \in {0, 1, Day} :
              call' = [pc |-> "book", reply |-> r, hint |-> h,
                       quota |-> IF r = "429" THEN world.quota ELSE "none"]
        BY <1>2, <3>1 DEF CallAnswer
      <3>3. (IF r = "429" THEN world.quota ELSE "none") \in Quota
        BY DEF WorldState, Quota
      <3> QED
        BY <3>2, <3>3 DEF CallState
    <2> QED
      BY <1>2, <2>1 DEF CallAnswer, Unprobed, BrokeIsBilled,
                        KnownBillingDeathNeedsBilledCall
  <1>3. CASE CallBook
    <2>1. row' \in RowState
      <3>1. {"none", "throttle", "billing", "auth"} \subseteq Cause /\ 0 \in 0..Month
        BY MonitorAssumption DEF Cause
      <3>2. \/ row' = row
            \/ row' = [row EXCEPT !.err = "none", !.cool = 0]
            \/ \E u \in 0..Month : row' = [row EXCEPT !.cool = u, !.err = "throttle"]
            \/ \E c \in {"billing", "auth"} : row' = [row EXCEPT !.alive = FALSE, !.err = c]
        BY <1>3, ParkType DEF CallBook, _recover_set, mark_cooldown, mark_dead
      <3> QED
        BY ZenonT(30), <3>1, <3>2 DEF RowState
    <2>2. strikes' \in 0..2
      BY <1>3 DEF CallBook, Min2
    <2>3. call' \in CallState
      BY <1>3 DEF CallBook, NoCall, CallState, Reply, Quota
    <2> QED
      BY <1>3, <2>1, <2>2, <2>3
      DEF CallBook, Unprobed, BrokeIsBilled, KnownBillingDeathNeedsBilledCall
  <1> QED
    BY <1>1, <1>2, <1>3

(* The start of a sweep: it knows of an empty balance only together with   *)
(* the decision to bill, and has no verdict yet or an old one.             *)
LEMMA ReadInv ==
  ASSUME MonitorInv, TickRead
  PROVE  MonitorInv'
  <1> USE DEF MonitorInv, Typed
  <1>1. mon' \in MonState
    <2> DEFINE pc == IF row.exists /\ row.active /\ ~world.sealed /\ _should_probe
                     THEN "probing" ELSE "writing"
               here == row.exists /\ row.active
               broke == ~row.alive /\ row.err = "billing"
    <2>1. /\ pc \in {"sleep", "probing", "writing", "tail"} /\ here \in BOOLEAN
          /\ world.sealed \in BOOLEAN /\ row.alive \in BOOLEAN /\ broke \in BOOLEAN
          /\ _needs_billable_probe \in BOOLEAN
      BY DEF WorldState, RowState, _needs_billable_probe
    <2>2. mon' = [mon EXCEPT !.pc = pc, !.here = here, !.sealed = world.sealed,
                             !.alive = row.alive, !.broke = broke,
                             !.billable = _needs_billable_probe]
      BY DEF TickRead
    <2> HIDE DEF pc, here, broke
    <2> QED
      BY ZenonT(30), <2>1, <2>2 DEF MonState
  <1>2. mon'.verdict = mon.verdict /\ (mon'.broke => mon'.billable)
    BY DEF TickRead, MonState, _needs_billable_probe
  <1> QED
    BY <1>1, <1>2 DEF TickRead, MonState, Unprobed, BrokeIsBilled,
                      KnownBillingDeathNeedsBilledCall

(* The probes: a key without a probe is skipped.                           *)
LEMMA ProbeInv ==
  ASSUME MonitorInv, Probe
  PROVE  MonitorInv'
  <1> USE DEF MonitorInv, Typed
  <1>1. PICK r : mon' = [mon EXCEPT !.pc = "writing", !.verdict = Judge(r)]
    BY DEF Probe
  <1>2. Judge(r) \in Verdict /\ (kind.probe = "none" => Judge(r) = "skip")
    BY DEF Judge, Verdict
  <1>3. mon' \in MonState /\ mon'.verdict = Judge(r) /\ mon'.broke = mon.broke
        /\ mon'.billable = mon.billable
    BY <1>1, <1>2 DEF MonState
  <1> QED
    BY <1>2, <1>3 DEF Probe, Unprobed, BrokeIsBilled, KnownBillingDeathNeedsBilledCall

(* The sweep's updates.                                                    *)
LEMMA WriteInv ==
  ASSUME MonitorInv, TickWrite
  PROVE  MonitorInv'
  <1>1. mon' \in MonState /\ mon'.verdict = "none" /\ mon'.broke = FALSE
    BY DEF TickWrite, NoSweep, MonitorInv, Typed, MonState, Verdict
  <1>2. CASE Judged
    <2>1. Revival \in [broke: BOOLEAN, billable: BOOLEAN] /\ (Revival.broke => Revival.billable)
      BY DEF Revival, Generates, MonitorInv, Typed, MonState, BrokeIsBilled
    <2>2. revived' \in [broke: BOOLEAN, billable: BOOLEAN] /\ (revived'.broke => revived'.billable)
      BY <1>2, <2>1, JudgedRow DEF MonitorInv, Typed, KnownBillingDeathNeedsBilledCall
    <2> QED
      BY <1>1, <1>2, <2>2, JudgedRow
      DEF TickWrite, MonitorInv, Typed, MonState, Unprobed, BrokeIsBilled,
          KnownBillingDeathNeedsBilledCall
  <1>3. CASE UNCHANGED <<row, file, revived>>
    BY <1>1, <1>3
    DEF TickWrite, MonitorInv, Typed, MonState, Unprobed, BrokeIsBilled,
        KnownBillingDeathNeedsBilledCall
  <1> QED
    BY <1>2, <1>3 DEF TickWrite

(* A sweep that ends, by the tail's check or by a failed statement.        *)
LEMMA EndInv ==
  ASSUME MonitorInv, TickFail \/ _check_paid_tail
  PROVE  MonitorInv'
  <1> USE DEF MonitorInv, Typed
  <1>0. (mon.sweep + 1) % EveryN \in 0..(EveryN - 1)
    BY MonitorAssumption DEF MonState
  <1>1. Slept \in MonState /\ Slept.verdict = "none" /\ Slept.broke = FALSE
    BY <1>0 DEF Slept, NoSweep, MonState, Verdict
  <1>2. CASE TickFail
    <2>1. file' \in {file, TRUE, FALSE} /\ moves' = moves + 1
      BY <1>2 DEF TickFail
    <2>2. file' \in BOOLEAN
      BY <2>1, Zenon
    <2>3. moves' \in Nat
      BY <2>1
    <2> QED
      BY <1>1, <1>2, <2>2, <2>3
      DEF TickFail, Unprobed, BrokeIsBilled, KnownBillingDeathNeedsBilledCall
  <1>3. CASE _check_paid_tail
    <2>1. tail' \in BOOLEAN
      BY <1>3 DEF _check_paid_tail
    <2> QED
      BY <1>1, <1>3, <2>1
      DEF _check_paid_tail, Unprobed, BrokeIsBilled, KnownBillingDeathNeedsBilledCall
  <1> QED
    BY <1>2, <1>3

(* The operator and the provider leave the sweep, the parks and the way    *)
(* the key can be probed alone.                                            *)
LEMMA MoveStep ==
  ASSUME MonitorInv, Move
  PROVE  /\ UNCHANGED <<strikes, call, mon, file, tail, revived, calls>>
         /\ moves' = moves + 1
         /\ kind' \in KindState /\ kind'.probe = kind.probe
         /\ world' \in WorldState
         /\ row' \in RowState
         /\ row'.cool = row.cool
  <1> USE DEF MonitorInv, Typed, RowState, WorldState
  <1>1. CASE UpsertKey
    BY ZenonT(30), <1>1 DEF Move, UpsertKey, Operator, NewLimit, KindState
  <1>2. CASE EditKey
    BY ZenonT(30), <1>2 DEF Move, EditKey, Operator, NewLimit, KindState
  <1>3. CASE dash_toggle_key \/ disable_key \/ delete_key
    BY ZenonT(30), <1>3 DEF Move, dash_toggle_key, disable_key, delete_key, Operator
  <1>4. CASE ProviderChanges
    <2>1. \/ world' = [world EXCEPT !.revoked = TRUE] \/ world' = [world EXCEPT !.funds = ~@]
          \/ world' = [world EXCEPT !.spent = ~@] \/ world' = [world EXCEPT !.sealed = TRUE]
          \/ \E q \in Quota : world' = [world EXCEPT !.quota = q]
          \/ \E n \in {"up", "down", "failing"} : world' = [world EXCEPT !.net = n]
      BY <1>4 DEF ProviderChanges
    <2>2. world' \in WorldState
      BY <2>1 DEF WorldState
    <2> QED
      BY <1>4, <2>2 DEF Move, ProviderChanges
  <1> QED
    BY <1>1, <1>2, <1>3, <1>4 DEF Move

(* The invariant holds in every reachable state, for all constants.        *)
THEOREM MonitorInvariance == Spec => []MonitorInv
  <1>1. ASSUME MonitorInv, [Next]_vars
        PROVE  MonitorInv'
    <2>1. CASE UNCHANGED vars
      BY <1>1, <2>1
      DEF vars, MonitorInv, Typed, Unprobed, BrokeIsBilled,
          KnownBillingDeathNeedsBilledCall
    <2>2. CASE CallBegin \/ CallAnswer \/ CallBook
      BY <1>1, <2>2, TrafficInv
    <2>3. CASE TickRead \/ Probe \/ TickWrite \/ TickFail \/ _check_paid_tail
      BY <1>1, <2>3, ReadInv, ProbeInv, WriteInv, EndInv
    <2>4. CASE Move
      BY <1>1, <2>4, MoveStep
      DEF MonitorInv, Typed, Unprobed, BrokeIsBilled, KnownBillingDeathNeedsBilledCall
    <2>5. CASE Tick
      <3>1. row' \in RowState /\ strikes' \in 0..2
        BY <1>1, <2>5, MonitorAssumption DEF Tick, MonitorInv, Typed, RowState
      <3> QED
        BY <1>1, <2>5, <3>1
        DEF Tick, MonitorInv, Typed, Unprobed, BrokeIsBilled,
            KnownBillingDeathNeedsBilledCall
    <2> QED
      BY <1>1, <2>1, <2>2, <2>3, <2>4, <2>5 DEF Next
  <1> QED
    BY MonitorInit, <1>1, PTL DEF Spec

(* Every variable keeps its type; in particular no park is longer than a   *)
(* month.                                                                  *)
THEOREM MonitorTypes == Spec => []TypeOK
  <1>1. MonitorInv => TypeOK
    BY DEF MonitorInv, Typed, TypeOK, WorldState, RowState, CallState, MonState
  <1> QED
    BY MonitorInvariance, <1>1, PTL

-----------------------------------------------------------------------------
(* What any step does to a park and to a dead key that cannot be probed.   *)
LEMMA StepRespects ==
  ASSUME MonitorInv, Next
  PROVE  ParkExtends /\ StaysDead
  <1>0. row.cool \in Int /\ row.cool >= row.cool /\ moves \in Nat
    BY MonitorAssumption DEF MonitorInv, Typed, RowState
  <1>1. CASE CallBegin \/ CallAnswer
    BY <1>0, <1>1 DEF CallBegin, CallAnswer, ParkExtends, StaysDead
  <1>2. CASE CallBook
    <2>1. UNCHANGED <<mon, moves>> /\ row'.alive => row.alive
      BY <1>2 DEF CallBook, _recover_set, mark_cooldown, mark_dead, MonitorInv, Typed, RowState
    <2>2. UNCHANGED <<mon, moves>>
      BY <1>2 DEF CallBook
    <2> QED
      BY <2>1, <2>2 DEF ParkExtends, StaysDead
  <1>3. CASE TickRead \/ Probe \/ TickFail \/ _check_paid_tail
    BY <1>0, <1>3 DEF TickRead, Probe, TickFail, _check_paid_tail, ParkExtends, StaysDead
  <1>4. CASE TickWrite
    <2>1. CASE Judged
      BY <2>1, JudgedRow DEF MonitorInv, Unprobed, ParkExtends, StaysDead
    <2>2. CASE UNCHANGED <<row, file, revived>>
      BY <1>0, <2>2 DEF ParkExtends, StaysDead
    <2> QED
      BY <1>4, <2>1, <2>2 DEF TickWrite
  <1>5. CASE Move
    BY <1>0, <1>5, MoveStep DEF ParkExtends, StaysDead
  <1>6. CASE Tick
    BY <1>6 DEF Tick, ParkExtends, StaysDead, MonitorInv, Typed
  <1> QED
    BY <1>1, <1>2, <1>3, <1>4, <1>5, <1>6 DEF Next

(* A sweep that decides on a row it read before its probes shortens no     *)
(* park, revives no key that cannot be probed, and takes back no death by  *)
(* an empty balance that it knew of without a billed call (monitor.tick).  *)
THEOREM SweepIsSafe == Spec => SweepRespects
  <1>1. MonitorInv /\ [Next]_vars => [ParkExtends]_vars /\ [StaysDead]_vars
    BY StepRespects
  <1>2. MonitorInv => KnownBillingDeathNeedsBilledCall
    BY DEF MonitorInv
  <1> QED
    BY MonitorInvariance, <1>1, <1>2, PTL
    DEF Spec, SweepRespects, ParkOnlyExtends, UnprobeableStaysDead
-----------------------------------------------------------------------------
(***************************************************************************)
(* The other background task of the run `background': the comparison page. *)
(***************************************************************************)
AskPc == {"browser", "ip", "check", "insert", "busy", "asked", "failed"}

RowStatus == {"absent", "pending", "done", "truncated", "error", "refused", "timeout"}

AskTyped ==
  /\ ask \in [Caller -> [pc: AskPc, browser: Browser, ip: Ip \cup {NoIp}]]
  /\ lock \in [Browser \cup Ip -> Caller \cup {"none"}]
  /\ age \in [Caller -> {"young", "old", "over"}]
  /\ compareRow \in [Caller -> [Model -> [status: RowStatus, job: BOOLEAN]]]

(* A submit holds the lock of its browser from the first statement to the  *)
(* commit, and the lock of its address from the second.                    *)
LocksHeld ==
  \A c \in Caller:
    /\ ask[c].pc \in {"ip", "check", "insert"} => lock[ask[c].browser] = c
    /\ ask[c].pc \in {"check", "insert"} /\ ask[c].ip # NoIp => lock[ask[c].ip] = c

(* What the check saw still holds at the insert.                           *)
CheckHolds ==
  \A c, d \in Caller: ask[c].pc = "insert" /\ Comp!Mine(c, d) => ~Comp!Active(d)

(* What the syncs, the jobs and fan_out's own writes are.                  *)
SyncState ==
  [pc: {"idle", "next", "cancel", "write"}, todo: SUBSET (Model \X BOOLEAN),
   old: BOOLEAN, model: Model \cup {"none"},
   value: {"none", "done", "truncated", "error", "timeout"}]

TrackTyped ==
  /\ job \in [Caller -> [Model -> {"absent", "live", "done", "cut", "failed", "cancelled"}]]
  /\ sent \in [Caller -> [Model -> {"no", "job", "refused", "written"}]]
  /\ sync \in [Caller -> [{"tracker", "poll"} -> SyncState]]
  /\ track \in [Caller -> {"none", "fan", "loop", "ended", "lost"}]

(* A question has rows, and a tracker, only once it was asked.             *)
OnlyAsked ==
  \A c \in Caller: ask[c].pc # "asked" =>
    track[c] \notin {"fan", "loop"} /\ \A m \in Model: compareRow[c][m].status = "absent"

(* A model that refused, or was not asked yet, has no job.                 *)
NoJobYet ==
  \A c \in Caller, m \in Model: sent[c][m] \in {"no", "refused"} => job[c][m] = "absent"

(* An answer, saved or about to be, comes from a job.                      *)
AnswersHaveJobs ==
  /\ \A c \in Caller, m \in Model:
       compareRow[c][m].status \in {"done", "truncated"} => job[c][m] # "absent"
  /\ \A c \in Caller, r \in {"tracker", "poll"}:
       sync[c][r].pc \in {"cancel", "write"} =>
         /\ sync[c][r].model \in Model /\ sync[c][r].value # "none"
         /\ sync[c][r].value \in {"done", "truncated"} => job[c][sync[c][r].model] # "absent"

TrackInv == TrackTyped /\ OnlyAsked /\ NoJobYet /\ AnswersHaveJobs

AskInv == AskTyped /\ LocksHeld /\ CheckHolds /\ Comp!OneActivePerCaller

(* A step that keeps every caller's browser and address and starts no      *)
(* question leaves the questions apart.                                    *)
Quiet ==
  /\ \A c \in Caller: ask'[c].browser = ask[c].browser /\ ask'[c].ip = ask[c].ip
  /\ \A c \in Caller: Comp!Active(c)' => Comp!Active(c)

(* Questions that did not meet before a quiet step do not meet after it.   *)
LEMMA QuietKeepsApart ==
  ASSUME Comp!OneActivePerCaller, Quiet
  PROVE  Comp!OneActivePerCaller'
  BY DEF Quiet, Comp!OneActivePerCaller

(* A quiet step that lets nobody into the insert keeps what was checked.   *)
LEMMA QuietKeepsCheck ==
  ASSUME CheckHolds, Quiet,
         \A c \in Caller: ask'[c].pc = "insert" => ask[c].pc = "insert"
  PROVE  CheckHolds'
  <1>1. \A c, d \in Caller: Comp!Mine(c, d)' => Comp!Mine(c, d)
    BY DEF Quiet, Comp!Mine
  <1> QED
    BY <1>1 DEF CheckHolds, Quiet

(* Writes to the rows that start no question, and the passing of time.     *)
LEMMA RowsQuiet ==
  ASSUME AskTyped, UNCHANGED <<ask, lock>>,
         age' \in [Caller -> {"young", "old", "over"}],
         compareRow' \in [Caller -> [Model -> [status: RowStatus, job: BOOLEAN]]],
         \A c \in Caller: age'[c] = "young" => age[c] = "young",
         \A c \in Caller, m \in Model:
           compareRow'[c][m].status = "pending" => compareRow[c][m].status = "pending",
         AskInv
  PROVE  AskInv'
  <1>1. Quiet
    BY DEF Quiet, Comp!Active
  <1>2. AskTyped' /\ LocksHeld'
    BY DEF AskInv, AskTyped, LocksHeld
  <1> QED
    BY <1>1, <1>2, QuietKeepsApart, QuietKeepsCheck DEF AskInv

(* Every initial state satisfies the invariant: nobody holds a lock and    *)
(* there is no question.                                                   *)
LEMMA AskInit == Comp!Init => AskInv
  <1> SUFFICES ASSUME Comp!Init PROVE AskInv
    OBVIOUS
  <1>1. AskTyped
    BY DEF Comp!Init, Comp!None, Comp!NoRow, AskTyped, AskPc, RowStatus
  <1>2. LocksHeld /\ CheckHolds
    BY DEF Comp!Init, LocksHeld, CheckHolds
  <1>3. \A c \in Caller: ~Comp!Active(c)
    BY DEF Comp!Init, Comp!NoRow, Comp!Active
  <1>4. Comp!OneActivePerCaller
    BY <1>3 DEF Comp!OneActivePerCaller
  <1> QED
    BY <1>1, <1>2, <1>4 DEF AskInv

(* Moving a submit on changes its place and nothing else.                  *)
LEMMA GotoMoves ==
  ASSUME AskTyped, NEW c \in Caller, NEW pc \in AskPc, Comp!Goto(c, pc)
  PROVE  /\ ask' \in [Caller -> [pc: AskPc, browser: Browser, ip: Ip \cup {NoIp}]]
         /\ \A e \in Caller: ask'[e].browser = ask[e].browser /\ ask'[e].ip = ask[e].ip
         /\ \A e \in Caller: e # c => ask'[e] = ask[e]
         /\ ask'[c].pc = pc
  BY DEF AskTyped, Comp!Goto

(* Taking a lock: it was free, so no other submit loses its own.           *)
LEMMA LockInv ==
  ASSUME CallersNamed, AskInv, NEW c \in Caller,
         Comp!LockBrowser(c) \/ Comp!LockIp(c)
  PROVE  AskInv'
  <1>1. /\ UNCHANGED <<age, compareRow>>
        /\ ask' \in [Caller -> [pc: AskPc, browser: Browser, ip: Ip \cup {NoIp}]]
        /\ \A e \in Caller: ask'[e].browser = ask[e].browser /\ ask'[e].ip = ask[e].ip
        /\ \A e \in Caller: e # c => ask'[e] = ask[e]
        /\ ask'[c].pc \in {"ip", "check"} /\ ask[c].pc \in {"browser", "ip"}
    <2>1. CASE Comp!LockBrowser(c)
      <3> DEFINE pc == IF ask[c].ip = NoIp THEN "check" ELSE "ip"
      <3>1. /\ UNCHANGED <<age, compareRow>> /\ ask[c].pc = "browser" /\ Comp!Goto(c, pc)
            /\ pc \in {"ip", "check"} /\ pc \in AskPc
        BY <2>1 DEF Comp!LockBrowser, AskPc
      <3> HIDE DEF pc
      <3> QED
        BY <3>1, GotoMoves DEF AskInv
    <2>2. CASE Comp!LockIp(c)
      <3>1. /\ UNCHANGED <<age, compareRow>> /\ ask[c].pc = "ip" /\ Comp!Goto(c, "check")
            /\ "check" \in AskPc
        BY <2>2 DEF Comp!LockIp, AskPc
      <3> QED
        BY <3>1, GotoMoves DEF AskInv
    <2> QED
      BY <2>1, <2>2
  <1>2. Quiet
    BY <1>1 DEF Quiet, Comp!Active
  <1>3. \A e \in Caller: ask'[e].pc = "insert" => ask[e].pc = "insert"
    BY <1>1
  <1>4. lock' \in [Browser \cup Ip -> Caller \cup {"none"}]
    BY DEF AskInv, AskTyped, Comp!LockBrowser, Comp!LockIp
  <1>5. LocksHeld'
    <2>1. CASE Comp!LockBrowser(c)
      <3>1. /\ lock[ask[c].browser] = "none" /\ ask[c].browser \in Browser \cup Ip
            /\ lock' = [lock EXCEPT ![ask[c].browser] = c]
            /\ ask'[c].pc = IF ask[c].ip = NoIp THEN "check" ELSE "ip"
        BY <2>1 DEF AskInv, AskTyped, Comp!LockBrowser, Comp!Goto, Comp!None
      <3>2. /\ lock'[ask[c].browser] = c
            /\ \A k \in Browser \cup Ip, e \in Caller: lock[k] = e => lock'[k] = e
        BY <3>1 DEF AskInv, AskTyped, CallersNamed
      <3>3. ASSUME NEW e \in Caller, e # c
            PROVE  /\ ask[e].browser \in Browser \cup Ip
                   /\ ask[e].ip # NoIp => ask[e].ip \in Browser \cup Ip
        BY DEF AskInv, AskTyped
      <3>4. ask'[c].pc = "check" => ask'[c].ip = NoIp
        BY <1>1, <3>1
      <3> QED
        BY <1>1, <3>2, <3>3, <3>4 DEF LocksHeld, AskInv
    <2>2. CASE Comp!LockIp(c)
      <3>1. /\ ask[c].pc = "ip" /\ lock[ask[c].ip] = "none"
            /\ lock' = [lock EXCEPT ![ask[c].ip] = c]
        BY <2>2 DEF Comp!LockIp, Comp!None
      <3>2. ask[c].ip # NoIp \/ ask[c].ip \in Browser \cup Ip \/ lock' = lock
        BY <3>1 DEF AskInv, AskTyped
      <3> QED
        BY SMTT(30), <1>1, <3>1, <3>2 DEF LocksHeld, AskInv, AskTyped, CallersNamed
    <2> QED
      BY <2>1, <2>2
  <1> QED
    BY <1>1, <1>2, <1>3, <1>4, <1>5, QuietKeepsApart, QuietKeepsCheck DEF AskInv, AskTyped

(* Letting go of one's own locks takes nobody else's.                      *)
LEMMA UnlockKeeps ==
  ASSUME AskTyped, CallersNamed, NEW c \in Caller, lock' = Comp!Unlocked(c)
  PROVE  /\ lock' \in [Browser \cup Ip -> Caller \cup {"none"}]
         /\ \A k \in Browser \cup Ip, e \in Caller: e # c /\ lock[k] = e => lock'[k] = e
  BY DEF AskTyped, Comp!Unlocked, Comp!None

(* A caller that leaves the transaction frees its locks; the others keep   *)
(* theirs.                                                                 *)
LEMMA LeaveKeepsLocks ==
  ASSUME AskInv, CallersNamed, NEW c \in Caller, lock' = Comp!Unlocked(c),
         \A e \in Caller: e # c => ask'[e] = ask[e],
         ask'[c].pc \in {"busy", "asked"}
  PROVE  LocksHeld'
  <1>1. ASSUME NEW e \in Caller, ask'[e].pc \in {"ip", "check", "insert"}
        PROVE  e # c /\ ask'[e] = ask[e] /\ ask[e].browser \in Browser \cup Ip
    BY <1>1 DEF AskInv, AskTyped
  <1>2. ASSUME NEW e \in Caller, ask'[e].pc \in {"ip", "check", "insert"}
        PROVE  lock'[ask'[e].browser] = e
    BY <1>1, <1>2, UnlockKeeps DEF AskInv, LocksHeld
  <1>3. ASSUME NEW e \in Caller, ask'[e].pc \in {"check", "insert"}, ask'[e].ip # NoIp
        PROVE  lock'[ask'[e].ip] = e
    <2>1. ask[e].ip \in Browser \cup Ip
      BY <1>1, <1>3 DEF AskInv, AskTyped
    <2> QED
      BY <1>1, <1>3, <2>1, UnlockKeeps DEF AskInv, LocksHeld
  <1> QED
    BY <1>2, <1>3 DEF LocksHeld

(* The check: busy, or on to the insert with nobody's question active.     *)
LEMMA CheckInv ==
  ASSUME CallersNamed, AskInv, NEW c \in Caller, Comp!Check(c)
  PROVE  AskInv'
  <1>1. /\ UNCHANGED <<age, compareRow>>
        /\ ask' \in [Caller -> [pc: AskPc, browser: Browser, ip: Ip \cup {NoIp}]]
        /\ \A e \in Caller: ask'[e].browser = ask[e].browser /\ ask'[e].ip = ask[e].ip
        /\ \A e \in Caller: e # c => ask'[e] = ask[e]
        /\ ask[c].pc = "check"
    <2>1. /\ UNCHANGED <<age, compareRow>> /\ ask[c].pc = "check"
          /\ Comp!Goto(c, "busy") \/ Comp!Goto(c, "insert")
          /\ "busy" \in AskPc /\ "insert" \in AskPc
      BY DEF Comp!Check, AskPc
    <2> QED
      BY <2>1, GotoMoves DEF AskInv
  <1>2. Quiet
    BY <1>1 DEF Quiet, Comp!Active
  <1>3. CASE Comp!active_request_id(c) # {}
    <2>1. lock' = Comp!Unlocked(c) /\ ask'[c].pc = "busy"
      BY <1>3 DEF Comp!Check, Comp!Goto, AskInv, AskTyped
    <2>2. LocksHeld' /\ lock' \in [Browser \cup Ip -> Caller \cup {"none"}]
      BY <1>1, <2>1, LeaveKeepsLocks, UnlockKeeps DEF AskInv
    <2>3. CheckHolds'
      BY <1>1, <1>2, <2>1, QuietKeepsCheck DEF AskInv
    <2> QED
      BY <1>1, <1>2, <2>2, <2>3, QuietKeepsApart DEF AskInv, AskTyped
  <1>4. CASE Comp!active_request_id(c) = {}
    <2>1. lock' = lock /\ ask'[c].pc = "insert"
      BY <1>4 DEF Comp!Check, Comp!Goto, AskInv, AskTyped
    <2>2. LocksHeld'
      BY <1>1, <2>1 DEF LocksHeld, AskInv
    <2>3. \A d \in Caller: Comp!Mine(c, d) => ~Comp!Active(d)
      BY <1>4 DEF Comp!active_request_id
    <2>4. \A e, d \in Caller: Comp!Mine(e, d)' => Comp!Mine(e, d)
      BY <1>1 DEF Comp!Mine
    <2>5. CheckHolds'
      BY <1>1, <1>2, <2>3, <2>4 DEF CheckHolds, Quiet, AskInv
    <2> QED
      BY <1>1, <1>2, <2>1, <2>2, <2>5, QuietKeepsApart DEF AskInv, AskTyped
  <1> QED
    BY <1>3, <1>4

(* The insert: what was checked is still true of the others, and nobody    *)
(* who shares the browser or the address is past the same locks.           *)
LEMMA InsertInv ==
  ASSUME CallersNamed, AskInv, NEW c \in Caller, Comp!Insert(c)
  PROVE  AskInv'
  <1>1. /\ ask' \in [Caller -> [pc: AskPc, browser: Browser, ip: Ip \cup {NoIp}]]
        /\ \A e \in Caller: ask'[e].browser = ask[e].browser /\ ask'[e].ip = ask[e].ip
        /\ \A e \in Caller: e # c => ask'[e] = ask[e]
        /\ ask[c].pc = "insert" /\ ask'[c].pc = "asked"
        /\ age' = age /\ lock' = Comp!Unlocked(c)
    BY DEF AskInv, AskTyped, AskPc, Comp!Insert, Comp!Goto
  <1>2. /\ compareRow' \in [Caller -> [Model -> [status: RowStatus, job: BOOLEAN]]]
        /\ \A e \in Caller: e # c => compareRow'[e] = compareRow[e]
    BY DEF AskInv, AskTyped, RowStatus, Comp!Insert
  <1>3. AskTyped' /\ LocksHeld'
    BY <1>1, <1>2, LeaveKeepsLocks, UnlockKeeps DEF AskInv, AskTyped
  <1>4. \A e \in Caller: e # c => (Comp!Active(e)' <=> Comp!Active(e))
    BY <1>1, <1>2 DEF Comp!Active
  <1>5. \A e, d \in Caller: Comp!Mine(e, d)' <=> Comp!Mine(e, d)
    BY <1>1 DEF Comp!Mine
  <1>6. \A e \in Caller: Comp!Mine(c, e) => ~Comp!Active(e)
    BY <1>1 DEF AskInv, CheckHolds
  <1>7. Comp!OneActivePerCaller'
    <2>1. ASSUME NEW e \in Caller, NEW d \in Caller, e # d,
                 Comp!Active(e)', Comp!Active(d)'
          PROVE  ~Comp!Mine(e, d)
      <3>1. CASE e = c
        BY <2>1, <3>1, <1>4, <1>6
      <3>2. CASE d = c
        BY <2>1, <3>2, <1>4, <1>6 DEF Comp!Mine
      <3>3. CASE e # c /\ d # c
        BY <2>1, <3>3, <1>4 DEF AskInv, Comp!OneActivePerCaller, Comp!Mine
      <3> QED
        BY <3>1, <3>2, <3>3
    <2> QED
      BY <2>1, <1>1 DEF Comp!OneActivePerCaller, Comp!Mine
  <1>8. CheckHolds'
    <2> SUFFICES ASSUME NEW e \in Caller, NEW d \in Caller, ask'[e].pc = "insert",
                        Comp!Mine(e, d)
                 PROVE  ~Comp!Active(d)'
      BY <1>5 DEF CheckHolds
    <2>1. e # c /\ ask[e].pc = "insert"
      BY <1>1
    <2>2. d # c
      <3>1. ~Comp!Mine(e, c)
        BY <1>1, <2>1 DEF AskInv, LocksHeld, Comp!Mine
      <3> QED
        BY <3>1
    <2> QED
      BY <2>1, <2>2, <1>4 DEF AskInv, CheckHolds
  <1> QED
    BY <1>3, <1>7, <1>8 DEF AskInv

(* A restart rolls every open transaction back.                            *)
LEMMA RestartInv ==
  ASSUME AskInv, Comp!Restart
  PROVE  AskInv'
  <1>1. /\ UNCHANGED <<age, compareRow>>
        /\ ask' = [c \in Caller |-> IF ask[c].pc \in {"asked", "busy"} THEN ask[c]
                                    ELSE [ask[c] EXCEPT !.pc = "failed"]]
        /\ lock' = [k \in DOMAIN lock |-> "none"]
    BY DEF Comp!Restart, Comp!None
  <1>2. AskTyped'
    BY <1>1 DEF AskInv, AskTyped, AskPc
  <1>3. \A c \in Caller: ask'[c].browser = ask[c].browser /\ ask'[c].ip = ask[c].ip
    BY <1>1 DEF AskInv, AskTyped
  <1>4. \A c \in Caller: ask'[c].pc \notin {"ip", "check", "insert"}
    BY <1>1 DEF AskInv, AskTyped
  <1>5. Quiet
    BY <1>1, <1>3 DEF Quiet, Comp!Active
  <1>6. LocksHeld' /\ CheckHolds'
    BY <1>4 DEF LocksHeld, CheckHolds
  <1> QED
    BY <1>2, <1>5, <1>6, QuietKeepsApart DEF AskInv

(* The writes to the result rows: none makes a row pending.                *)
LEMMA SubmitWriteInv ==
  ASSUME AskInv, NEW c \in Caller, NEW m \in Model, Comp!SubmitWrite(c, m)
  PROVE  AskInv'
  <1> DEFINE new == IF sent[c][m] = "job" THEN [compareRow[c][m] EXCEPT !.job = TRUE]
                    ELSE [compareRow[c][m] EXCEPT !.status = "refused"]
  <1>1. /\ UNCHANGED <<ask, lock, age>>
        /\ compareRow' = [compareRow EXCEPT ![c][m] = new]
    BY DEF Comp!SubmitWrite
  <1>2. compareRow[c][m] \in [status: RowStatus, job: BOOLEAN]
    BY DEF AskInv, AskTyped
  <1>3. /\ new \in [status: RowStatus, job: BOOLEAN]
        /\ new.status = "pending" => compareRow[c][m].status = "pending"
    BY <1>2 DEF RowStatus
  <1> HIDE DEF new
  <1>4. /\ compareRow' \in [Caller -> [Model -> [status: RowStatus, job: BOOLEAN]]]
        /\ \A e \in Caller, n \in Model:
             compareRow'[e][n].status = "pending" => compareRow[e][n].status = "pending"
    BY <1>1, <1>3 DEF AskInv, AskTyped
  <1> QED
    BY <1>1, <1>4, RowsQuiet DEF AskInv, AskTyped

(* A sync writes only where the row is pending, and never that.            *)
LEMMA SyncWriteInv ==
  ASSUME AskInv, NEW c \in Caller, NEW r \in Comp!Runner, Comp!SyncWrite(c, r),
         sync[c][r].value \in RowStatus, sync[c][r].model \in Model
  PROVE  AskInv'
  <1> DEFINE m == sync[c][r].model
  <1> DEFINE v == sync[c][r].value
  <1> DEFINE new == [compareRow[c][m] EXCEPT !.status = Comp!Written(@, v)]
  <1>1. /\ UNCHANGED <<ask, lock, age>> /\ v \in RowStatus /\ m \in Model
        /\ compareRow' = [compareRow EXCEPT ![c][m] = new]
    BY DEF Comp!SyncWrite
  <1> HIDE DEF m, v
  <1>2. compareRow[c][m] \in [status: RowStatus, job: BOOLEAN]
    BY <1>1 DEF AskInv, AskTyped
  <1>3. /\ new \in [status: RowStatus, job: BOOLEAN]
        /\ new.status = "pending" => compareRow[c][m].status = "pending"
    BY <1>1, <1>2 DEF Comp!Written
  <1> HIDE DEF new
  <1>4. /\ compareRow' \in [Caller -> [Model -> [status: RowStatus, job: BOOLEAN]]]
        /\ \A e \in Caller, n \in Model:
             compareRow'[e][n].status = "pending" => compareRow[e][n].status = "pending"
    BY <1>1, <1>3 DEF AskInv, AskTyped
  <1> QED
    BY <1>1, <1>4, RowsQuiet DEF AskInv, AskTyped

(* One sync moves, the others stand still.                                 *)
LEMMA SyncMoves ==
  ASSUME TrackTyped, NEW c \in Caller, NEW r \in {"tracker", "poll"}, NEW s \in SyncState,
         Comp!SetSync(c, r, s)
  PROVE  /\ sync' \in [Caller -> [{"tracker", "poll"} -> SyncState]]
         /\ sync'[c][r] = s
         /\ \A e \in Caller, q \in {"tracker", "poll"}: <<e, q>> # <<c, r>> => sync'[e][q] = sync[e][q]
  BY DEF TrackTyped, Comp!SetSync

(* A sync that is not about to write anything it cannot write.             *)
LEMMA SyncOnly ==
  ASSUME TrackInv, NEW c \in Caller, NEW r \in {"tracker", "poll"}, NEW s \in SyncState,
         Comp!SetSync(c, r, s), UNCHANGED <<ask, compareRow, job, sent, track>>,
         s.pc \in {"cancel", "write"} =>
           /\ s.model \in Model /\ s.value # "none"
           /\ s.value \in {"done", "truncated"} => job[c][s.model] # "absent"
  PROVE  TrackInv'
  <1>1. TrackTyped'
    BY SyncMoves DEF TrackInv, TrackTyped
  <1>2. OnlyAsked' /\ NoJobYet'
    BY DEF TrackInv, OnlyAsked, NoJobYet
  <1>3. ASSUME NEW e \in Caller, NEW q \in {"tracker", "poll"},
               sync'[e][q].pc \in {"cancel", "write"}
        PROVE  /\ sync'[e][q].model \in Model /\ sync'[e][q].value # "none"
               /\ sync'[e][q].value \in {"done", "truncated"}
                    => job'[e][sync'[e][q].model] # "absent"
    <2>1. CASE <<e, q>> = <<c, r>>
      BY <1>3, <2>1, SyncMoves DEF TrackInv
    <2>2. CASE <<e, q>> # <<c, r>>
      BY <1>3, <2>2, SyncMoves DEF TrackInv, AnswersHaveJobs
    <2> QED
      BY <2>1, <2>2
  <1>4. AnswersHaveJobs'
    BY <1>3 DEF TrackInv, AnswersHaveJobs
  <1> QED
    BY <1>1, <1>2, <1>4 DEF TrackInv

(* What a sync makes of one row: the value it will write, and its next     *)
(* step.                                                                   *)
PollValue(c, r, x) == Comp!Value(c, x[1], x[2], sync[c][r].old)
PollPc(c, r, x) ==
  IF PollValue(c, r, x) = "none" THEN "next"
  ELSE IF PollValue(c, r, x) = "timeout" /\ x[2] THEN "cancel" ELSE "write"
PollState(c, r, x) ==
  [sync[c][r] EXCEPT !.todo = @ \ {x}, !.model = x[1], !.value = PollValue(c, r, x),
     !.pc = PollPc(c, r, x)]

(* The syncs before they write: read, look at one row, done.               *)
LEMMA SyncLooksInv ==
  ASSUME TrackInv, AskTyped, NEW c \in Caller, NEW r \in {"tracker", "poll"},
         Comp!SyncRead(c, r) \/ Comp!SyncPoll(c, r) \/ Comp!SyncDone(c, r)
  PROVE  TrackInv'
  <1>0. sync[c][r] \in SyncState
    BY DEF TrackInv, TrackTyped
  <1>1. CASE Comp!SyncRead(c, r)
    <2> DEFINE todo == {<<m, compareRow[c][m].job>>:
                         m \in {n \in Model: compareRow[c][n].status = "pending"}}
    <2> DEFINE s == [Comp!NoSync EXCEPT !.pc = "next", !.old = (age[c] # "young"), !.todo = todo]
    <2>1. Comp!SetSync(c, r, s) /\ UNCHANGED <<ask, compareRow, job, sent, track>>
      BY <1>1 DEF Comp!SyncRead
    <2>2. todo \in SUBSET (Model \X BOOLEAN)
      BY DEF AskTyped
    <2> HIDE DEF todo
    <2>3. s \in SyncState /\ s.pc = "next"
      BY <2>2 DEF SyncState, Comp!NoSync, Comp!None
    <2> HIDE DEF s
    <2> QED
      BY <2>1, <2>3, SyncOnly
  <1>2. CASE Comp!SyncPoll(c, r)
    <2>1. /\ \E x \in sync[c][r].todo: Comp!SetSync(c, r, PollState(c, r, x))
          /\ UNCHANGED <<ask, compareRow, job, sent, track>>
      BY <1>2, Zenon DEF Comp!SyncPoll, Comp!None, PollState, PollPc, PollValue
    <2>2. PICK x \in sync[c][r].todo: Comp!SetSync(c, r, PollState(c, r, x))
      BY <2>1
    <2>3. x[1] \in Model
      BY <1>0 DEF SyncState
    <2>4. /\ PollValue(c, r, x) \in {"none", "done", "truncated", "error", "timeout"}
          /\ PollValue(c, r, x) \in {"done", "truncated"} => job[c][x[1]] # "absent"
      BY DEF PollValue, Comp!Value, Comp!None
    <2>5. /\ PollPc(c, r, x) \in {"next", "cancel", "write"}
          /\ PollValue(c, r, x) = "none" => PollPc(c, r, x) = "next"
      BY DEF PollPc
    <2>6. /\ PollState(c, r, x) \in SyncState /\ PollState(c, r, x).pc = PollPc(c, r, x)
          /\ PollState(c, r, x).value = PollValue(c, r, x)
          /\ PollState(c, r, x).model = x[1]
      BY <1>0, <2>3, <2>4, <2>5 DEF PollState, SyncState
    <2> QED
      BY <2>1, <2>2, <2>3, <2>4, <2>5, <2>6, SyncOnly
  <1>3. CASE Comp!SyncDone(c, r)
    <2>1. /\ Comp!SetSync(c, r, Comp!NoSync) /\ UNCHANGED <<ask, compareRow, job, sent, track>>
          /\ Comp!NoSync \in SyncState /\ Comp!NoSync.pc = "idle"
      BY <1>3 DEF Comp!SyncDone, Comp!NoSync, Comp!None, SyncState
    <2> QED
      BY <2>1, SyncOnly
  <1> QED
    BY <1>1, <1>2, <1>3

(* A job that exists keeps existing.                                       *)
LEMMA JobsOnly ==
  ASSUME TrackInv, UNCHANGED <<ask, compareRow, sent, sync, track>>,
         job' \in [Caller -> [Model -> {"absent", "live", "done", "cut", "failed", "cancelled"}]],
         \A c \in Caller, m \in Model: job'[c][m] = "absent" <=> job[c][m] = "absent"
  PROVE  TrackInv'
  <1>1. TrackTyped' /\ OnlyAsked' /\ NoJobYet'
    BY DEF TrackInv, TrackTyped, OnlyAsked, NoJobYet
  <1>2. AnswersHaveJobs'
    BY DEF TrackInv, AnswersHaveJobs
  <1> QED
    BY <1>1, <1>2 DEF TrackInv

(* A job ends.                                                             *)
LEMMA JobEndsInv ==
  ASSUME TrackInv, NEW c \in Caller, NEW m \in Model, Comp!JobEnds(c, m)
  PROVE  TrackInv'
  <1>1. PICK v \in {"done", "cut", "failed"}: job' = [job EXCEPT ![c][m] = v]
    BY DEF Comp!JobEnds
  <1>2. job' \in [Caller -> [Model -> {"absent", "live", "done", "cut", "failed", "cancelled"}]]
    BY <1>1 DEF TrackInv, TrackTyped
  <1>3. \A e \in Caller, n \in Model: job'[e][n] = "absent" <=> job[e][n] = "absent"
    BY <1>1 DEF TrackInv, TrackTyped, Comp!JobEnds
  <1> QED
    BY <1>2, <1>3, JobsOnly DEF Comp!JobEnds

(* The cancel of a late job.                                               *)
LEMMA CancelInv ==
  ASSUME TrackInv, NEW c \in Caller, NEW r \in {"tracker", "poll"}, Comp!cancel_model_job(c, r)
  PROVE  TrackInv'
  <1> DEFINE s == [sync[c][r] EXCEPT !.pc = "write"]
  <1>1. /\ Comp!SetSync(c, r, s) /\ UNCHANGED <<ask, compareRow, sent, track>>
        /\ sync[c][r].pc = "cancel"
    BY DEF Comp!cancel_model_job
  <1>2. sync[c][r] \in SyncState
    BY DEF TrackInv, TrackTyped
  <1>3. s \in SyncState /\ s.model = sync[c][r].model /\ s.value = sync[c][r].value
    BY <1>2 DEF SyncState
  <1> HIDE DEF s
  <1>4. /\ job' \in [Caller -> [Model -> {"absent", "live", "done", "cut", "failed", "cancelled"}]]
        /\ \A e \in Caller, n \in Model: job'[e][n] = "absent" <=> job[e][n] = "absent"
    <2>1. CASE UNCHANGED job
      BY <2>1 DEF TrackInv, TrackTyped
    <2>2. CASE job' = [job EXCEPT ![c][sync[c][r].model] = IF @ = "live" THEN "cancelled" ELSE @]
      <3>1. sync[c][r].model \in Model
        BY <1>1 DEF TrackInv, AnswersHaveJobs
      <3> QED
        BY <2>2, <3>1 DEF TrackInv, TrackTyped
    <2> QED
      BY <2>1, <2>2 DEF Comp!cancel_model_job
  <1>5. TrackTyped'
    BY <1>1, <1>3, <1>4, SyncMoves DEF TrackInv, TrackTyped
  <1>6. OnlyAsked' /\ NoJobYet'
    BY <1>1, <1>4 DEF TrackInv, OnlyAsked, NoJobYet
  <1>7. ASSUME NEW e \in Caller, NEW q \in {"tracker", "poll"},
               sync'[e][q].pc \in {"cancel", "write"}
        PROVE  /\ sync'[e][q].model \in Model /\ sync'[e][q].value # "none"
               /\ sync'[e][q].value \in {"done", "truncated"}
                    => job'[e][sync'[e][q].model] # "absent"
    <2>1. /\ sync[e][q].pc \in {"cancel", "write"}
          /\ sync'[e][q].model = sync[e][q].model /\ sync'[e][q].value = sync[e][q].value
      <3>1. CASE <<e, q>> = <<c, r>>
        BY <1>1, <1>3, <3>1, SyncMoves DEF TrackInv
      <3>2. CASE <<e, q>> # <<c, r>>
        BY <1>1, <1>3, <1>7, <3>2, SyncMoves DEF TrackInv
      <3> QED
        BY <3>1, <3>2
    <2> QED
      BY <1>4, <2>1 DEF TrackInv, AnswersHaveJobs
  <1>8. AnswersHaveJobs'
    BY <1>1, <1>4, <1>7 DEF TrackInv, AnswersHaveJobs
  <1> QED
    BY <1>5, <1>6, <1>8 DEF TrackInv

(* Every initial state: nothing was asked, no job, no sync.                *)
LEMMA TrackInit == Comp!Init => TrackInv
  <1> SUFFICES ASSUME Comp!Init PROVE TrackInv
    OBVIOUS
  <1>1. Comp!NoSync \in SyncState /\ Comp!NoSync.pc = "idle"
    BY DEF Comp!NoSync, Comp!None, SyncState
  <1>2. TrackTyped
    BY <1>1 DEF Comp!Init, Comp!Runner, TrackTyped
  <1>3. OnlyAsked /\ NoJobYet
    BY DEF Comp!Init, Comp!NoRow, OnlyAsked, NoJobYet
  <1>4. AnswersHaveJobs
    BY <1>1 DEF Comp!Init, Comp!NoRow, Comp!Runner, AnswersHaveJobs
  <1> QED
    BY <1>2, <1>3, <1>4 DEF TrackInv

(* A submit on its way to the insert changes nothing of its question.      *)
LEMMA AskingInv ==
  ASSUME TrackInv, AskTyped, NEW c \in Caller,
         Comp!LockBrowser(c) \/ Comp!LockIp(c) \/ Comp!Check(c)
  PROVE  TrackInv'
  <1>1. /\ UNCHANGED <<compareRow, job, sent, sync, track>> /\ ask[c].pc # "asked"
        /\ ask' = [ask EXCEPT ![c].pc = ask'[c].pc]
    BY DEF Comp!LockBrowser, Comp!LockIp, Comp!Check, Comp!Goto, AskTyped
  <1>2. \A e \in Caller: e # c => ask'[e] = ask[e]
    BY <1>1 DEF AskTyped
  <1>3. OnlyAsked'
    BY <1>1, <1>2 DEF TrackInv, OnlyAsked
  <1> QED
    BY <1>1, <1>3 DEF TrackInv, TrackTyped, NoJobYet, AnswersHaveJobs

(* The insert: fresh rows, and the question is asked.                      *)
LEMMA InsertTracks ==
  ASSUME TrackInv, AskTyped, NEW c \in Caller, Comp!Insert(c)
  PROVE  TrackInv'
  <1>1. /\ UNCHANGED <<job, sent, sync>> /\ ask'[c].pc = "asked"
        /\ \A e \in Caller: e # c => ask'[e] = ask[e]
    BY DEF Comp!Insert, Comp!Goto, AskTyped
  <1>2. /\ \A m \in Model: compareRow'[c][m].status = "pending"
        /\ \A e \in Caller: e # c => compareRow'[e] = compareRow[e] /\ track'[e] = track[e]
        /\ track' \in [Caller -> {"none", "fan", "loop", "ended", "lost"}]
    BY DEF Comp!Insert, AskTyped, TrackInv, TrackTyped
  <1>3. TrackTyped' /\ NoJobYet'
    BY <1>1, <1>2 DEF TrackInv, TrackTyped, NoJobYet
  <1>4. OnlyAsked'
    BY <1>1, <1>2 DEF TrackInv, OnlyAsked
  <1>5. AnswersHaveJobs'
    BY <1>1, <1>2 DEF TrackInv, AnswersHaveJobs
  <1> QED
    BY <1>3, <1>4, <1>5 DEF TrackInv

(* fan_out submits one model.                                              *)
LEMMA SubmitInv ==
  ASSUME TrackInv, NEW c \in Caller, NEW m \in Model, Comp!submit_model(c, m)
  PROVE  TrackInv'
  <1>1. UNCHANGED <<ask, compareRow, sync, track>> /\ sent[c][m] = "no"
    BY DEF Comp!submit_model
  <1>2. CASE job' = [job EXCEPT ![c][m] = "live"] /\ sent' = [sent EXCEPT ![c][m] = "job"]
    <2>1. TrackTyped' /\ NoJobYet'
      BY <1>1, <1>2 DEF TrackInv, TrackTyped, NoJobYet
    <2>2. \A e \in Caller, n \in Model: job'[e][n] = "absent" => job[e][n] = "absent"
      BY <1>2 DEF TrackInv, TrackTyped
    <2>3. AnswersHaveJobs'
      BY <1>1, <2>2 DEF TrackInv, AnswersHaveJobs
    <2> QED
      BY <1>1, <2>1, <2>3 DEF TrackInv, OnlyAsked
  <1>3. CASE UNCHANGED job /\ sent' = [sent EXCEPT ![c][m] = "refused"]
    <2>1. TrackTyped' /\ NoJobYet'
      BY <1>1, <1>3 DEF TrackInv, TrackTyped, NoJobYet
    <2> QED
      BY <1>1, <1>3, <2>1 DEF TrackInv, OnlyAsked, AnswersHaveJobs
  <1> QED
    BY <1>2, <1>3 DEF Comp!submit_model

(* fan_out writes the job's id, or the refusal.                            *)
LEMMA SubmitWriteTracks ==
  ASSUME TrackInv, AskTyped, NEW c \in Caller, NEW m \in Model, Comp!SubmitWrite(c, m)
  PROVE  /\ TrackInv'
         /\ compareRow[c][m].status \in {"done", "truncated"}
              => compareRow'[c][m].status = compareRow[c][m].status
         /\ \A e \in Caller, n \in Model: <<e, n>> # <<c, m>> => compareRow'[e][n] = compareRow[e][n]
  <1>1. /\ UNCHANGED <<ask, job, sync, track>> /\ track[c] = "fan"
        /\ sent[c][m] \in {"job", "refused"} /\ sent' = [sent EXCEPT ![c][m] = "written"]
    BY DEF Comp!SubmitWrite
  <1>2. compareRow[c][m] \in [status: RowStatus, job: BOOLEAN]
    BY DEF AskTyped
  <1>3. \A e \in Caller, n \in Model: <<e, n>> # <<c, m>> => compareRow'[e][n] = compareRow[e][n]
    BY DEF Comp!SubmitWrite, AskTyped
  <1>4. /\ compareRow'[c][m].status \in {compareRow[c][m].status, "refused"}
        /\ sent[c][m] = "job" => compareRow'[c][m].status = compareRow[c][m].status
    BY <1>2 DEF Comp!SubmitWrite, AskTyped
  <1>5. compareRow[c][m].status \in {"done", "truncated"} => sent[c][m] = "job"
    BY <1>1 DEF TrackInv, NoJobYet, AnswersHaveJobs
  <1>6. TrackTyped' /\ NoJobYet'
    BY <1>1 DEF TrackInv, TrackTyped, NoJobYet
  <1>7. ask[c].pc = "asked"
    BY <1>1 DEF TrackInv, OnlyAsked
  <1>8. OnlyAsked'
    BY <1>1, <1>3, <1>7 DEF TrackInv, OnlyAsked
  <1>9. AnswersHaveJobs'
    BY <1>1, <1>3, <1>4 DEF TrackInv, AnswersHaveJobs
  <1> QED
    BY <1>3, <1>4, <1>5, <1>6, <1>8, <1>9 DEF TrackInv

(* A sync closes a row that is pending and leaves any other alone.         *)
LEMMA SyncWriteTracks ==
  ASSUME TrackInv, AskTyped, NEW c \in Caller, NEW r \in {"tracker", "poll"},
         Comp!SyncWrite(c, r)
  PROVE  /\ TrackInv'
         /\ \A e \in Caller, n \in Model: compareRow[e][n].status \in {"done", "truncated"}
              => compareRow'[e][n].status = compareRow[e][n].status
  <1> DEFINE m == sync[c][r].model
  <1> DEFINE v == sync[c][r].value
  <1> DEFINE s == [sync[c][r] EXCEPT !.pc = "next", !.model = "none", !.value = "none"]
  <1>1. /\ UNCHANGED <<ask, job, sent, track>> /\ Comp!SetSync(c, r, s)
        /\ compareRow' = [compareRow EXCEPT ![c][m].status = Comp!Written(@, v)]
        /\ sync[c][r].pc = "write"
    BY DEF Comp!SyncWrite, Comp!None
  <1>2. /\ m \in Model /\ v # "none"
        /\ v \in {"done", "truncated"} => job[c][m] # "absent"
    BY <1>1 DEF TrackInv, AnswersHaveJobs
  <1>3. sync[c][r] \in SyncState
    BY DEF TrackInv, TrackTyped
  <1>4. s \in SyncState /\ s.pc = "next"
    BY <1>3 DEF SyncState
  <1> HIDE DEF m, v, s
  <1>5. compareRow[c][m] \in [status: RowStatus, job: BOOLEAN]
    BY <1>2 DEF AskTyped
  <1>6. /\ \A e \in Caller, n \in Model: <<e, n>> # <<c, m>> => compareRow'[e][n] = compareRow[e][n]
        /\ compareRow'[c][m].status = Comp!Written(compareRow[c][m].status, v)
    BY <1>1, <1>2, <1>5 DEF AskTyped
  <1>7. /\ compareRow[c][m].status # "pending" => compareRow'[c][m].status = compareRow[c][m].status
        /\ compareRow[c][m].status = "pending" => compareRow'[c][m].status = v
    BY <1>6 DEF Comp!Written
  <1>8. TrackTyped' /\ NoJobYet'
    BY <1>1, <1>4, SyncMoves DEF TrackInv, TrackTyped, NoJobYet
  <1>9. OnlyAsked'
    BY <1>1, <1>2, <1>6, <1>7 DEF TrackInv, OnlyAsked
  <1>10. \A e \in Caller, n \in Model:
           compareRow'[e][n].status \in {"done", "truncated"} => job'[e][n] # "absent"
    BY <1>1, <1>2, <1>6, <1>7 DEF TrackInv, AnswersHaveJobs
  <1>11. ASSUME NEW e \in Caller, NEW q \in {"tracker", "poll"},
                sync'[e][q].pc \in {"cancel", "write"}
         PROVE  /\ sync'[e][q].model \in Model /\ sync'[e][q].value # "none"
                /\ sync'[e][q].value \in {"done", "truncated"}
                     => job'[e][sync'[e][q].model] # "absent"
    <2>1. <<e, q>> # <<c, r>> /\ sync'[e][q] = sync[e][q]
      BY <1>1, <1>4, <1>11, SyncMoves DEF TrackInv
    <2> QED
      BY <1>1, <1>11, <2>1 DEF TrackInv, AnswersHaveJobs
  <1>12. AnswersHaveJobs'
    BY <1>10, <1>11 DEF AnswersHaveJobs
  <1> QED
    BY <1>6, <1>7, <1>8, <1>9, <1>12 DEF TrackInv

(* The tracker moves on, ends or dies, time passes, the process restarts.  *)
LEMMA TaskInv ==
  ASSUME TrackInv, AskTyped,
         \/ \E c \in Caller: \/ Comp!FanOutDone(c) \/ Comp!TrackEnds(c) \/ Comp!Tick(c)
                             \/ Comp!TrackerDies(c)
         \/ Comp!Restart
  PROVE  TrackInv'
  <1>0. Comp!NoSync \in SyncState /\ Comp!NoSync.pc = "idle"
    BY DEF Comp!NoSync, Comp!None, SyncState
  <1>1. ASSUME NEW c \in Caller, Comp!FanOutDone(c) \/ Comp!TrackEnds(c)
        PROVE  TrackInv'
    <2>1. /\ UNCHANGED <<ask, compareRow, job, sent, sync>> /\ track[c] \in {"fan", "loop"}
          /\ track' = [track EXCEPT ![c] = "loop"] \/ track' = [track EXCEPT ![c] = "ended"]
      BY <1>1 DEF Comp!FanOutDone, Comp!TrackEnds
    <2>2. TrackTyped' /\ OnlyAsked'
      BY <2>1 DEF TrackInv, TrackTyped, OnlyAsked
    <2> QED
      BY <2>1, <2>2 DEF TrackInv, NoJobYet, AnswersHaveJobs
  <1>2. ASSUME NEW c \in Caller, Comp!Tick(c)
        PROVE  TrackInv'
    BY <1>2 DEF Comp!Tick, TrackInv, TrackTyped, OnlyAsked, NoJobYet, AnswersHaveJobs
  <1>3. ASSUME NEW c \in Caller, Comp!TrackerDies(c)
        PROVE  TrackInv'
    <2>1. /\ UNCHANGED <<ask, compareRow, job, sent>> /\ track[c] \in {"fan", "loop"}
          /\ track' = [track EXCEPT ![c] = "lost"] /\ Comp!SetSync(c, "tracker", Comp!NoSync)
      BY <1>3 DEF Comp!TrackerDies
    <2>2. TrackTyped' /\ OnlyAsked' /\ NoJobYet'
      BY <1>0, <2>1, SyncMoves DEF TrackInv, TrackTyped, OnlyAsked, NoJobYet
    <2>3. \A e \in Caller, q \in {"tracker", "poll"}:
            sync'[e][q].pc \in {"cancel", "write"} => sync'[e][q] = sync[e][q]
      BY <1>0, <2>1, SyncMoves DEF TrackInv
    <2>4. AnswersHaveJobs'
      BY <2>1, <2>3 DEF TrackInv, AnswersHaveJobs
    <2> QED
      BY <2>2, <2>4 DEF TrackInv
  <1>4. CASE Comp!Restart
    <2>1. /\ UNCHANGED <<compareRow, job, sent>>
          /\ ask' = [c \in Caller |-> IF ask[c].pc \in {"asked", "busy"} THEN ask[c]
                                      ELSE [ask[c] EXCEPT !.pc = "failed"]]
          /\ sync' = [c \in Caller |-> [r \in {"tracker", "poll"} |-> Comp!NoSync]]
          /\ track' = [c \in Caller |-> IF track[c] \in {"fan", "loop"} THEN "lost" ELSE track[c]]
      BY <1>4 DEF Comp!Restart, Comp!Runner
    <2>2. TrackTyped' /\ NoJobYet'
      BY <1>0, <2>1 DEF TrackInv, TrackTyped, NoJobYet
    <2>3. \A c \in Caller: ask'[c].pc = "asked" <=> ask[c].pc = "asked"
      BY <2>1 DEF AskTyped
    <2>4. OnlyAsked'
      BY <2>1, <2>3 DEF TrackInv, TrackTyped, OnlyAsked
    <2>5. AnswersHaveJobs'
      BY <1>0, <2>1 DEF TrackInv, AnswersHaveJobs
    <2> QED
      BY <2>2, <2>4, <2>5 DEF TrackInv
  <1> QED
    BY <1>1, <1>2, <1>3, <1>4

(* What holds of the comparison in every state.                            *)
CompareInv == AskInv /\ TrackInv

(* What a step that leaves the transaction and the rows alone keeps.       *)
LEMMA AskFrame ==
  ASSUME AskInv, UNCHANGED <<ask, lock, compareRow>>,
         age' \in [Caller -> {"young", "old", "over"}],
         \A c \in Caller: age'[c] = "young" => age[c] = "young"
  PROVE  AskInv'
  BY RowsQuiet DEF AskInv, AskTyped

(* Every step keeps the invariant, and every answer that was saved.        *)
LEMMA CompareStep ==
  ASSUME CallersNamed, CompareInv, [Comp!Next]_(Comp!vars)
  PROVE  CompareInv' /\ [Comp!KeepsAnswer]_(Comp!vars)
  <1> USE DEF CompareInv
  <1>0. AskTyped
    BY DEF AskInv
  <1>1. ASSUME NEW c \in Caller, Comp!LockBrowser(c) \/ Comp!LockIp(c) \/ Comp!Check(c)
        PROVE  CompareInv' /\ Comp!KeepsAnswer
    <2>1. compareRow' = compareRow
      BY <1>1 DEF Comp!LockBrowser, Comp!LockIp, Comp!Check
    <2> QED
      BY <1>0, <1>1, <2>1, LockInv, CheckInv, AskingInv DEF Comp!KeepsAnswer
  <1>2. ASSUME NEW c \in Caller, Comp!Insert(c)
        PROVE  CompareInv' /\ Comp!KeepsAnswer
    <2>1. /\ \A e \in Caller: e # c => compareRow'[e] = compareRow[e]
          /\ ask[c].pc = "insert"
      BY <1>0, <1>2 DEF Comp!Insert, AskTyped
    <2>2. \A m \in Model: compareRow[c][m].status = "absent"
      BY <2>1 DEF TrackInv, OnlyAsked
    <2>3. Comp!KeepsAnswer
      BY <2>1, <2>2 DEF Comp!KeepsAnswer
    <2> QED
      BY <1>0, <1>2, <2>3, InsertInv, InsertTracks
  <1>3. ASSUME NEW c \in Caller, NEW m \in Model, Comp!submit_model(c, m) \/ Comp!JobEnds(c, m)
        PROVE  CompareInv' /\ Comp!KeepsAnswer
    <2>1. UNCHANGED <<ask, lock, compareRow, age>>
      BY <1>3 DEF Comp!submit_model, Comp!JobEnds
    <2>2. AskInv'
      BY <1>0, <2>1, AskFrame DEF AskTyped
    <2> QED
      BY <1>3, <2>1, <2>2, SubmitInv, JobEndsInv DEF Comp!KeepsAnswer
  <1>4. ASSUME NEW c \in Caller, NEW m \in Model, Comp!SubmitWrite(c, m)
        PROVE  CompareInv' /\ Comp!KeepsAnswer
    BY <1>0, <1>4, SubmitWriteInv, SubmitWriteTracks DEF Comp!KeepsAnswer
  <1>5. ASSUME NEW c \in Caller, Comp!FanOutDone(c) \/ Comp!TrackEnds(c) \/ Comp!Tick(c)
                                   \/ Comp!TrackerDies(c)
        PROVE  CompareInv' /\ Comp!KeepsAnswer
    <2>1. /\ UNCHANGED <<ask, lock, compareRow>>
          /\ age' \in [Caller -> {"young", "old", "over"}]
          /\ \A e \in Caller: age'[e] = "young" => age[e] = "young"
      <3>1. CASE Comp!Tick(c)
        BY <1>0, <3>1 DEF AskTyped, Comp!Tick
      <3>2. CASE Comp!FanOutDone(c) \/ Comp!TrackEnds(c) \/ Comp!TrackerDies(c)
        <4>1. UNCHANGED <<ask, lock, compareRow, age>>
          BY <3>2 DEF Comp!FanOutDone, Comp!TrackEnds, Comp!TrackerDies
        <4> QED
          BY <1>0, <4>1 DEF AskTyped
      <3> QED
        BY <1>5, <3>1, <3>2
    <2> QED
      BY <1>0, <1>5, <2>1, AskFrame, TaskInv DEF Comp!KeepsAnswer
  <1>6. ASSUME NEW c \in Caller, NEW r \in Comp!Runner, Comp!SyncStep(c, r)
        PROVE  CompareInv' /\ Comp!KeepsAnswer
    <2>0. r \in {"tracker", "poll"}
      BY DEF Comp!Runner
    <2>1. CASE Comp!SyncRead(c, r) \/ Comp!SyncPoll(c, r) \/ Comp!SyncDone(c, r)
                 \/ Comp!cancel_model_job(c, r)
      <3>1. UNCHANGED <<ask, lock, compareRow, age>>
        <4>1. CASE Comp!SyncRead(c, r)
          BY <4>1 DEF Comp!SyncRead
        <4>2. CASE Comp!SyncPoll(c, r)
          BY <4>2, Zenon DEF Comp!SyncPoll
        <4>3. CASE Comp!SyncDone(c, r) \/ Comp!cancel_model_job(c, r)
          BY <4>3 DEF Comp!SyncDone, Comp!cancel_model_job
        <4> QED
          BY <2>1, <4>1, <4>2, <4>3
      <3>2. AskInv'
        BY <1>0, <3>1, AskFrame DEF AskTyped
      <3> QED
        BY <1>0, <2>0, <2>1, <3>1, <3>2, SyncLooksInv, CancelInv DEF Comp!KeepsAnswer
    <2>2. CASE Comp!SyncWrite(c, r)
      <3>1. sync[c][r].model \in Model /\ sync[c][r].value \in RowStatus
        BY <2>0, <2>2 DEF Comp!SyncWrite, TrackInv, AnswersHaveJobs, TrackTyped, SyncState, RowStatus
      <3> QED
        BY <1>0, <2>0, <2>2, <3>1, SyncWriteInv, SyncWriteTracks DEF Comp!KeepsAnswer
    <2> QED
      BY <1>6, <2>1, <2>2 DEF Comp!SyncStep
  <1>7. CASE Comp!Restart
    <2>1. compareRow' = compareRow
      BY <1>7 DEF Comp!Restart
    <2> QED
      BY <1>0, <1>7, <2>1, RestartInv, TaskInv DEF Comp!KeepsAnswer
  <1>8. CASE UNCHANGED Comp!vars
    <2>1. UNCHANGED <<ask, lock, age, compareRow, job, sent, sync, track>>
      BY <1>8 DEF Comp!vars
    <2>2. AskInv'
      BY <1>0, <2>1, AskFrame DEF AskTyped
    <2> QED
      BY <1>8, <2>1, <2>2 DEF TrackInv, TrackTyped, OnlyAsked, NoJobYet, AnswersHaveJobs
  <1> QED
    BY <1>1, <1>2, <1>3, <1>4, <1>5, <1>6, <1>7, <1>8 DEF Comp!Next, Comp!FanOut

(* The invariant of the comparison along a behaviour of the run.           *)
LEMMA CompareAlong ==
  /\ InitAll => (which = "compare" => CompareInv)
  /\ (which = "compare" => CompareInv) /\ [NextAll]_allVars
       => /\ (which = "compare" => CompareInv)'
          /\ [which = "compare" => Comp!KeepsAnswer]_compareVars
  <1>1. InitAll => (which = "compare" => CompareInv)
    BY AskInit, TrackInit DEF InitAll, CompareInv
  <1>2. ASSUME which = "compare" => CompareInv, [NextAll]_allVars
        PROVE  /\ (which = "compare" => CompareInv)'
               /\ [which = "compare" => Comp!KeepsAnswer]_compareVars
    <2>1. which' = which
      BY <1>2 DEF NextAll, Monitoring, Comparing, allVars
    <2>2. which = "compare" => [Comp!Next]_(Comp!vars)
      BY <1>2 DEF NextAll, Monitoring, Comparing, allVars, compareVars, Comp!vars
    <2>3. CASE which = "compare"
      <3>1. CompareInv' /\ [Comp!KeepsAnswer]_(Comp!vars)
        BY <1>2, <2>2, <2>3, CallerAssumption, CompareStep
      <3> QED
        BY <2>1, <3>1 DEF compareVars, Comp!vars
    <2> QED
      BY <2>1, <2>3
  <1> QED
    BY <1>1, <1>2

(* A browser, and an address, never has two unfinished questions, however  *)
(* many submits check and insert at once: the two locks of create_request  *)
(* keep what the check saw true until the insert.                          *)
THEOREM OneQuestionEach == SpecAll => []OneActivePerCaller
  <1>1. (which = "compare" => CompareInv) => OneActivePerCaller
    BY DEF CompareInv, AskInv, OneActivePerCaller
  <1> QED
    BY <1>1, CompareAlong, PTL DEF SpecAll

(* An answer that was saved stays: no late timeout, no second sync and no  *)
(* late write of fan_out replaces it (sync_request, fan_out).              *)
THEOREM AnswersStay == SpecAll => AnswerKept
  BY CompareAlong, PTL DEF SpecAll, AnswerKept

-----------------------------------------------------------------------------
(* The checks after a sweep, for any deployment, throttles and ages.       *)

CONSTANTS Deployments, Throttle, StuckAfter, MaxAge

VARIABLES deployed, round, service, oldest, backup, alertFile, news, lost

Infra == INSTANCE InfraChecks WITH pc <- round, file <- alertFile, faults <- lost

(* throttle_min of each check is a number.                                 *)
Throttled == Throttle \in [Infra!Check -> Nat]

Message == [word: {"none", "alert", "recovered"}, age: Nat, heard: {"none", "alert", "recovered"}]

(* An alert file is as old as the last alert, as long as that is the last  *)
(* message: it is written with it, also when the message is lost, and only *)
(* a recovery removes it.                                                  *)
FileTells(c) == news[c].word = "alert" => alertFile[c] = news[c].age

InfraInv ==
  /\ news \in [Infra!Check -> Message] /\ alertFile \in [Infra!Check -> Nat \cup {-1}]
  /\ \A c \in Infra!Check : FileTells(c)

(* A message of one check leaves the others alone.                         *)
LEMMA PostStep ==
  ASSUME InfraInv, NEW c \in Infra!Check, NEW w \in {"alert", "recovered"}, Infra!_post(c, w)
  PROVE  /\ news' \in [Infra!Check -> Message]
         /\ \A d \in Infra!Check : d # c => news'[d] = news[d]
         /\ news'[c].word = w /\ news'[c].age = 0
  <1>1. news \in [Infra!Check -> Message] /\ news[c].heard \in {"none", "alert", "recovered"}
    BY DEF InfraInv, Message
  <1>2. PICK h \in {"none", "alert", "recovered"} :
          news' = [news EXCEPT ![c] = [word |-> w, age |-> 0, heard |-> h]]
    BY <1>1 DEF Infra!_post
  <1>3. [word |-> w, age |-> 0, heard |-> h] \in Message
    BY <1>2 DEF Message
  <1> QED BY <1>1, <1>2, <1>3

(* notifier.alert: a second alert comes when the file is a throttle old.   *)
LEMMA AlertStep ==
  ASSUME InfraInv, Throttled, NEW c \in Infra!Check, Infra!alert(c)
  PROVE  InfraInv' /\ Infra!SpacedStep
  <1>1. /\ news \in [Infra!Check -> Message] /\ alertFile \in [Infra!Check -> Nat \cup {-1}]
        /\ \A d \in Infra!Check : FileTells(d)
    BY DEF InfraInv
  <1>2. \A d \in Infra!Check : news[d].age \in Nat
    BY <1>1 DEF Message
  <1>3. CASE UNCHANGED <<alertFile, news>>
    BY <1>1, <1>2, <1>3 DEF InfraInv, FileTells, Infra!SpacedStep
  <1>4. CASE /\ alertFile[c] = -1 \/ alertFile[c] >= Throttle[c]
             /\ alertFile' = [alertFile EXCEPT ![c] = 0] /\ Infra!_post(c, "alert")
    <2>1. /\ news' \in [Infra!Check -> Message]
          /\ \A d \in Infra!Check : d # c => news'[d] = news[d]
          /\ news'[c].word = "alert" /\ news'[c].age = 0
      BY <1>4, PostStep
    <2>2. alertFile' \in [Infra!Check -> Nat \cup {-1}] /\ alertFile'[c] = 0
          /\ \A d \in Infra!Check : d # c => alertFile'[d] = alertFile[d]
      BY <1>1, <1>4
    <2>3. ASSUME NEW d \in Infra!Check PROVE FileTells(d)'
      BY <1>1, <2>1, <2>2 DEF FileTells
    <2>4. news[c].word = "alert" => news[c].age >= Throttle[c]
      BY <1>1, <1>2, <1>4 DEF FileTells
    <2>5. Infra!SpacedStep
      BY <1>2, <2>1, <2>4 DEF Infra!SpacedStep
    <2> QED BY <2>1, <2>2, <2>3, <2>5 DEF InfraInv
  <1> QED BY <1>3, <1>4 DEF Infra!alert, Infra!None

(* notifier.recover: the file goes, and the last word is not an alert.     *)
LEMMA RecoverStep ==
  ASSUME InfraInv, NEW c \in Infra!Check, Infra!recover(c)
  PROVE  InfraInv' /\ Infra!SpacedStep
  <1>1. /\ news \in [Infra!Check -> Message] /\ alertFile \in [Infra!Check -> Nat \cup {-1}]
        /\ \A d \in Infra!Check : FileTells(d)
    BY DEF InfraInv
  <1>2. \A d \in Infra!Check : news[d].age \in Nat
    BY <1>1 DEF Message
  <1>3. CASE UNCHANGED <<alertFile, news>>
    BY <1>1, <1>2, <1>3 DEF InfraInv, FileTells, Infra!SpacedStep
  <1>4. CASE alertFile' = [alertFile EXCEPT ![c] = -1] /\ Infra!_post(c, "recovered")
    <2>1. /\ news' \in [Infra!Check -> Message]
          /\ \A d \in Infra!Check : d # c => news'[d] = news[d]
          /\ news'[c].word = "recovered"
      BY <1>4, PostStep
    <2>2. alertFile' \in [Infra!Check -> Nat \cup {-1}]
          /\ \A d \in Infra!Check : d # c => alertFile'[d] = alertFile[d]
      BY <1>1, <1>4
    <2>3. ASSUME NEW d \in Infra!Check PROVE FileTells(d)'
      BY <1>1, <2>1, <2>2 DEF FileTells
    <2>4. Infra!SpacedStep
      BY <1>2, <2>1 DEF Infra!SpacedStep
    <2> QED BY <2>1, <2>2, <2>3, <2>4 DEF InfraInv
  <1> QED BY <1>3, <1>4 DEF Infra!recover, Infra!None

(* A check alerts, recovers or does neither.                               *)
LEMMA CheckStep ==
  ASSUME InfraInv, Throttled, NEW c \in Infra!Check, Infra!MakeCheck(c)
  PROVE  InfraInv' /\ Infra!SpacedStep
  <1>1. UNCHANGED <<alertFile, news>> \/ \E d \in Infra!Check : Infra!alert(d) \/ Infra!recover(d)
    <2>1. CASE Infra!RunCheck(c)
      <3>1. c = "local:vision" \/ c = "queue:backlog" \/ c = "backup:stale"
        BY DEF Infra!Check
      <3>2. CASE c = "local:vision"
        BY <2>1, <3>2 DEF Infra!RunCheck, Infra!check_local_services, Infra!notifier, Infra!Check
      <3>3. CASE c = "queue:backlog"
        BY <2>1, <3>3 DEF Infra!RunCheck, Infra!check_queue_backlog, Infra!Check
      <3>4. CASE c = "backup:stale"
        BY <2>1, <3>4 DEF Infra!RunCheck, Infra!check_backup_freshness, Infra!notifier, Infra!Check
      <3> QED BY <3>1, <3>2, <3>3, <3>4
    <2>2. CASE UNCHANGED Infra!notifier
      BY <2>2 DEF Infra!notifier
    <2> QED BY <2>1, <2>2 DEF Infra!MakeCheck
  <1>2. CASE UNCHANGED <<alertFile, news>>
    <2>1. \A d \in Infra!Check : news[d].age \in Nat
      BY DEF InfraInv, Message
    <2> QED BY <1>2, <2>1 DEF InfraInv, FileTells, Infra!SpacedStep
  <1> QED BY <1>1, <1>2, AlertStep, RecoverStep

(* Between two rounds file and message age alike.                          *)
LEMMA SleepStep ==
  ASSUME InfraInv, Throttled, Infra!Sleep
  PROVE  InfraInv' /\ Infra!SpacedStep
  <1>1. /\ alertFile' = [c \in Infra!Check |-> Infra!Older(alertFile[c], Throttle[c])]
        /\ news' = [c \in Infra!Check |-> [news[c] EXCEPT !.age = Infra!Older(@, Throttle[c])]]
    BY DEF Infra!Sleep
  <1>2. ASSUME NEW c \in Infra!Check
        PROVE  /\ news'[c] \in Message /\ alertFile'[c] \in Nat \cup {-1}
               /\ FileTells(c)' /\ news'[c].age >= news[c].age
    <2>1. PICK m \in Message, f \in Nat \cup {-1}, t \in Nat :
            m = news[c] /\ f = alertFile[c] /\ t = Throttle[c]
      BY DEF InfraInv, Throttled
    <2>2. m.word = "alert" => f = m.age
      BY <2>1 DEF InfraInv, FileTells
    <2>3. m.age \in Nat
      BY DEF Message
    <2>4. PICK a \in Nat : a = Infra!Older(m.age, t) /\ a >= m.age
      BY <2>3 DEF Infra!Older, Infra!None
    <2>5. news'[c] = [m EXCEPT !.age = a]
      BY <1>1, <2>1, <2>4
    <2>6. news'[c] \in Message /\ news'[c].word = m.word /\ news'[c].age = a
      BY <2>4, <2>5 DEF Message
    <2>7. alertFile'[c] = Infra!Older(f, t) /\ alertFile'[c] \in Nat \cup {-1}
      BY <1>1, <2>1 DEF Infra!Older, Infra!None
    <2> QED BY <2>1, <2>2, <2>4, <2>6, <2>7 DEF FileTells
  <1>3. news' \in [Infra!Check -> Message] /\ alertFile' \in [Infra!Check -> Nat \cup {-1}]
    BY <1>1, <1>2
  <1>4. Infra!SpacedStep
    <2>1. \A c \in Infra!Check : news[c].age \in Nat /\ news'[c].age \in Nat
      BY <1>3 DEF InfraInv, Message
    <2> QED BY <1>2, <2>1 DEF Infra!SpacedStep
  <1> QED BY <1>2, <1>3, <1>4 DEF InfraInv

(* Two alerts of a check without a recovery between them are a throttle    *)
(* apart, whichever checks raise, messages are lost and recoveries happen  *)
(* in between (notifier.alert, notifier.recover): the file that throttles  *)
(* is as old as the last alert.                                            *)
THEOREM AlertsAreSpaced ==
  ASSUME Throttled
  PROVE  Infra!Spec => Infra!AlertsSpaced
  <1>1. Infra!Init => InfraInv
    BY DEF Infra!Init, Infra!None, InfraInv, Message, FileTells
  <1>2. ASSUME InfraInv, [Infra!Next]_(Infra!vars)
        PROVE  InfraInv' /\ [Infra!SpacedStep]_(Infra!vars)
    <2>1. CASE \E c \in Infra!Check : Infra!MakeCheck(c)
      BY <1>2, <2>1, CheckStep
    <2>2. CASE Infra!Sleep
      BY <1>2, <2>2, SleepStep
    <2>3. CASE UNCHANGED <<alertFile, news>>
      <3>1. \A c \in Infra!Check : news[c].age \in Nat
        BY <1>2 DEF InfraInv, Message
      <3> QED BY <1>2, <2>3, <3>1 DEF InfraInv, FileTells, Infra!SpacedStep
    <2> QED
      BY <1>2, <2>1, <2>2, <2>3 DEF Infra!Next, Infra!vars, Infra!notifier, Infra!ServiceChanges,
         Infra!QueueChanges, Infra!BackupChanges
  <1> QED BY <1>1, <1>2, PTL DEF Infra!Spec, Infra!AlertsSpaced
=============================================================================
