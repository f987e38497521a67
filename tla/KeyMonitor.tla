----------------------------- MODULE KeyMonitor -----------------------------
(***************************************************************************)
(* The life of one key row: what live traffic, the operator and the        *)
(* monitor's sweep write to it, and the alert files the sweep keeps.  The   *)
(* sweep reads the rows in one session, awaits the probes and writes in a   *)
(* second session from what it read, so everything else can happen between. *)
(*                                                                         *)
(* Time is relative: row.cool is the number of ticks the key stays parked.  *)
(* The distance to the next hour, day or month is any number up to its      *)
(* length.                                                                  *)
(***************************************************************************)
EXTENDS Integers, FiniteSets

CONSTANTS
  Kind,           \* the kinds of key: [probe, micro, vibe]
  EveryN,         \* _ALIVE_PROBE_EVERY_N
  MaxCooldown,    \* MAX_COOLDOWN_S in ticks; an hour, a day and a month are longer
  Hour, Day, Month,
  MaxMoves,       \* bound on the changes made by the provider and the operator
  MaxCalls        \* bound on the calls of live traffic

\* A park taken from the backoff ladder ends before the next hour can; the calendar
\* does the rest.
ASSUME MonitorAssumption ==
  /\ Kind \subseteq [probe: {"list", "gen", "none"}, micro: BOOLEAN, vibe: BOOLEAN]
  /\ EveryN \in Nat \ {0} /\ MaxMoves \in Nat /\ MaxCalls \in Nat
  /\ MaxCooldown \in Nat /\ Hour \in Nat /\ Day \in Nat /\ Month \in Nat
  /\ MaxCooldown < Hour /\ Hour <= Day /\ Day <= Month

VARIABLES
  world,   \* what is true at the provider: credential, money, quota, network
  kind,    \* the fixed attributes of the key
  row,     \* the api_keys row
  strikes, \* throttles booked within the backoff window
  call,    \* one call of live traffic in flight, and its outcome
  mon,     \* the sweep
  file,    \* the alert file "key:<id>" exists
  tail,    \* the alert file "paid_tail:<capability>" exists
  revived, \* the last revival by a sweep: what it had read, how it was probed
  moves, calls

vars == <<world, kind, row, strikes, call, mon, file, tail, revived, moves, calls>>

Reply == {"ok", "429", "billing", "401", "5xx", "neterr", "timeout"}
Quota == {"none", "minute", "hour", "day", "month"}
Cause == {"none", "billing", "auth", "throttle", "decrypt"}
Verdict == {"none", "alive", "cooldown", "monthly", "dead", "broke", "neterr", "skip"}

NoSweep == [pc |-> "sleep", here |-> FALSE, alive |-> FALSE, sealed |-> FALSE,
            sweep |-> 0, broke |-> FALSE, billable |-> FALSE, verdict |-> "none"]
NotRevived == [broke |-> FALSE, billable |-> FALSE]
NoCall == [pc |-> "none", reply |-> "none", quota |-> "none", hint |-> 0]

Min2(a, b) == IF a < b THEN a ELSE b
Max2(a, b) == IF a > b THEN a ELSE b

(***************************************************************************)
(* The provider.  A call that generates meets the balance and the quota; a  *)
(* list endpoint sees only the credential.                                  *)
(***************************************************************************)
Heard(generates) ==
  IF world.net = "down" THEN {"neterr"}
  ELSE IF world.net = "failing" THEN {"5xx"}
  ELSE IF world.revoked THEN {"401"}
  ELSE IF generates /\ ~world.funds THEN {"billing"}
  ELSE IF generates /\ world.quota # "none"
       THEN IF kind.vibe /\ world.quota = "month" THEN {"401"} ELSE {"429"}
  ELSE {"ok"}

(***************************************************************************)
(* Live traffic: classification, the length of a park, the writes.          *)
(***************************************************************************)
classify_provider_error(reply) ==
  CASE reply = "timeout" -> "rate_limit"
    [] reply = "billing" -> "auth"
    [] reply = "401" /\ kind.vibe -> "rate_limit"
    [] reply = "429" -> "rate_limit"
    [] reply = "401" /\ ~kind.vibe -> "auth"
    [] OTHER -> "error"

cooldown_seconds(steps) == Min2(2 ^ steps, MaxCooldown)

adaptive_cooldown(reply) ==
  cooldown_seconds(IF reply = "timeout" THEN strikes + 1 ELSE strikes)

Until_afterNext(length) == length .. (2 * length)

Until(length) == (MaxCooldown + 1) .. length

cooldown_until(c) ==
  IF c.hint > 0 THEN {Max2(c.hint, adaptive_cooldown(c.reply))}
  ELSE IF c.quota = "month" \/ c.reply = "401" THEN Until(Month)
  ELSE IF c.quota = "day" THEN Until(Day)
  ELSE IF c.quota = "hour" THEN Until(Hour)
  ELSE {adaptive_cooldown(c.reply)}

Serving == row.exists /\ row.active /\ row.alive /\ row.cool = 0

CallBegin ==
  /\ Serving
  /\ call.pc = "none"
  /\ calls < MaxCalls
  /\ calls' = calls + 1
  /\ call' = [NoCall EXCEPT !.pc = "out"]
  /\ UNCHANGED <<world, kind, row, strikes, mon, file, tail, revived, moves>>

CallAnswer ==
  /\ call.pc = "out"
  /\ \E r \in Heard(TRUE) \cup {"timeout"}, h \in {0, 1, Day}:
       /\ h # 0 => r = "429"
       /\ call' = [pc |-> "book", reply |-> r, hint |-> h,
                   quota |-> IF r = "429" THEN world.quota ELSE "none"]
  /\ UNCHANGED <<world, kind, row, strikes, mon, file, tail, revived, moves, calls>>

mark_cooldown(until) == row' = [row EXCEPT !.cool = until, !.err = "throttle"]

mark_dead(cause) == row' = [row EXCEPT !.alive = FALSE, !.err = cause]

\* The one place a park or an error is taken back without a probe.
_recover_set == row' = [row EXCEPT !.err = "none", !.cool = 0]

CallBook ==
  /\ call.pc = "book"
  /\ call' = NoCall
  /\ \/ /\ row.exists
        /\ \/ /\ call.reply = "ok"
              /\ _recover_set
              /\ UNCHANGED strikes
           \/ /\ call.reply # "ok"
              /\ classify_provider_error(call.reply) = "rate_limit"
              /\ \E u \in cooldown_until(call): mark_cooldown(u)
              /\ strikes' = Min2(strikes + 1, 2)
           \/ /\ call.reply # "ok"
              /\ classify_provider_error(call.reply) = "auth"
              /\ mark_dead(IF call.reply = "billing" THEN "billing" ELSE "auth")
              /\ UNCHANGED strikes
           \/ /\ call.reply # "ok"
              /\ classify_provider_error(call.reply) = "error"
              /\ UNCHANGED <<row, strikes>>
     \/ /\ ~row.exists
        /\ UNCHANGED <<row, strikes>>
  /\ UNCHANGED <<world, kind, mon, file, tail, revived, moves, calls>>

(***************************************************************************)
(* The sweep.                                                               *)
(***************************************************************************)
_should_probe_downOnly == ~row.alive \/ row.cool > 0

_should_probe ==
  \/ ~row.alive \/ row.cool > 0
  \/ ~kind.micro /\ mon.sweep = 0

_needs_billable_probe_paidOnly == row.tier = "paid"

_needs_billable_probe == row.tier = "paid" \/ (~row.alive /\ row.err = "billing")

TickRead ==
  /\ mon.pc = "sleep"
  /\ mon' = [mon EXCEPT !.pc = IF row.exists /\ row.active /\ ~world.sealed /\ _should_probe
                               THEN "probing" ELSE "writing",
                        !.here = row.exists /\ row.active,
                        !.sealed = world.sealed,
                        !.alive = row.alive,
                        !.broke = ~row.alive /\ row.err = "billing",
                        !.billable = _needs_billable_probe]
  /\ UNCHANGED <<world, kind, row, strikes, call, file, tail, revived, moves, calls>>

\* kind.probe = "list" has a billing_probe besides; "gen" generates anyway.
Generates == kind.probe = "gen" \/ mon.billable

Judge_skipAlive(r) ==
  IF kind.probe = "none" THEN "alive"
  ELSE CASE r = "neterr" -> "neterr" [] r = "billing" -> "broke" [] r = "429" -> "cooldown"
         [] r = "401" -> IF kind.vibe THEN "monthly" ELSE "dead" [] OTHER -> "alive"

Judge(r) ==
  IF kind.probe = "none" THEN "skip"
  ELSE CASE r = "neterr"  -> "neterr"
         [] r = "billing" -> "broke"
         [] r = "429"     -> "cooldown"
         [] r = "401"     -> IF kind.vibe THEN "monthly" ELSE "dead"
         [] OTHER         -> "alive"

Probe ==
  /\ mon.pc = "probing"
  /\ \E r \in Heard(Generates):
       mon' = [mon EXCEPT !.pc = "writing", !.verdict = Judge(r)]
  /\ UNCHANGED <<world, kind, row, strikes, call, file, tail, revived, moves, calls>>

_cooldown_end(verdict) == IF verdict = "monthly" THEN Until(Month) ELSE {1}

_extend_cooldown_values_overwrite(until) == [cool |-> until, err |-> "throttle"]

_extend_cooldown_values(until) ==
  [cool |-> Max2(row.cool, until),
   err  |-> IF row.cool > until THEN row.err ELSE "throttle"]

Alive == [row EXCEPT !.alive = TRUE, !.err = "none"]

Cooled_leftDead(until) ==
  [row EXCEPT !.cool = _extend_cooldown_values(until).cool,
              !.err = _extend_cooldown_values(until).err]

Cooled(until) ==
  [row EXCEPT !.alive = TRUE,
              !.cool = _extend_cooldown_values(until).cool,
              !.err = _extend_cooldown_values(until).err]

Killed(cause) == [row EXCEPT !.alive = FALSE, !.err = cause]

alert(was_alive) == IF was_alive THEN file' = TRUE ELSE UNCHANGED file

recover(was_alive) == IF was_alive THEN UNCHANGED file ELSE file' = FALSE

Revival == [broke |-> mon.broke, billable |-> Generates]

\* The sweep's UPDATEs for this key, all from what TickRead saw.
Judged ==
  \/ /\ mon.sealed
     /\ row' = Killed("decrypt")
     /\ alert(mon.alive)
     /\ UNCHANGED revived
  \/ /\ ~mon.sealed
     /\ mon.verdict \in {"none", "skip", "neterr"}
     /\ UNCHANGED <<row, file, revived>>
  \/ /\ mon.verdict = "alive"
     /\ row' = Alive
     /\ recover(mon.alive)
     /\ revived' = IF row.alive THEN revived ELSE Revival
  \/ /\ mon.verdict \in {"cooldown", "monthly"}
     /\ \E u \in _cooldown_end(mon.verdict): row' = Cooled(u)
     /\ recover(mon.alive)
     /\ revived' = IF row.alive THEN revived ELSE Revival
  \/ /\ mon.verdict \in {"dead", "broke"}
     /\ row' = Killed(IF mon.verdict = "broke" THEN "billing" ELSE "auth")
     /\ alert(mon.alive)
     /\ UNCHANGED revived

Slept == [NoSweep EXCEPT !.sweep = (mon.sweep + 1) % EveryN]

TickWrite ==
  /\ mon.pc = "writing"
  /\ mon' = [NoSweep EXCEPT !.pc = "tail", !.sweep = mon.sweep]
  /\ \/ mon.here /\ row.exists /\ Judged
     \/ ~(mon.here /\ row.exists) /\ UNCHANGED <<row, file, revived>>
  /\ UNCHANGED <<world, kind, strikes, call, tail, moves, calls>>

\* A statement for another key fails: everything is rolled back but the alert
\* files, which were written as the rows went by; the tick ends here.
TickFail ==
  /\ mon.pc = "writing"
  /\ moves < MaxMoves
  /\ moves' = moves + 1
  /\ mon' = Slept
  /\ file' \in {file} \cup
       (IF ~mon.here THEN {}
        ELSE IF mon.alive /\ (mon.sealed \/ mon.verdict \in {"dead", "broke"}) THEN {TRUE}
        ELSE IF ~mon.alive /\ ~mon.sealed /\ mon.verdict \in {"alive", "cooldown", "monthly"}
             THEN {FALSE}
        ELSE {})
  /\ UNCHANGED <<world, kind, row, strikes, call, tail, revived, calls>>

_paid_key_usable ==
  row.exists /\ row.tier = "paid" /\ row.active /\ row.alive /\ row.cool = 0 /\ ~world.spent

_check_paid_tail_alertOnly ==
  /\ mon.pc = "tail"
  /\ tail' = (tail \/ ~_paid_key_usable)
  /\ mon' = Slept
  /\ UNCHANGED <<world, kind, row, strikes, call, file, revived, moves, calls>>

_check_paid_tail ==
  /\ mon.pc = "tail"
  /\ tail' = ~_paid_key_usable
  /\ mon' = Slept
  /\ UNCHANGED <<world, kind, row, strikes, call, file, revived, moves, calls>>

(***************************************************************************)
(* The operator.                                                            *)
(***************************************************************************)
Operator(r) ==
  /\ row.exists
  /\ row' = r
  /\ UNCHANGED <<strikes, call, mon, file, tail, revived>>

\* quota_for_key takes the manual limit, else the one discovered from the
\* headers, else the provider's: a form or a probe may move it either way.
NewLimit == kind' \in [probe: {kind.probe}, micro: BOOLEAN, vibe: {kind.vibe}]

\* create_key and dash_create_key on an existing label: a new token, and the
\* limits discover_and_store reads off its first probe.
UpsertKey ==
  /\ \E t \in {"free", "paid"}:
       Operator([row EXCEPT !.tier = t, !.active = TRUE, !.alive = TRUE])
  /\ NewLimit
  /\ world' = [world EXCEPT !.revoked = FALSE, !.sealed = FALSE]

\* dash_edit_key: the state the key is in is not touched, even by a new token.
EditKey ==
  /\ \E t \in {"free", "paid"}: Operator([row EXCEPT !.tier = t])
  /\ NewLimit
  /\ world' \in {world, [world EXCEPT !.revoked = FALSE, !.sealed = FALSE]}

dash_toggle_key ==
  /\ Operator([row EXCEPT !.active = ~row.active, !.alive = @ \/ ~row.active])
  /\ UNCHANGED <<world, kind>>

disable_key ==
  /\ Operator([row EXCEPT !.active = FALSE])
  /\ UNCHANGED <<world, kind>>

delete_key ==
  /\ Operator([row EXCEPT !.exists = FALSE])
  /\ UNCHANGED <<world, kind>>

ProviderChanges ==
  /\ world' \in {[world EXCEPT !.revoked = TRUE], [world EXCEPT !.funds = ~@],
                 [world EXCEPT !.spent = ~@], [world EXCEPT !.sealed = TRUE]}
       \cup {[world EXCEPT !.quota = q]: q \in Quota}
       \cup {[world EXCEPT !.net = n]: n \in {"up", "down", "failing"}}
  /\ world' # world
  /\ UNCHANGED <<kind, row, strikes, call, mon, file, tail, revived>>

Move ==
  /\ moves < MaxMoves
  /\ moves' = moves + 1
  /\ UNCHANGED calls
  /\ UpsertKey \/ EditKey \/ dash_toggle_key \/ disable_key \/ delete_key \/ ProviderChanges

\* A tick of the clock; the backoff window may have passed.
Tick ==
  /\ row.cool > 0
  /\ row' = [row EXCEPT !.cool = @ - 1]
  /\ strikes' \in {strikes, 0}
  /\ UNCHANGED <<world, kind, call, mon, file, tail, revived, moves, calls>>

-----------------------------------------------------------------------------
Init ==
  /\ \E healthy \in BOOLEAN:
       world = [revoked |-> FALSE, net |-> "up", spent |-> FALSE, sealed |-> FALSE,
                funds |-> healthy, quota |-> IF healthy THEN "none" ELSE "minute"]
  /\ kind \in Kind
  /\ row \in [exists: {TRUE}, active: {TRUE}, alive: {TRUE}, cool: {0}, err: {"none"},
              tier: {"free", "paid"}]
  /\ strikes = 0
  /\ call = NoCall
  /\ mon = NoSweep
  /\ file = FALSE
  /\ tail = FALSE
  /\ revived = NotRevived
  /\ moves = 0
  /\ calls = 0

Next ==
  \/ CallBegin \/ CallAnswer \/ CallBook
  \/ TickRead \/ Probe \/ TickWrite \/ TickFail \/ _check_paid_tail
  \/ Move \/ Tick

Sweep == TickRead \/ Probe \/ TickWrite \/ _check_paid_tail
Answer == CallAnswer \/ CallBook

\* main() sweeps forever and every probe has a timeout; a call has one too.
Fairness == WF_vars(Sweep) /\ WF_vars(Answer) /\ WF_vars(Tick)

Spec == Init /\ [][Next]_vars /\ Fairness
-----------------------------------------------------------------------------
TypeOK ==
  /\ world \in [revoked: BOOLEAN, funds: BOOLEAN, quota: Quota,
                net: {"up", "down", "failing"}, spent: BOOLEAN, sealed: BOOLEAN]
  /\ row \in [exists: BOOLEAN, active: BOOLEAN, alive: BOOLEAN, cool: 0..Month,
              err: Cause, tier: {"free", "paid"}]
  /\ strikes \in 0..2
  /\ call \in [pc: {"none", "out", "book"}, reply: Reply \cup {"none"},
               quota: Quota, hint: {0, 1, Day}]
  /\ mon.pc \in {"sleep", "probing", "writing", "tail"}
  /\ mon.sweep \in 0..(EveryN - 1)
  /\ mon.verdict \in Verdict
  /\ file \in BOOLEAN /\ tail \in BOOLEAN

ParkExtends ==
  (mon' # mon \/ moves' # moves) => row'.cool >= row.cool

\* Neither a sweep nor the operator brings the end of a park nearer, however long
\* ago the sweep read the row: only a success or a later throttle of live traffic
\* may, and the clock.
ParkOnlyExtends == [][ParkExtends]_vars

\* A sweep that knew the key had died of an empty balance never takes it back
\* on the word of an endpoint that does not bill.
KnownBillingDeathNeedsBilledCall == revived.broke => revived.billable

StaysDead ==
  (kind.probe = "none" /\ ~row.alive /\ row'.alive) => moves' # moves

\* A key whose provider cannot be probed and that died stays dead until the
\* operator acts: no sweep brings it back for traffic to kill again.
UnprobeableStaysDead == [][StaysDead]_vars

Good ==
  /\ row.exists /\ row.active
  /\ kind.probe # "none" /\ world.net = "up"
  /\ ~world.revoked /\ world.funds /\ ~world.sealed

\* A usable credential is not left marked dead for ever, whatever quota it has run into.
DeadGoodKeyRevives == []<>(row.alive \/ ~Good)

Doomed ==
  /\ row.exists /\ row.active
  /\ kind.probe # "none" /\ ~kind.micro /\ ~kind.vibe /\ world.net = "up"
  /\ world.revoked

\* A revoked key that is active does not stay in the rotation for ever.
RevokedKeyDies == []<>(~row.alive \/ ~Doomed)

\* The paid-tail alert is raised when the lane stays without a usable paid key,
\* and taken back when it stays with one.
TailAlertFollows ==
  /\ <>[](~_paid_key_usable) => <>[]tail
  /\ <>[]_paid_key_usable => <>[](~tail)

(* A sweep decides on a row it read before its probes: what it writes later *)
(* shortens no park, and revives no key on a word that cannot be trusted    *)
(* (monitor.tick): the three parts above.                                   *)
SweepRespects == ParkOnlyExtends /\ UnprobeableStaysDead /\ []KnownBillingDeathNeedsBilledCall

\* The rows follow what is true at the provider, and the alert follows the rows.
KeysFollow == DeadGoodKeyRevives /\ RevokedKeyDies /\ TailAlertFollows
=============================================================================
