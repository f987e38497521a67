---------------------------- MODULE RoutingState ----------------------------
(***************************************************************************)
(* What the workers share about routing (routing/shared_state.py): the key   *)
(* pin and the route pin of routing/affinity.py and the saturation verdict   *)
(* of routing/selector.py, each in Redis with a time to live, and in a       *)
(* dictionary of the process as the fallback.  Redis may be down, slow, or   *)
(* come back empty; a worker that met a failure leaves it alone for          *)
(* RetryS.  Every await lasts at most Slow ticks.  Times are kept as ages,   *)
(* and which key a pin names is left out: only when it was noted matters.    *)
(***************************************************************************)
EXTENDS Integers, FiniteSets

CONSTANTS
  Worker,      \* processes
  Req,         \* concurrent requests
  TTL,         \* AFFINITY_TTL_S
  SatTTL,      \* _SATURATION_TTL_S
  RetryS,      \* _REDIS_RETRY_S
  Slow,        \* socket_timeout, in ticks
  MaxAge,      \* bound: older than this is all the same
  MaxFaults    \* bound: outages and timeouts

VARIABLES
  up,        \* Redis answers
  redis,     \* slot -> the live entry, at most one
  local,     \* worker -> slot -> the entry of the process, at most one
  off,       \* worker -> _disabled_until, in ticks from now
  failed,    \* worker -> ticks since its last failure (at most RetryS)
  req,       \* the requests in flight
  about,     \* what the requests of this behaviour use: the pins, or the verdict
  faults

vars == <<up, redis, local, off, failed, req, about, faults>>

Slot == {"pin", "route", "sat"}
Nobody == "nobody"

\* The age of what was noted or computed; the age of the stamp its life is counted
\* from (in the process), or the life it has left (in Redis).
Entry(age, stamp) == {[age |-> age, stamp |-> stamp]}

\* pc, worker, operation, slot, ticks since the await and the operation began,
\* age of the value it carries or answers with (-1: none).
Idle == [pc |-> "idle", w |-> Nobody, op |-> "none", slot |-> "pin", since |-> 0, t0 |-> 0, age |-> -1]

Init ==
  /\ up = TRUE /\ faults = 0 /\ about \in {"pins", "verdict"}
  /\ redis = [s \in Slot |-> {}]
  /\ local = [w \in Worker |-> [s \in Slot |-> {}]]
  /\ off = [w \in Worker |-> 0] /\ failed = [w \in Worker |-> RetryS]
  /\ req = [r \in Req |-> Idle]

TtlOf(s) == IF s = "sat" THEN SatTTL ELSE TTL

\* A step of a coroutine up to its next await: the request's record, the entries
\* of its process, and how long the store is off for that process.
Result(x, own, o) == [x |-> x, own |-> own, off |-> o]
Do(r, res) ==
  /\ req' = [req EXCEPT ![r] = IF res.x.pc = "done" THEN [Idle EXCEPT !.pc = "done", !.op = res.x.op, !.age = res.x.age]
                               ELSE res.x]
  /\ local' = [local EXCEPT ![res.x.w] = res.own]
  /\ off' = [off EXCEPT ![res.x.w] = res.off]

Answer(x, own, o, age) == Result([x EXCEPT !.pc = "done", !.age = age], own, o)
Await(x, own, o, pc) == Result([x EXCEPT !.pc = pc, !.since = 0], own, o)
AgeOf(entries) == IF entries = {} THEN -1 ELSE (CHOOSE e \in entries: TRUE).age

\* The store is on for a process unless it failed less than RetryS ago.
_get_client(o) == o = 0

_trip_never(o) == o
_trip(o) == RetryS

-----------------------------------------------------------------------------
(* The operations of a request                                              *)

\* What a lookup takes from the process: an entry older than the time to live is
\* dropped.  The verdict is computed from the database instead.
Fallback_anyAge(x, own, o) ==
  IF x.slot = "sat" THEN Await(x, own, o, "db") ELSE Answer(x, own, o, AgeOf(own[x.slot]))
Fallback(x, own, o) ==
  LET live == {e \in own[x.slot]: e.stamp <= TTL}
  IN IF x.slot = "sat" THEN Await(x, own, o, "db")
     ELSE Answer(x, [own EXCEPT ![x.slot] = live], o, AgeOf(live))

\* lookup_route, _affinity_for_shared, get_saturated: the store first.
Fetch(x, own, o) == IF _get_client(o) THEN Await(x, own, o, "get") ELSE Fallback(x, own, o)

\* The value another worker stored.  A verdict is kept under the time at which
\* this call began, and not published again.
Adopt_republished(x, own, o, e) ==
  IF x.slot = "sat"
  THEN Await([x EXCEPT !.age = e.age], [own EXCEPT !["sat"] = Entry(e.age, x.t0)], o, "set")
  ELSE Answer(x, own, o, e.age)
Adopt(x, own, o, e) ==
  Answer(x, IF x.slot = "sat" THEN [own EXCEPT !["sat"] = Entry(e.age, x.t0)] ELSE own, o, e.age)

\* note_route after the key pin; then there is nothing left to write.
Noted(x, own, o) ==
  LET pinned == [own EXCEPT !["route"] = Entry(0, 0)]
  IN IF x.slot = "pin" /\ _get_client(o) THEN Await([x EXCEPT !.slot = "route", !.age = 0], pinned, o, "set")
     ELSE Answer(x, IF x.slot = "pin" THEN pinned ELSE own, o, IF x.slot = "sat" THEN x.age ELSE -1)

\* set_json, set_saturated: the value is in the process already.
Publish(x, own, o) == IF _get_client(o) THEN Await(x, own, o, "set") ELSE Noted(x, own, o)

note_success(r, w) ==
  Do(r, Publish([Idle EXCEPT !.w = w, !.op = "note", !.age = 0], [local[w] EXCEPT !["pin"] = Entry(0, 0)], off[w]))

lookup(r, w) ==
  \E slot \in {"pin", "route"}:
    Do(r, Fetch([Idle EXCEPT !.w = w, !.op = "lookup", !.slot = slot], local[w], off[w]))

\* The verdict of the process while it is young.
_saturated_key_ids(r, w) ==
  LET x == [Idle EXCEPT !.w = w, !.op = "sat", !.slot = "sat"]
  IN Do(r, IF \E e \in local[w]["sat"]: e.stamp < SatTTL
           THEN Answer(x, local[w], off[w], AgeOf(local[w]["sat"]))
           ELSE Fetch(x, local[w], off[w]))

Start(r, w) ==
  /\ req[r].pc = "idle"
  /\ \/ about = "pins" /\ (note_success(r, w) \/ lookup(r, w))
     \/ about = "verdict" /\ _saturated_key_ids(r, w)
  /\ UNCHANGED <<failed, about, up, redis, faults>>

\* A call fails while Redis is down, or times out.
Fails(w) ==
  /\ up => faults < MaxFaults
  /\ faults' = IF up THEN faults + 1 ELSE faults
  /\ failed' = [failed EXCEPT ![w] = 0]

\* The answer of get_json, get_saturated.  A corrupt or evicted value is a miss.
Get(r) ==
  /\ req[r].pc = "get"
  /\ LET x == req[r]
         own == local[x.w]
         o == off[x.w]
     IN \/ up /\ (\E e \in redis[x.slot]: Do(r, Adopt(x, own, o, e))) /\ UNCHANGED <<failed, faults>>
        \/ up /\ Do(r, Fallback(x, own, o)) /\ UNCHANGED <<failed, faults>>
        \/ Fails(x.w) /\ Do(r, Fallback(x, own, _trip(o)))
  /\ UNCHANGED <<about, up, redis>>

\* The verdict over today's usage, kept under the time the call began.
Compute(r) ==
  /\ req[r].pc = "db"
  /\ LET x == req[r]
     IN Do(r, Publish([x EXCEPT !.age = 0], [local[x.w] EXCEPT !["sat"] = Entry(0, x.t0)], off[x.w]))
  /\ UNCHANGED <<failed, about, up, redis, faults>>

Stored(x) == [redis EXCEPT ![x.slot] = Entry(x.age, TtlOf(x.slot))]

\* The answer of setex.  A call that timed out may have been carried out.
Put(r) ==
  /\ req[r].pc = "set"
  /\ LET x == req[r]
         own == local[x.w]
         o == off[x.w]
     IN \/ up /\ redis' = Stored(x) /\ Do(r, Noted(x, own, o)) /\ UNCHANGED <<failed, faults>>
        \/ Fails(x.w) /\ redis' \in {redis} \cup (IF up THEN {Stored(x)} ELSE {}) /\ Do(r, Noted(x, own, _trip(o)))
  /\ UNCHANGED <<about, up>>

Return(r) ==
  /\ req[r].pc = "done"
  /\ req' = [req EXCEPT ![r] = Idle]
  /\ UNCHANGED <<failed, about, up, redis, local, off, faults>>

-----------------------------------------------------------------------------
(* Redis and the clock                                                      *)

Outage ==
  /\ up /\ faults < MaxFaults /\ faults' = faults + 1
  /\ up' = FALSE
  /\ UNCHANGED <<failed, about, redis, local, off, req>>

Back ==
  /\ ~up /\ up' = TRUE
  /\ redis' \in {redis, [s \in Slot |-> {}]}
  /\ UNCHANGED <<failed, about, local, off, req, faults>>

Older(n) == IF n < MaxAge THEN n + 1 ELSE n
Stale == 1 + IF TTL > SatTTL THEN TTL ELSE SatTTL

Tick ==
  /\ \A r \in Req: req[r].pc # "done" /\ (req[r].pc # "idle" => req[r].since < Slow)
  /\ redis' = [s \in Slot |-> {[age |-> Older(e.age), stamp |-> e.stamp - 1]: e \in {f \in redis[s]: f.stamp > 1}}]
  /\ local' = [w \in Worker |-> [s \in Slot |->
                 {[age |-> Older(e.age), stamp |-> IF e.stamp < Stale THEN e.stamp + 1 ELSE Stale]: e \in local[w][s]}]]
  /\ off' = [w \in Worker |-> IF off[w] > 0 THEN off[w] - 1 ELSE 0]
  /\ failed' = [w \in Worker |-> IF failed[w] < RetryS THEN failed[w] + 1 ELSE RetryS]
  /\ req' = [r \in Req |-> IF req[r].pc = "idle" THEN Idle ELSE [req[r] EXCEPT !.since = @ + 1, !.age = IF @ < 0 THEN @ ELSE Older(@),
                                                       !.t0 = IF @ < Stale THEN @ + 1 ELSE Stale]]
  /\ UNCHANGED <<about, up, faults>>

Next ==
  \/ \E r \in Req: (\E w \in Worker: Start(r, w)) \/ Get(r) \/ Compute(r) \/ Put(r) \/ Return(r)
  \/ Outage \/ Back \/ Tick

Spec == Init /\ [][Next]_vars
-----------------------------------------------------------------------------
\* A pin that routes a request was noted by a success no longer ago than the time
\* to live, plus the one write to the store: neither a store that comes back nor
\* the process's own dictionary revives an older one.
PinFresh == \A r \in Req: req[r].pc = "done" /\ req[r].op = "lookup" => req[r].age <= TTL + Slow

\* The saturation verdict a pick uses is at most two times to live old ("the
\* staleness compounds up to ~2xTTL"), plus the write to the store, however the
\* workers hand it to each other.
VerdictAge == \A r \in Req: req[r].pc = "done" /\ req[r].op = "sat" => req[r].age <= 2 * SatTTL + Slow

OnePaid ==
  \A r \in Req:
    req[r].pc \in {"get", "set"} /\ req'[r] # req[r] /\ failed'[req[r].w] = 0 /\ failed[req[r].w] < RetryS
      => \/ req[r].since >= failed[req[r].w]
         \/ UNCHANGED failed

\* A sick Redis is paid for once per retry window: a worker that fails against it
\* twice within the window had both calls under way at the first failure.
OutagePaidOnce == [][OnePaid]_vars
=============================================================================
