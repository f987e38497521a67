--------------------------- MODULE ResponseCache ---------------------------
(***************************************************************************)
(* The response cache of a worker (services/response_cache.py, read and      *)
(* filled by run_chat): an ordered dictionary, least recently used first,    *)
(* with a time to live per capability that only a read enforces.  Requests   *)
(* that miss are answered by a provider and stored, several at once.         *)
(***************************************************************************)
EXTENDS Integers, Sequences, FiniteSets

CONSTANTS
  Project, Message,
  Format,          \* response_format of the request
  Capability,      \* message -> its capability
  Cacheable,       \* _CACHEABLE
  TTL,             \* capability -> _TTL_S
  MaxEntries,      \* _MAX_ENTRIES
  MaxAge,          \* bound: older than this is all the same
  MaxCalls         \* bound: requests at a provider at once

VARIABLES
  store,     \* _store: [key, text, age], the next to be evicted first
  calls,     \* requests at a provider
  hit,       \* the last answer from the cache, at most one
  used       \* the keys in the order of their last use, and their ages

vars == <<store, calls, hit, used>>

Signature == [project: Project, message: Message, format: Format]
cap(r) == Capability[r.message]

is_cacheable(r) == cap(r) \in Cacheable

_key_anyProject(r) == <<cap(r), r.message, r.format>>
_key(r) == <<r.project, cap(r), r.message, r.format>>

Init == store = <<>> /\ calls = {} /\ hit = {} /\ used = <<>>

At(k) == {i \in DOMAIN store: store[i].key = k}

\* A dictionary has a key at most once.
Without(s, k) ==
  LET at == {i \in DOMAIN s: s[i].key = k}
      i == CHOOSE i \in at: TRUE
  IN  IF at = {} THEN s ELSE [n \in 1 .. Len(s) - 1 |-> IF n < i THEN s[n] ELSE s[n + 1]]

\* A use: the request is the last one used (age 0 when it was stored).
Use(r, age) == used' = Append(Without(used, r), [key |-> r, age |-> age])

-----------------------------------------------------------------------------
Touch_none(s, e) == s
Touch(s, e) == Append(Without(s, e.key), e)

\* An answer that is not older than its time to live, and is moved to the end.
get_hit(r) ==
  /\ is_cacheable(r)
  /\ \E i \in At(_key(r)):
       /\ store[i].age <= TTL[cap(r)]
       /\ store' = Touch(store, store[i])
       /\ hit' = {[req |-> r, text |-> store[i].text, age |-> store[i].age]}
       /\ Use(r, store[i].age)
  /\ UNCHANGED calls

\* An old answer is dropped; then the walk over the providers.
get_miss(r) ==
  /\ is_cacheable(r) => \A i \in At(_key(r)): store[i].age > TTL[cap(r)]
  /\ Cardinality(calls) < MaxCalls /\ r \notin calls
  /\ store' = IF is_cacheable(r) THEN Without(store, _key(r)) ELSE store
  /\ calls' = calls \cup {r} /\ hit' = {}
  /\ UNCHANGED used

\* The oldest entries go until the store is within its limit.
Evicted(s) == IF Len(s) > MaxEntries THEN SubSeq(s, 1 + Len(s) - MaxEntries, Len(s)) ELSE s

\* A provider answered; an empty answer is not stored, nor one that may differ.
put(r) ==
  /\ r \in calls /\ calls' = calls \ {r} /\ hit' = {}
  /\ IF ~is_cacheable(r) THEN UNCHANGED <<store, used>>
     ELSE /\ store' = Evicted(Append(Without(store, _key(r)), [key |-> _key(r), text |-> r, age |-> 0]))
          /\ Use(r, 0)

Fail(r) == r \in calls /\ calls' = calls \ {r} /\ hit' = {} /\ UNCHANGED <<store, used>>

Older(s) == [i \in DOMAIN s |-> [s[i] EXCEPT !.age = IF @ < MaxAge THEN @ + 1 ELSE @]]

Tick == store' = Older(store) /\ used' = Older(used) /\ hit' = {} /\ UNCHANGED calls

Next == (\E r \in Signature: get_hit(r) \/ get_miss(r) \/ put(r) \/ Fail(r)) \/ Tick

Spec == Init /\ [][Next]_vars
-----------------------------------------------------------------------------
\* A cached answer was given to this very project for this very request, format
\* included, and within the time to live of its capability.
HitIsOwn == \A h \in hit: h.text = h.req /\ cap(h.req) \in Cacheable /\ h.age <= TTL[cap(h.req)]

\* The cache holds at most MaxEntries, and the MaxEntries requests used last are
\* all still there: one that is read again and again is never the one evicted.
RecentKept ==
  /\ Len(store) <= MaxEntries
  /\ \A i \in DOMAIN used:
       i > Len(used) - MaxEntries /\ used[i].age <= TTL[cap(used[i].key)] => At(_key(used[i].key)) # {}
=============================================================================
