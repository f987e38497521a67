------------------------------ MODULE Circuit ------------------------------
(***************************************************************************)
(* The circuit breaker of a worker (routing/circuit.py): which keys timed    *)
(* out lately, and which providers did so with several keys, per scope;      *)
(* empty bodies likewise with a longer memory.  Every question also prunes   *)
(* what it finds to be old.  Times are kept as ages.                         *)
(***************************************************************************)
EXTENDS Integers, FiniteSets

CONSTANTS
  Provider, Key, Scope,
  ProviderOf,      \* key -> its provider
  TimeoutMemory,   \* _TIMEOUT_MEMORY_S
  EmptyMemory,     \* _EMPTY_MEMORY_S, the longer one
  MinKeys          \* min_keys

VARIABLES
  timeouts,    \* _key_timeouts: [key, age]
  storms,      \* _provider_timeouts: [prov, scope, key, age]
  empties,     \* _provider_empties: [prov, key, age]
  happened,    \* everything that happened, the latest of each: [what, scope, key, age]
  answer       \* the last question and its answer

vars == <<timeouts, storms, empties, happened, answer>>

Unasked == [to |-> "nothing", scope |-> "any", set |-> {}]

Init == timeouts = {} /\ storms = {} /\ empties = {} /\ happened = {} /\ answer = Unasked

Happens(what, scope, k) ==
  happened' = {h \in happened: <<h.what, h.scope, h.key>> # <<what, scope, k>>}
                \cup {[what |-> what, scope |-> scope, key |-> k, age |-> 0]}

-----------------------------------------------------------------------------
\* The bucket of a timeout is the provider and the scope.
Bucket_anyScope(prov, scope) == {e \in storms: e.prov = prov}
Bucket(prov, scope) == {e \in storms: e.prov = prov /\ e.scope = scope}

\* The time of a key is overwritten by a later one.
Stamp_first(entries, e) == IF \E f \in entries: [f EXCEPT !.age = 0] = e THEN entries ELSE entries \cup {e}
Stamp(entries, e) == {f \in entries: [f EXCEPT !.age = 0] # e} \cup {e}

note_timeout(k, scope) ==
  /\ timeouts' = Stamp(timeouts, [key |-> k, age |-> 0])
  /\ storms' = Stamp(storms, [prov |-> ProviderOf[k], scope |-> scope, key |-> k, age |-> 0])
  /\ Happens("timeout", scope, k) /\ answer' = Unasked
  /\ UNCHANGED empties

note_empty_body(k) ==
  /\ empties' = Stamp(empties, [prov |-> ProviderOf[k], key |-> k, age |-> 0])
  /\ Happens("empty", "any", k) /\ answer' = Unasked
  /\ UNCHANGED <<timeouts, storms>>

Young(entries, memory) == {e \in entries: e.age < memory}

recent_timeout_key_ids ==
  /\ timeouts' = Young(timeouts, TimeoutMemory)
  /\ answer' = [to |-> "keys", scope |-> "any", set |-> {e.key: e \in timeouts'}]
  /\ UNCHANGED <<storms, empties, happened>>

\* Prunes the buckets of every scope, counts the keys of one.
providers_in_timeout_storm(scope) ==
  /\ storms' = Young(storms, TimeoutMemory)
  /\ answer' = [to |-> "timeout", scope |-> scope,
                set |-> {p \in Provider: Cardinality({e.key: e \in Young(Bucket(p, scope), TimeoutMemory)}) >= MinKeys}]
  /\ UNCHANGED <<timeouts, empties, happened>>

providers_in_empty_storm ==
  /\ empties' = Young(empties, EmptyMemory)
  /\ answer' = [to |-> "empty", scope |-> "any",
                set |-> {p \in Provider: Cardinality({e.key: e \in {f \in empties': f.prov = p}}) >= MinKeys}]
  /\ UNCHANGED <<timeouts, storms, happened>>

Aged(entries) == {[e EXCEPT !.age = IF @ < EmptyMemory THEN @ + 1 ELSE @]: e \in entries}

Tick ==
  /\ timeouts' = Aged(timeouts) /\ storms' = Aged(storms) /\ empties' = Aged(empties)
  /\ happened' = Young(Aged(happened), EmptyMemory)
  /\ answer' = Unasked

Next ==
  \/ \E k \in Key: note_empty_body(k) \/ \E s \in Scope: note_timeout(k, s)
  \/ recent_timeout_key_ids \/ providers_in_empty_storm
  \/ \E s \in Scope: providers_in_timeout_storm(s)
  \/ Tick

Spec == Init /\ [][Next]_vars
-----------------------------------------------------------------------------
\* The keys that really failed so, within the memory, of one provider.
Failed(what, scope, memory, p) ==
  {h.key: h \in {g \in happened: g.what = what /\ g.scope = scope /\ g.age < memory /\ ProviderOf[g.key] = p}}

\* A provider is taken out of the chain for a storm exactly when enough different
\* keys of it failed within the memory while serving that scope: what was asked,
\* pruned or noted for another scope neither adds to it nor hides it.
StormExact ==
  /\ answer.to = "timeout" =>
       answer.set = {p \in Provider: Cardinality(Failed("timeout", answer.scope, TimeoutMemory, p)) >= MinKeys}
  /\ answer.to = "empty" =>
       answer.set = {p \in Provider: Cardinality(Failed("empty", "any", EmptyMemory, p)) >= MinKeys}

\* A key counts as hung exactly while its latest timeout, in whatever scope, is
\* within the memory.
HungExact ==
  answer.to = "keys" =>
    answer.set = UNION {Failed("timeout", s, TimeoutMemory, p): s \in Scope, p \in Provider}

\* The breaker answers by what happened within its memory (routing/circuit.py).
GuardsExact == StormExact /\ HungExact
=============================================================================
