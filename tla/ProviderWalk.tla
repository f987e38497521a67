----------------------------- MODULE ProviderWalk -----------------------------
(***************************************************************************)
(* One request's walk over providers and their keys: run_chat, run_embed,  *)
(* run_decision and run_transcribe (services/llm_service.py), the single   *)
(* attempt (services/attempt.py) and what it reads and writes: the key     *)
(* selector, cooldowns of keys and of (key, model) pairs, the timeout      *)
(* breaker, learned size ceilings and route pins (routing/, providers/).   *)
(*                                                                         *)
(* One action is what runs between two awaits that matter: choosing the    *)
(* steps, choosing a key, starting the call, its outcome. Between them     *)
(* other requests, the monitor and the clock change the shared state       *)
(* (Others); Meddle bounds how often. Money is in module CostGuard: here a *)
(* reservation is admitted or refused.                                     *)
(***************************************************************************)
EXTENDS Integers, Sequences, FiniteSets

CONSTANTS
  Provider, Chain,        \* providers; the capability's chain of them
  Key, ProvOf, TierOf,    \* keys, the provider and the tier of each
  Reserved,               \* keys with is_reserve
  Pool,                   \* provider -> models, the primary first
  PinOf,                  \* provider -> its id of the pinned model, or None
  MaxKeys,                \* provider -> ProviderSpec.max_keys
  MaxAttempts,            \* _MAX_ATTEMPTS_ABS, above the longest chain's key sum
  Paid, Sticky, Metered, Invoiced, \* flags of providers
  Incapable, Unreliable, ToolCapable, EmptyFails,
  Saver,                  \* the provider deferred to save money (deepseek)
  Kinds,                  \* the requests that may be made
  Meddle,                 \* bound on what others do during a walk
  None

VARIABLES
  health,   \* key -> "ok", "parked" (cooldown, daily limit or cap), "dead"
  cool,     \* key -> models cooling down on it (api_key_model_cooldowns)
  hung,     \* keys that timed out in this process within the memory window
  learned,  \* providers known to reject a prompt of this size
  route,    \* the target the request's family last succeeded on
  stop,     \* the client cancelled the job
  moves,    \* what others did so far
  walk

vars == <<health, cool, hung, learned, route, stop, moves, walk>>
shared == <<health, cool, hung, learned, route, stop>>

Ran(s) == {s[i] : i \in 1 .. Len(s)}

(* The members of S in s, in the order of s.                               *)
Only(s, S) ==
  LET kept[i \in 0 .. Len(s)] ==
        IF i = 0 THEN <<>> ELSE IF s[i] \in S THEN Append(kept[i - 1], s[i]) ELSE kept[i - 1]
  IN  kept[Len(s)]

KeysOf(p) == {k \in Key : ProvOf[k] = p}
ModelsOf(p) == Ran(Pool[p]) \cup ({PinOf[p]} \ {None})
Model == UNION {ModelsOf(p) : p \in Provider}

Kind == [run : {"chat", "embed", "decision", "transcribe"}, pin : BOOLEAN, paid : BOOLEAN,
         json : BOOLEAN, tools : BOOLEAN, free : BOOLEAN]
Tier == {"any", "free", "paid"}
Target == {t \in [key : Key, model : Model] : t.model \in ModelsOf(ProvOf[t.key])}
Step == [prov : Provider, model : Model \cup {None}, tier : Tier, key : Key \cup {None},
         frugal : BOOLEAN]
Result == {"none", "answer", "content", "exhausted", "failed", "cancelled"}

Fresh == [phase |-> "idle", kind |-> CHOOSE k \in Kinds : TRUE, steps |-> <<>>, at |-> 0, n |-> 0,
          tier |-> "any", degraded |-> FALSE, tries |-> 0, base |-> 0, bad |-> {}, other |-> FALSE,
          seen |-> FALSE, key |-> None, model |-> None, result |-> "none", cut |-> FALSE,
          capped |-> FALSE, excused |-> FALSE, late |-> 0]

TypeOK ==
  /\ health \in [Key -> {"ok", "parked", "dead"}]
  /\ cool \in [Key -> SUBSET Model]
  /\ hung \subseteq Key /\ learned \subseteq Provider
  /\ route \in Target \cup {None}
  /\ stop \in BOOLEAN /\ moves \in 0 .. Meddle
  /\ walk.phase \in {"idle", "pick", "start", "call", "fallback", "done"}
  /\ walk.kind \in Kinds /\ Kinds \subseteq Kind
  /\ walk.steps \in Seq(Step) /\ walk.at \in 0 .. Len(walk.steps) + 1
  /\ walk.tier \in Tier /\ walk.n \in Nat /\ walk.tries \in Nat
  /\ walk.result \in Result /\ walk.key \in Key \cup {None} /\ walk.model \in Model \cup {None}
  /\ walk.phase \in {"call", "fallback"} => walk.model \in ModelsOf(ProvOf[walk.key])

(* The targets a request family can have succeeded on.                     *)
Served(pin, t) ==
  IF pin THEN t.model = PinOf[ProvOf[t.key]] ELSE t.model \in Ran(Pool[ProvOf[t.key]])

Init ==
  /\ health = [k \in Key |-> "ok"] /\ cool = [k \in Key |-> {}]
  /\ hung = {} /\ learned = {}
  /\ route = None
  /\ stop = FALSE /\ moves = 0
  /\ walk = Fresh

-----------------------------------------------------------------------------
(* The steps of a walk                                                     *)

free_first_walk(kind, c) ==
  IF kind.paid \/ ~kind.free THEN c ELSE Only(c, Provider \ Paid)

deprioritize_for_json(c) ==
  LET capable == Only(c, Provider \ Incapable)
  IN  Only(capable, Provider \ Unreliable) \o Only(capable, Unreliable)

(* Only the saver and the providers after it move, and only when a free    *)
(* one is among them.                                                      *)
deprioritize_deepseek_for_savings(c, defer) ==
  IF ~defer \/ Saver \notin Ran(c) THEN c
  ELSE LET i == CHOOSE j \in 1 .. Len(c) : c[j] = Saver
           after == SubSeq(c, i + 1, Len(c))
           free == Only(after, Provider \ Paid)
       IN  IF free = <<>> THEN c
           ELSE SubSeq(c, 1, i - 1) \o free \o <<Saver>> \o Only(after, Paid)

ForJson(kind, c) == IF kind.json THEN deprioritize_for_json(c) ELSE c
ForTools(kind, c) == IF kind.tools THEN Only(c, ToolCapable) ELSE c

(* Peak prices, a large JSON prompt and a storm of empty bodies each defer *)
(* the saver: `defer' is any of them.                                      *)
_shape_chain(kind, defer) ==
  deprioritize_deepseek_for_savings(ForJson(kind, free_first_walk(kind, Chain)), defer)

_size_filtered(c, over) ==
  LET sized == Only(c, Provider \ over)
  IN  IF sized = <<>> THEN c ELSE sized

Leg(p, m, tier) == [prov |-> p, model |-> m, tier |-> tier, key |-> None, frugal |-> FALSE]

resolve_pin(c) == Only(c, {p \in Provider : PinOf[p] # None})

(* Free keys of every candidate before the paid keys of any.               *)
_pinned_steps(c, paid_only) ==
  LET gratis == IF paid_only THEN <<>> ELSE Only(c, Provider \ Paid)
  IN  [i \in 1 .. Len(gratis) |-> Leg(gratis[i], PinOf[gratis[i]], "free")]
        \o [i \in 1 .. Len(c) |-> Leg(c[i], PinOf[c[i]], "paid")]

(* The candidates of a pinned walk: the JSON filter drops providers and    *)
(* keeps their order.                                                      *)
PinTargets(kind, over) ==
  LET able == Ran(ForJson(kind, Chain))
  IN  _size_filtered(Only(ForTools(kind, resolve_pin(Chain)), able), over)

may_promote(kind, target, head) ==
  kind.paid \/ ~(ProvOf[target.key] \in Paid /\ head \notin Paid)

(* Whether the affine leg must keep off paid keys.                         *)
Frugal_never(kind, head) == FALSE
Frugal(kind, head) == ~kind.paid /\ head \notin Paid

(* The affine leg: one attempt, on exactly the pinned key.                 *)
_with_affinity(kind, steps, target) ==
  IF \/ steps = <<>> \/ target = None
  THEN steps
  ELSE IF \/ ~may_promote(kind, target, steps[1].prov)
          \/ \A i \in 1 .. Len(steps) :
               steps[i].prov # ProvOf[target.key] \/ steps[i].model \notin {None, target.model}
       THEN steps
       ELSE <<[prov |-> ProvOf[target.key], model |-> target.model,
               tier |-> IF kind.paid THEN "paid" ELSE "any", key |-> target.key,
               frugal |-> Frugal(kind, steps[1].prov)]>> \o steps

(* What lookup_route finds: a target the family succeeded on before, or    *)
(* nothing once the pin expired or while neither Redis nor this process    *)
(* remembers it.                                                           *)
lookup_route(kind) == {t \in Target : Served(kind.pin, t)} \cup {None}

ChatSteps(kind, over, defer, target) ==
  LET c == _size_filtered(ForTools(kind, _shape_chain(kind, defer)), over)
  IN  _with_affinity(kind,
        IF kind.pin THEN _pinned_steps(PinTargets(kind, over), kind.paid)
                    ELSE [i \in 1 .. Len(c) |-> Leg(c[i], None, "any")],
        target)

(* An embedding stays with the caller's provider, a decision with the paid *)
(* keys of one provider; a transcription walks the chain.                  *)
EmbedSteps(kind) ==
  {<<Leg(p, IF kind.pin THEN PinOf[p] ELSE None, "any")>> :
     p \in {q \in Ran(Chain) : ~kind.pin \/ PinOf[q] # None}}
DecisionSteps == <<Leg(Chain[1], None, "paid")>>
TranscribeSteps == [i \in 1 .. Len(Chain) |-> Leg(Chain[i], None, "any")]

RunSteps(kind, over, target) ==
  CASE kind.run = "embed"      -> EmbedSteps(kind)
    [] kind.run = "decision"   -> {DecisionSteps}
    [] kind.run = "transcribe" -> {TranscribeSteps}
    [] OTHER -> {ChatSteps(kind, over, defer, target) : defer \in BOOLEAN}

(* What one visit of a step may try, and the sums over the first steps.    *)
Allowance(step) == IF step.key = None THEN MaxKeys[step.prov] ELSE 1

KeySum(steps) ==
  LET sum[i \in 0 .. Len(steps)] == IF i = 0 THEN 0 ELSE sum[i - 1] + MaxKeys[steps[i].prov]
  IN  sum

_attempt_budget_chainOnly(steps) ==
  LET sum[i \in 0 .. Len(steps)] ==
        IF i = 0 THEN 0 ELSE sum[i - 1] + (IF i = 1 THEN 1 ELSE MaxKeys[steps[i].prov])
  IN  IF sum[Len(steps)] < MaxAttempts THEN sum[Len(steps)] ELSE MaxAttempts
_attempt_budget(steps) ==
  LET total == KeySum(steps)[Len(steps)] IN IF total < MaxAttempts THEN total ELSE MaxAttempts

-----------------------------------------------------------------------------
(* Moving along the steps                                                  *)

StepTier_forgetful(w, step) ==
  IF step.tier = "any" /\ w.kind.paid THEN "paid" ELSE step.tier
StepTier(w, step) ==
  IF w.degraded /\ step.tier = "any" THEN "free"
  ELSE IF step.tier = "any" /\ w.kind.paid THEN "paid" ELSE step.tier

(* A walk without an answer: no key was ever seen (503), every attempt was *)
(* a content failure, or the last error is reported.                       *)
Verdict(w) ==
  IF w.kind.run = "chat"
  THEN IF w.bad # {} /\ ~w.other THEN "content" ELSE "none"
  ELSE IF w.seen THEN "failed" ELSE "none"

(* What a finished walk leaves is its verdict.                             *)
End(w, r) ==
  [Fresh EXCEPT !.phase = "done", !.kind = w.kind, !.result = r, !.steps = w.steps, !.at = w.at,
                !.cut = w.cut, !.late = w.late]

NextStep(w) ==
  IF w.at >= Len(w.steps) THEN End([w EXCEPT !.at = Len(w.steps) + 1], Verdict(w))
  ELSE [w EXCEPT !.at = w.at + 1, !.n = 0, !.base = 0, !.phase = "pick", !.key = None,
                 !.model = None, !.tier = StepTier(w, w.steps[w.at + 1])]

NextKey(w) ==
  IF w.n + 1 >= Allowance(w.steps[w.at]) THEN NextStep(w)
  ELSE [w EXCEPT !.n = w.n + 1, !.phase = "pick", !.key = None, !.model = None]

(* The ceilings and the pin that other requests left are read once, here.  *)
Begin ==
  /\ walk.phase = "idle"
  /\ \E kind \in Kinds :
       \E over \in IF kind.run = "chat" THEN SUBSET Ran(Chain) ELSE {{}},
          target \in IF kind.run = "chat" THEN lookup_route(kind) ELSE {None} :
         \E steps \in RunSteps(kind, over, target) :
           LET w == [walk EXCEPT !.kind = kind, !.steps = steps]
           IN  /\ walk' = IF steps = <<>> THEN End(w, "none")
                          ELSE [w EXCEPT !.phase = "pick", !.at = 1,
                                         !.tier = StepTier(w, steps[1])]
               /\ learned' = over /\ route' = target
  /\ UNCHANGED <<health, cool, hung, stop, moves>>

-----------------------------------------------------------------------------
(* Choosing a key (pick_and_reserve)                                       *)

providers_in_timeout_storm(p) == Cardinality({k \in hung : ProvOf[k] = p}) >= 2

_model_pool_ofHead(w) == Pool[w.steps[1].prov]
_model_pool_rotates(w) ==
  LET step == w.steps[w.at]
  IN  IF w.kind.run = "chat" THEN Pool[step.prov] ELSE SubSeq(Pool[step.prov], 1, 1)
_model_pool(w) ==
  LET step == w.steps[w.at]
  IN  IF step.model # None THEN <<step.model>>
      ELSE IF w.kind.run = "chat" \/ Pool[step.prov] = <<>> THEN Pool[step.prov]
      ELSE <<Pool[step.prov][1]>>

Available_wholeKey(w) ==
  {k \in KeysOf(w.steps[w.at].prov) : health[k] = "ok" /\ w.tier \in {"any", TierOf[k]}}

(* The conditions of the pick. A decision's pick leaves the per-model      *)
(* cooldowns out.                                                          *)
Available(w) ==
  {k \in KeysOf(w.steps[w.at].prov) :
     /\ health[k] = "ok"
     /\ w.tier \in {"any", TierOf[k]}
     /\ w.kind.run # "decision" /\ _model_pool(w) # <<>> =>
          ~(Ran(_model_pool(w)) \subseteq cool[k])}

(* The pick's ORDER BY, for a saturation verdict and the key pin.          *)
Rank(k, sat, aff) ==
  (IF k \in Reserved THEN 8 ELSE 0) + (IF k \in sat THEN 4 ELSE 0)
    + (IF k \in hung THEN 2 ELSE 0) + (IF k = aff THEN 0 ELSE 1)

Best(S, sat, aff) == {k \in S : \A j \in S : Rank(k, sat, aff) <= Rank(j, sat, aff)}

(* The keys the pick may return; rows that another transaction holds are   *)
(* skipped, except by the picks that name their key.                       *)
pick_and_reserve(w) ==
  LET step == w.steps[w.at]
      avail == Available(w)
      Pins == {a \in KeysOf(step.prov) : a \notin hung} \cup {None}
      ordinary == {k \in avail : \E held, sat \in SUBSET avail, aff \in Pins :
                                   k \in Best(avail \ held, sat, aff)}
  IN  IF w.tier # "paid" /\ providers_in_timeout_storm(step.prov) THEN {None}
      ELSE IF step.key # None THEN {IF step.key \in avail THEN step.key ELSE None}
      ELSE IF step.prov \in Sticky /\ w.tier # "free" THEN ordinary \cup avail \cup {None}
      ELSE ordinary \cup {None}

(* should_stop, polled by a chat walk before every attempt.                *)
Stopped_once(w) == w.kind.run = "chat" /\ stop /\ w.tries = 0
Stopped(w) == w.kind.run = "chat" /\ stop

Spent(w) == w.kind.run = "chat" /\ w.tries >= _attempt_budget(w.steps)

(* The checks before an attempt, then the pick. An affine leg before a     *)
(* free head gives a paid key back. The finish-by gate may close at any    *)
(* attempt.                                                                *)
Pick ==
  /\ walk.phase = "pick"
  /\ LET w == walk
         step == w.steps[w.at]
     IN  \/ Stopped(w) /\ walk' = End(w, "cancelled")
         \/ ~Stopped(w) /\ Spent(w) /\ walk' = End(w, "none")
         \/ /\ w.kind.run \in {"chat", "transcribe"} /\ ~Stopped(w)
            /\ walk' = End([w EXCEPT !.cut = TRUE],
                           IF w.kind.run = "chat" THEN "none" ELSE "failed")
         \/ /\ ~Stopped(w) /\ ~Spent(w)
            /\ \E k \in pick_and_reserve(w) :
                 walk' = IF k = None THEN NextStep(w)
                         ELSE IF step.frugal /\ TierOf[k] # "free" THEN NextStep(w)
                         ELSE [w EXCEPT !.phase = "start", !.key = k, !.tries = w.tries + 1,
                                        !.seen = TRUE, !.excused = FALSE]
  /\ UNCHANGED <<shared, moves>>

-----------------------------------------------------------------------------
(* One attempt (run_attempt)                                               *)

(* pool[start], advanced past the models cooling down on the key. The      *)
(* offset comes from the id of the provider's first key, whatever it is.   *)
_rotate_model(pool, k, start) ==
  LET open == {i \in 0 .. Len(pool) - 1 : pool[((start + i) % Len(pool)) + 1] \notin cool[k]}
      first == CHOOSE i \in open : \A j \in open : i <= j
  IN  IF Len(pool) < 2 \/ open = {} THEN pool[start + 1]
      ELSE pool[((start + first) % Len(pool)) + 1]

(* A free key reserves nothing and is never refused, except where its      *)
(* provider bills the call all the same.                                   *)
Refusable(w) == TierOf[w.key] # "free" \/ ProvOf[w.key] \in Invoiced

(* _block_on_cap and what the runner makes of its verdict.                 *)
Blocked(w, scope) ==
  LET o == [w EXCEPT !.other = TRUE, !.capped = w.capped \/ scope = "project"]
  IN  IF w.kind.run # "chat"
      THEN IF scope = "project" THEN End(o, "failed") ELSE NextKey(o)
      ELSE IF scope = "key" THEN NextStep(o)
      ELSE IF w.kind.paid \/ w.steps[w.at].tier # "any" THEN End(o, "exhausted")
      ELSE IF w.tier # "free" THEN NextKey([o EXCEPT !.tier = "free", !.degraded = TRUE])
      ELSE NextStep(o)

(* A decision whose primary model was refused asks the free model on the   *)
(* key it holds before it goes on.                                         *)
OrFallback(w, next) ==
  IF w.kind.run = "decision" /\ ~w.kind.pin
  THEN [w EXCEPT !.phase = "fallback", !.capped = next.capped]
  ELSE next

(* A lookup of the cooling models that fails leaves the rotation blind.    *)
Start ==
  /\ walk.phase = "start"
  /\ LET w == walk
         pool == _model_pool(w)
     IN  IF pool = <<>> THEN walk' = NextStep(w)
         ELSE \E b \in IF w.base = 0 THEN 1 .. Len(pool) ELSE {w.base}, blind \in BOOLEAN :
                LET start == (b + w.n) % Len(pool)
                    m == IF blind THEN pool[start + 1] ELSE _rotate_model(pool, w.key, start)
                    go == [w EXCEPT !.base = b, !.model = m, !.excused = @ \/ blind]
                IN  \/ walk' = [go EXCEPT !.phase = "call",
                                          !.late = IF stop /\ @ < 2 THEN @ + 1 ELSE @]
                    \/ \E scope \in {"key", "project"} :
                         Refusable(w) /\ walk' = OrFallback(go, Blocked(go, scope))
  /\ UNCHANGED <<shared, moves>>

mark_cooldown(k) == [health EXCEPT ![k] = IF @ = "dead" THEN "dead" ELSE "parked"]
mark_model_cooldown(k, m) == [cool EXCEPT ![k] = @ \cup {m}]

(* What an error does to the key. A quota metered per model parks the pair *)
(* only.                                                                   *)
_penalize(k, m, e) ==
  /\ hung' = IF e = "timeout" THEN hung \cup {k} ELSE hung
  /\ cool' = IF e = "quota" /\ ProvOf[k] \in Metered THEN mark_model_cooldown(k, m) ELSE cool
  /\ health' = CASE e = "auth" -> [health EXCEPT ![k] = "dead"]
                 [] e \in {"timeout", "throttle", "tokens"} -> mark_cooldown(k)
                 [] e = "quota" /\ ProvOf[k] \notin Metered -> mark_cooldown(k)
                 [] OTHER -> health

(* is_too_large_error: the provider is skipped for prompts of this size.   *)
TooLarge(e) == e \in {"large", "tokens"}

(* _handle_call_error: a model that is gone costs the key nothing.         *)
CallError ==
  /\ walk.phase = "call"
  /\ \E e \in {"timeout", "throttle", "quota", "tokens", "auth", "gone", "large", "error"} :
       LET w == [walk EXCEPT !.other = TRUE]
           leave == NextStep(w)
           on == NextKey(w)
           teach == TooLarge(e) /\ w.kind.run = "chat"
       IN  /\ IF e = "gone" THEN UNCHANGED <<health, cool, hung>> ELSE _penalize(w.key, w.model, e)
           /\ learned' = IF teach THEN learned \cup {ProvOf[w.key]} ELSE learned
           /\ walk' = OrFallback(w, IF w.kind.run = "decision" THEN on
                                    ELSE IF e = "gone" \/ teach THEN leave ELSE on)
  /\ UNCHANGED <<route, stop, moves>>

Hollow_nextKey(w) == NextKey([w EXCEPT !.bad = @ \cup {<<ProvOf[w.key], w.model>>}])
Hollow(w) == NextStep([w EXCEPT !.bad = @ \cup {<<ProvOf[w.key], w.model>>}])

(* The chat gate: a broken tool call, an empty body of a provider that     *)
(* never means it, an empty or malformed answer to a JSON request is       *)
(* booked and the walk leaves the provider.                                *)
Reject ==
  /\ walk.phase = "call" /\ walk.kind.run = "chat"
  /\ \/ /\ walk.kind.tools
        /\ walk' = NextStep([walk EXCEPT !.other = TRUE])
     \/ /\ walk.kind.json \/ ProvOf[walk.key] \in EmptyFails
        /\ walk' = Hollow(walk)
  /\ UNCHANGED <<shared, moves>>

(* record_usage wipes the key's cooldown; note_success pins the target.    *)
Recover(k) == [health EXCEPT ![k] = IF @ = "parked" THEN "ok" ELSE @]

Succeed ==
  /\ walk.phase = "call"
  /\ health' = Recover(walk.key)
  /\ route' = IF walk.kind.run = "chat"
              THEN [key |-> walk.key, model |-> walk.model] ELSE route
  /\ walk' = End(walk, "answer")
  /\ UNCHANGED <<cool, hung, learned, stop, moves>>

(* The free decision model on the same key: nothing reserved, nothing      *)
(* penalised. Its success wipes the key's cooldown too.                    *)
Fallback ==
  /\ walk.phase = "fallback"
  /\ \/ /\ health' = Recover(walk.key)
        /\ walk' = End(walk, "answer")
     \/ /\ walk' = IF walk.capped THEN End(walk, "failed") ELSE NextKey(walk)
        /\ UNCHANGED health
  /\ UNCHANGED <<cool, hung, learned, route, stop, moves>>

-----------------------------------------------------------------------------
(* Everyone else                                                           *)

Touch(k) == walk' = [walk EXCEPT !.excused = @ \/ walk.key = k]

(* Other requests' attempts.                                               *)
OtherError ==
  \E k \in Key, e \in {"timeout", "throttle", "quota", "auth"} : \E m \in ModelsOf(ProvOf[k]) :
    /\ _penalize(k, m, e) /\ Touch(k)
    /\ <<health, cool, hung>>' # <<health, cool, hung>>
    /\ UNCHANGED <<learned, route, stop>>

(* The monitor or the operator brings a dead key back.                     *)
Revive ==
  \E k \in Key : /\ health[k] = "dead" /\ health' = [health EXCEPT ![k] = "ok"]
                 /\ UNCHANGED <<cool, hung, learned, route, stop, walk>>

(* Cooldowns and the breaker's memory end with time, a cooldown of a key   *)
(* also with another request's success on it.                              *)
Expire ==
  \/ \E k \in Key : /\ health[k] = "parked" /\ health' = Recover(k)
                    /\ UNCHANGED <<cool, hung>>
  \/ \E k \in Key : \E m \in cool[k] : /\ cool' = [cool EXCEPT ![k] = @ \ {m}]
                                       /\ UNCHANGED <<health, hung>>
  \/ \E k \in hung : hung' = hung \ {k} /\ UNCHANGED <<health, cool>>

Cancel == ~stop /\ stop' = TRUE /\ UNCHANGED <<health, cool, hung, learned, route, walk>>

Others ==
  /\ moves < Meddle /\ walk.phase # "done"
  /\ moves' = moves + 1
  /\ \/ OtherError \/ Revive
     \/ Expire /\ UNCHANGED <<learned, route, stop, walk>>
     \/ Cancel

Next == Begin \/ Pick \/ Start \/ CallError \/ Reject \/ Succeed \/ Fallback \/ Others

Spec == Init /\ [][Next]_vars

-----------------------------------------------------------------------------
(* Properties                                                              *)

(* A pinned request is answered by the pinned model and no other, whatever *)
(* the rotation and the route pins hold.                                   *)
PinnedModelOnly ==
  walk.phase = "call" /\ walk.kind.run = "chat" /\ walk.kind.pin =>
    walk.model = PinOf[ProvOf[walk.key]]

(* Once a project or global cap refused an unpinned walk, the rest of it   *)
(* calls free keys only, the steps after the refused one included.         *)
NoPaidAfterCapped ==
  walk.phase = "call" /\ walk.kind.run = "chat" /\ ~walk.kind.pin /\ walk.capped =>
    TierOf[walk.key] = "free"

(* Free first: while a free provider heads the walk, the affine leg never  *)
(* calls a paid key; a free-walk capability calls no paid provider before  *)
(* its final retry.                                                        *)
FreeFirst ==
  walk.phase = "call" /\ walk.kind.run = "chat" /\ ~walk.kind.paid =>
    /\ walk.at = 1 /\ walk.steps[1].key # None /\ walk.steps[2].prov \notin Paid =>
         TierOf[walk.key] = "free"
    /\ walk.kind.free /\ ~walk.kind.pin => ProvOf[walk.key] \notin Paid

(* A parked key, a dead key or a model parked on the key is called only if *)
(* it was parked after this walk had chosen it, or the lookup failed.      *)
ParkedNotCalled ==
  walk.phase = "call" /\ ~walk.excused =>
    /\ health[walk.key] = "ok"
    /\ walk.kind.run # "decision" => walk.model \notin cool[walk.key]

(* A chat walk that gives up for want of capacity has visited every step:  *)
(* the attempt cap never hides the tail of the chain.                      *)
EveryStepTaken ==
  walk.phase = "done" /\ walk.kind.run = "chat" /\ walk.result \in {"none", "content"}
    /\ ~walk.cut => walk.steps = <<>> \/ walk.at > Len(walk.steps)

(* A cancelled chat job starts at most the one call whose key was chosen   *)
(* before the cancel.                                                      *)
CancelCostsOneAttempt == walk.kind.run = "chat" => walk.late <= 1

(* Without a pin, a (provider, model) that answered the prompt with an     *)
(* empty or malformed body is asked again by the same walk only when the   *)
(* first answer came from the affine leg.                                  *)
ContentRetriedOnce ==
  walk.phase = "call" /\ ~walk.kind.pin /\ <<ProvOf[walk.key], walk.model>> \in walk.bad =>
    walk.steps[1].key # None /\ ProvOf[walk.steps[1].key] = ProvOf[walk.key]
=============================================================================
