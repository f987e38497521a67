----------------------------- MODULE MCCallPath -----------------------------
(***************************************************************************)
(* What guards a call to a provider: the cost guard, on four plans, the    *)
(* circuit breakers and the queue of the local vision model.  They share   *)
(* no state, so a behaviour is about one of them, the one `which' names;   *)
(* the variables of the others stay 0, those of the cost guard in their    *)
(* initial state.                                                          *)
(***************************************************************************)
EXTENDS CostGuard, TLC

CONSTANTS
  s1, s2, k1, k2,
  Provider, Scope, ProviderOf, TimeoutMemory, EmptyMemory, MinKeys,   \* of Circuit
  Calls, QueueWait, HttpTimeout, Margin, MaxCalls                     \* of LocalVision

\* Every key has a provider, and empty bodies are remembered for longer
\* (_TIMEOUT_MEMORY_S = 120, _EMPTY_MEMORY_S = 600).
CircuitLimits ==
  /\ TimeoutMemory \in Nat /\ EmptyMemory \in Nat /\ TimeoutMemory <= EmptyMemory
  /\ ProviderOf \in [Key -> Provider]
ASSUME CircuitAssumption == CircuitLimits

\* The timeouts of the local model are numbers.
VisionLimits ==
  IsFiniteSet(Calls) /\ QueueWait \in Nat /\ HttpTimeout \in Nat /\ Margin \in Nat
ASSUME VisionAssumption == VisionLimits

TwoSlots == {s1, s2}
TwoKeys == {k1, k2}
OneProvider == [k \in Key |-> "p"]

\* A project whose monthly cap is 0, a global cap, and a paid key with a daily cap
\* beside a trial key.
ZeroPlan ==
  [keys |-> {k1, k2}, tier |-> (k1 :> "paid" @@ k2 :> "trial"),
   win |-> (k1 :> {"daily"} @@ k2 :> {}),
   cap |-> [k \in Key |-> [daily |-> 2, monthly |-> 3]],
   projWin |-> {"monthly"}, projCap |-> [daily |-> 0, monthly |-> 0], globalCap |-> 1,
   attempts |-> 1, maxCost |-> 1, maxDay |-> 2]

\* One paid key.
OneKey ==
  [ZeroPlan EXCEPT !.keys = {k1}, !.projWin = {"daily"}, !.globalCap = 0, !.attempts = 2]

\* Both windows of the key are capped and a day or a month ends; a cap the estimates
\* of the attempts reach together; a cap above the project's.
Windows ==
  [OneKey EXCEPT !.win[k1] = Window, !.cap[k1] = [daily |-> 1, monthly |-> 2],
                 !.projCap = [daily |-> 2, monthly |-> 2]]
Tight ==
  [OneKey EXCEPT !.cap[k1] = [daily |-> 2, monthly |-> 2],
                 !.projCap = [daily |-> 4, monthly |-> 4], !.maxCost = 2, !.maxDay = 1]
Wide ==
  [OneKey EXCEPT !.cap[k1] = [daily |-> 3, monthly |-> 3],
                 !.projCap = [daily |-> 2, monthly |-> 2], !.maxCost = 2, !.maxDay = 1]

FourPlans == {ZeroPlan, Windows, Tight, Wide}

VARIABLES
  which,   \* the component this behaviour is about
  timeouts, storms, empties, happened, answer,
  free, line, call, begun

Circ == INSTANCE Circuit

Vision == INSTANCE LocalVision

circuitVars == <<timeouts, storms, empties, happened, answer>>
visionVars == <<free, line, call, begun>>

allVars == <<which, vars, circuitVars, visionVars>>

InitAll ==
  /\ which \in {"cost", "circuit", "vision"}
  /\ Init /\ (which # "cost" => plan = CHOOSE p \in Plans : TRUE)
  /\ IF which = "circuit" THEN Circ!Init
     ELSE timeouts = 0 /\ storms = 0 /\ empties = 0 /\ happened = 0 /\ answer = 0
  /\ IF which = "vision" THEN Vision!Init
     ELSE free = 0 /\ line = 0 /\ call = 0 /\ begun = 0

Guarding == which = "cost" /\ Next /\ UNCHANGED <<which, circuitVars, visionVars>>
Counting == which = "circuit" /\ Circ!Next /\ UNCHANGED <<which, vars, visionVars>>
Seeing == which = "vision" /\ Vision!Next /\ UNCHANGED <<which, vars, circuitVars>>

NextAll == Guarding \/ Counting \/ Seeing

SpecAll == InitAll /\ [][NextAll]_allVars

SymmetricAll == Permutations(Slot)
-----------------------------------------------------------------------------
\* The counters answer for the money (routing/cost_guard.py, services/attempt.py):
\* they miss nothing, invent nothing, and let the caps be overshot by a bounded
\* amount only.
CountersAnswer ==
  TypeOK /\ NothingMissed /\ NothingInvented /\ KeyOvershoot /\ ProjectOvershoot

\* The guards in front of a provider are exact. A provider is out of the chain for a
\* storm exactly when enough of its keys failed within the memory in that scope, and
\* a key counts as hung exactly while its latest timeout is within it
\* (routing/circuit.py). The local model's slot is never shared and never lost,
\* whatever step each call was cancelled, cut or timed out in, and the attempt's
\* ceiling cuts no call whose image was scaled in time (providers/local_vision.py).
GuardsExact ==
  /\ which = "circuit" => Circ!GuardsExact
  /\ which = "vision" => Vision!GuardsExact
=============================================================================
