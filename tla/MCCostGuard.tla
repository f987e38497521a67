----------------------------- MODULE MCCostGuard -----------------------------
(* An instance of CostGuard for TLC: a paid key with both caps.            *)
EXTENDS CostGuard

CONSTANTS s1, s2, k1

TwoSlots == {s1, s2}
OneKey == {k1}
BothCaps ==
  {[keys |-> Key, tier |-> [k \in Key |-> "paid"], win |-> [k \in Key |-> Window],
    cap |-> [k \in Key |-> [daily |-> 2, monthly |-> 3]],
    projWin |-> {"daily"}, projCap |-> [daily |-> 2, monthly |-> 2], globalCap |-> 0,
    attempts |-> 2, maxCost |-> 1, maxDay |-> 2]}
=============================================================================
