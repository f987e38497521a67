\* Expected violation: reserve_cost fails after its debit.
SPECIFICATION Spec
CONSTANTS
  s1 = s1
  s2 = s2
  k1 = k1
  NoKey = NoKey
  Slot <- TwoSlots
  Key <- OneKey
  Plans <- BothCaps
INVARIANTS EveryPathReleases
CHECK_DEADLOCK FALSE
