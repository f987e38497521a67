\* The guards of a call to a provider, each on its own small instance.
SPECIFICATION SpecAll
CONSTANTS
  s1 = s1
  s2 = s2
  k1 = k1
  k2 = k2
  NoKey = NoKey
  Slot <- TwoSlots
  Key <- TwoKeys
  Plans <- FourPlans
  Provider = {"p"}
  Scope = {"audio", "vision"}
  ProviderOf <- OneProvider
  TimeoutMemory = 2
  EmptyMemory = 3
  MinKeys = 2
  Calls = {1, 2, 3}
  QueueWait = 2
  HttpTimeout = 2
  Margin = 1
  MaxCalls = 4
SYMMETRY SymmetricAll
INVARIANTS ZeroCapSpendsNothing CountersAnswer GuardsExact
CHECK_DEADLOCK FALSE
