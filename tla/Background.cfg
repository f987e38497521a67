\* The key monitor and the comparison, each on its own small instance.
SPECIFICATION SpecAll
CONSTANTS
  Caller = {c1, c2}
  Followed = {c1}
  Browser = {b1, b2}
  Ip = {i1}
  NoIp = noip
  Model = {m1}
  MaxFaults = 1
  Kind <- Kinds
  EveryN = 2
  MaxCooldown = 1
  Hour = 2
  Day = 2
  Month = 3
  MaxMoves = 2
  MaxCalls = 1
INVARIANTS OneActivePerCaller
PROPERTIES SweepRespects  ComparisonCloses
CHECK_DEADLOCK FALSE
