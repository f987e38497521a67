\* Expected violation: a cancel races the claim of a queued run whose session is busy.
SPECIFICATION Spec
CONSTANTS
  r1 = r1
  s1 = s1
  s2 = s2
  c1 = c1
  NoRun = NoRun
  Run <- OneRun
  Interactive = {}
  Resume <- OneRun
  Codex <- OneRun
  Slot <- TwoSlots
  Reserve = 0
  Client <- OneClient
  Sweeper = {}
  MaxBusy = 1
  MaxWaits = 1
  MaxSeq = 3
  MaxDeaths = 0
INVARIANTS ClosedLeavesQueue
CHECK_DEADLOCK FALSE
