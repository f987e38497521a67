\* Every run is closed, every process follows the access table, every outage is told.
SPECIFICATION SpecAll
CONSTANTS
  r1 = r1
  s1 = s1
  s2 = s2
  c1 = c1
  w1 = w1
  owner = owner
  nobody = nobody
  NoRun = NoRun
  Run <- OneRun
  Interactive <- OneRun
  Resume = {}
  Codex = {}
  Slot <- TwoSlots
  Reserve = 0
  Client <- OneClient
  Sweeper <- OneSweeper
  MaxBusy = 0
  MaxWaits = 1
  MaxSeq = 2
  MaxDeaths = 1
PROPERTIES EventuallyClosed LoopsDeliver
CHECK_DEADLOCK FALSE
