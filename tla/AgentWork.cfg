\* An agent run, its access, its account and its files, each on its own small instance.
SPECIFICATION SpecAll
CONSTANTS
  r1 = r1
  s1 = s1
  s2 = s2
  s3 = s3
  c1 = c1
  w1 = w1
  AccessAccount = {owner}
  Owner = owner
  NoAccounts = nobody
  MaxSaves = 2
  MaxFaults = 1
  PickAccount = {"a", "b", "x"}
  Policies <- FourPolicies
  OutOfPick = {"x"}
  Submitter = {1}
  Day = 2
  Week = 2
  Lookback = 5
  DownPause = 1
  MaxRuns = 1
  MaxEvents = 2
  MaxTime = 6
  Gen = {1, 2}
  Out = {3, 4}
  CopyBase = 100
  Content = {1, 2}
  MaxSize = 2
  FileMax = 2
  FilesTotal = 2
  FilesMax = 2
  ImageMax = 2
  ImageTotal = 3
  ImageCount = 2
  MaxWrites = 1
  Model = {"m1", "m2", "m3"}
  Cap = 2
  MaxSeen = 4
  NoRun = NoRun
  Run <- OneRun
  Interactive = {}
  Resume <- OneRun
  Codex <- OneRun
  Slot <- ThreeSlots
  Reserve = 1
  Client <- OneClient
  Sweeper <- OneSweeper
  MaxBusy = 1
  MaxWaits = 1
  MaxSeq = 3
  MaxDeaths = 1
SYMMETRY SymmetricAll
INVARIANTS LogSound SoleDriver NeverRerun OneLateStart ReserveKept AccountCanServe
  ReportTrue
PROPERTIES NothingAfterClose AccessJustified
CHECK_DEADLOCK FALSE
