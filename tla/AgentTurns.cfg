\* The parts of an agent run beside its row, each on its own small instance.
SPECIFICATION SpecAll
CONSTANTS
  Run = {1, 2}
  DueAfter = 1
  ProofWindow = 2
  ProofMaxAge = 2
  Interval = 3
  StartUp = 1
  BusyMax = 1
  MaxTime = 5
  MAX_CALLS = 2
  ArgRetries = 1
  Reminders = 1
  MaxWaits = 1
  MaxId = 3
  MaxLines = 2
  WakeRun = {1, 2}
  Concurrency = 1
  MaxFaults = 2
INVARIANTS   CliSound NudgeHeard
PROPERTIES ToolSteps WaitsEnd
CHECK_DEADLOCK FALSE
