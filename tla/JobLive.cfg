\* Every job is settled, and the dispatcher sleeps through none.
SPECIFICATION SpecAll
CONSTANTS
  j1 = j1
  j2 = j2
  w1 = w1
  Nobody = Nobody
  Job <- TwoJobs
  Transcription <- SecondJob
  Worker <- OneWorker
  MaxRetries = 1
  MaxContentRetries = 0
  StaleRunning = 2
  WalkBudget <- WalkOfTwo
  CallTimeout <- CallOfOne
  StartSlack = 0
  AttemptSlack = 0
  AttemptCap = 1
  MaxConcurrency = 1
  MaxClaims = 3
  MaxRestarts = 1
  MaxFaults = 2
PROPERTIES EveryJobServed
CHECK_DEADLOCK FALSE
