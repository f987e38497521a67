\* Two executions of one run compete for the session.
SPECIFICATION FairSpec
CONSTANTS
  e1 = e1
  e2 = e2
  r1 = r1
  NoExec = NoExec
  Exec <- TwoExecs
  RunId <- OneRun
  RunOf <- SameRun
  Ttl = 3
  Beat = 1
  Delay = 1
  React = 1
  WriteTime = 1
  StopTime = 0
INVARIANTS  CliStopsInTime
PROPERTIES SessionFreed
