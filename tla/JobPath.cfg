\* A job from its claim to its last poll, each component on its own small instance.
SPECIFICATION SpecAll
CONSTANTS
  j1 = j1
  w1 = w1
  w2 = w2
  None = None
  Nobody = Nobody
  Job <- OneJob
  Transcription = {}
  Worker <- TwoWorkers
  MaxRetries = 1
  MaxContentRetries = 0
  StaleRunning = 4
  WalkBudget <- WalkOfTwo
  CallTimeout <- CallOfOne
  StartSlack = 1
  AttemptSlack = 1
  AttemptCap = 2
  MaxConcurrency = 2
  MaxClaims = 5
  MaxRestarts = 2
  Due = {1, 2}
  Slots = 1
  MaxFaults = 2
  MaxId = 4
  Agent = {2}
  Labelled = {2, 4}
  Readable = {2}
  AgentOpen = TRUE
  Limit = 1
  MaxSeq = 3
  FileJob = {1}
  TTL = 2
  Retention = 3
  Slow = 1
  MaxTime = 6
  Provider = {"saver", "mixed"}
  Chain <- SaverMixed
  Key = {"s1", "m1", "m2"}
  ProvOf <- ThreeKeys
  TierOf <- OneFree
  Reserved = {"m2"}
  Pool <- Models
  PinOf <- Pinned
  MaxKeys <- KeysTried
  MaxAttempts = 7
  Paid = {"saver"}
  Sticky = {"saver"}
  Metered = {"mixed"}
  Invoiced = {"mixed"}
  Incapable = {}
  Unreliable = {"saver"}
  ToolCapable = {"mixed"}
  EmptyFails = {"mixed"}
  Saver = "saver"
  Kinds <- Requests
  Meddle = 1
SYMMETRY SymmetricWorkers
INVARIANTS SoleExecution ExecutionBudget CancelBudget DispatchSound WalkSound 
PROPERTIES TerminalStable ImplementsLifecycle
CHECK_DEADLOCK FALSE
