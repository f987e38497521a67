\* What a request meets in the HTTP processes, each on its own small instance.
SPECIFICATION SpecAll
CONSTANTS
  r1 = r1
  r2 = r2
  p1 = p1
  p2 = p2
  a1 = a1
  a2 = a2
  k1 = k1
  None = None
  NoCap = NoCap
  Request <- TwoRequests
  Lane <- AllLanes
  Payload <- TwoPayloads
  Key <- OneKey
  Account <- TwoAccounts
  Cap = {1, 2}
  Worker = {r1, r2}
  Tab = {p1, p2}
  Name = {slug, other}
  Slug = slug
  Ip = {ip}
  PerDay = 1
  PerIp = 1
  SignupCap = 1
  NameRetries = 2
  MaxId = 3
  MaxForms = 2
  MaxTokens = 2
  Project = {1, 2}
  Message = {1, 2}
  Format = {"text", "json"}
  Capability <- TranslateAndChat
  Cacheable = {"translate"}
  CacheTTL <- OneTick
  MaxEntries = 2
  MaxCacheAge = 2
  MaxCalls = 2
  Call = {p1, p2}
  PinTTL = 2
  SatTTL = 2
  RetryS = 2
  Slow = 1
  MaxRoutingAge = 6
  MaxFaults = 1
SYMMETRY SymmetricAll
INVARIANTS  ProjectsSound
PROPERTIES FormsKeep MemoryTrue
CHECK_DEADLOCK FALSE
