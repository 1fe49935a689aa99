SPECIFICATION Spec
CONSTANTS
  c1 = c1
  t1 = t1
  s1 = s1
  c2 = c2
  Commits = {c1, c2}
  Tenants = {t1}
  Sessions = {s1}
  Tenant <- OneTenant
  Session <- OneSession
  MaxGen = 2
  Backend = "sqlite"
  Pods = {p1}
  InitiallyUp = {p1}
  WorkerCount = 2
  QueueMax = 0
  GlobalLimit = 2
  TenantLimit = 2
  MaxRetries = 1
  Stage2Modes = {"llm", "missing"}
  TimeoutPoints = {"extract", "session"}
  Handlers = {h1}
  Texts = {TRUE}
  MaxRequests = 2
  MaxStarts = 1
  MaxTimeouts = 1
  MaxFaults = 1
  MaxClears = 0
SYMMETRY CommitSymmetry
CHECK_DEADLOCK FALSE
INVARIANTS
  CommitRunsOnce
  AcceptedIsAttended
PROPERTIES
  CompletedIsFinal
  ImplementsCommits
