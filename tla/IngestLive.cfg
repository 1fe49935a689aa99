SPECIFICATION LiveSpec
CONSTANTS
  c1 = c1
  t1 = t1
  s1 = s1
  c2 = c2
  Commits = {c1}
  Tenants = {t1}
  Sessions = {s1}
  Tenant <- OneTenant
  Session <- OneSession
  MaxGen = 1
  Backend = "sqlite"
  Pods = {p1}
  InitiallyUp = {p1}
  WorkerCount = 2
  QueueMax = 0
  GlobalLimit = 1
  TenantLimit = 1
  MaxRetries = 1
  Stage2Modes = {"llm"}
  TimeoutPoints = {"extract", "session"}
  Handlers = {h1}
  Texts = {TRUE}
  MaxRequests = 3
  MaxStarts = 1
  MaxTimeouts = 2
  MaxFaults = 0
  MaxClears = 0
  Calls = {u1, u2}
  Batch = 2
  MaxRuns = 2
  MaxErrors = 2
  MaxRestarts = 1
CHECK_DEADLOCK FALSE
PROPERTIES
  AcceptedSettles
  StopCompletes
  ImplementsOutbox
  UsageArrives
