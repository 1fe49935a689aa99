SPECIFICATION Spec
CONSTANTS
  c1 = c1
  c2 = c2
  t1 = t1
  s1 = s1
  Commits = {c1}
  Tenants = {t1}
  Sessions = {s1}
  Tenant <- OneTenant
  Session <- OneSession
  MaxGen = 2
  Backend = "pg"
  Pods = {p1, p2}
  InitiallyUp = {p1, p2}
  WorkerCount = 1
  QueueMax = 1
  GlobalLimit = 1
  TenantLimit = 1
  MaxRetries = 1
  Stage2Modes = {"off"}
  TimeoutPoints = {"stage2", "stage3", "session", "complete", "fail3"}
  Handlers = {h1}
  Texts = {TRUE, FALSE}
  MaxRequests = 2
  MaxStarts = 0
  MaxTimeouts = 1
  MaxFaults = 1
  MaxClears = 1
CHECK_DEADLOCK FALSE
INVARIANTS
  SingleRunner
PROPERTIES
  DeletedStaysDeleted
