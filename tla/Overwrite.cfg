SPECIFICATION MCDialogSpec
CONSTANTS
  Events = {e1, e2}
  Turns = {u1, u2, u3}
  e1 = e1
  e2 = e2
  u1 = u1
  u2 = u2
  u3 = u3
  None = None
  TurnsOf <- MCTurnsOf
  First <- MCFirst
  MaxScore = 2
  Unit = 4
  PoolSize = 2
  K = 3
  Seeds = 1
  TopK = 2
  WeightBase = 1
  WeightRerank = 3
  SignalWeight = 1
  MaxHits = 3
  TurnCount = 3
  Speaker <- MCSpeaker
  Given <- MCGiven
  Now = 5
  Blank = {}
  Markings <- MCMarkings
  SegmentTurns = 2
  SupportLimit = 1
  Absent = Absent
  MaxEvents = 2
  MaxFacts = 1
  MaxCalls = 2
  MaxFaults = 1
  ann = ann
  bob = bob
  Values = {v1, v2}
  v1 = v1
  NoValue = none
  MaxTime = 3
  MaxNodes = 3
  Reviewers = {r}
  BatchSize = 2
  Callers = {c1, c2}
  Questions <- MCQuestions
  Properties <- MCProperties
  Property = job
  Texts <- MCTexts
  Norm <- MCNorm
  Aliases <- MCAliases
  Near <- MCNear
  Files <- MCFiles
  job = job
  relationship = relationship
  mood = mood
  status = status
  feeling = feeling
  JobStatus = JobStatus
  word = word
  VocabLimit = 2
  Nothing = nothing
  MaxAsks = 3
  MaxDeploys = 2
INVARIANTS
  FactsAreTraceable
CHECK_DEADLOCK FALSE
