SPECIFICATION MCSpec
CONSTANTS
  x = x
  y = y
  a = a
  b = b
  NoText = NoText
  NoNode = NoNode
  Ids = {x, y}
  Slugs = {y}
  Texts = {a, b}
  Drafts <- FewDrafts
  MaxBatch = 2
  Callers = {c1, c2}
  MaxCalls = 3
  MaxFaults = 1
  MaxRestarts = 1
  e1 = e1 e2 = e2 e3 = e3 s1 = s1 s2 = s2 evd = evd utt = utt mia = mia leo = leo
  home = home fact = fact day = day None = None
  Events = {e1, e2, e3} Segments = {s1, s2} Evidences = {evd} Utterances = {utt}
  Entities = {mia, leo} Locations = {home} Facts = {fact} Spans = {day}
  Told <- MCTold Rank <- MCRank Fixed <- MCFixed
  Times = {0, 1, 2} Widths = {1} RowLimit = 4 PageLimit = 3 TtlDays = 30 MaxOps = 4
SYMMETRY CallerSymmetry
CHECK_DEADLOCK FALSE
INVARIANTS
  EntriesAreKept
  LinksKeepTime
  CoveredBeginInside
  ExportMissesOnlyCut
  ReadsAgree
PROPERTIES
  RollbackRestores
