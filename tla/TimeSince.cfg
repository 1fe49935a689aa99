SPECIFICATION MCQuerySpec
CONSTANTS
  Tenants = {t1, t2}
  Rate = 2
  Whole = 3
  Burst = 2
  Queries = {q1, q2, q3}
  Threshold = 2
  Cooldown = 2
  Clears = {k1, k2}
  Entries = {e1, e2}
  Nobody = Nobody
  MaxTime = 5
  MaxCalls = 6
  MaxFaults = 2
  Events = {m1, m2, m3}
  Entities = {ann, bob, cy}
  Topics = {work, trip}
  Names = {n1, n2}
  Involves <- MCInvolves
  Speakers <- MCSpeakers
  TopicOf <- MCTopicOf
  Importance <- MCImportance
  NamedBy <- MCNamedBy
  Keyed = {m1, m3}
  Unfiled = {trip}
  MaxDate = 2
  EventLimit = 3
  QuoteLimit = 1
  PageSize = 1
  EntityLimit = 3
  MaxPages = 3
  Nothing = Nothing
  MaxChanges = 2
  m1 = m1
  m2 = m2
  m3 = m3
  ann = ann
  bob = bob
  cy = cy
  work = work
  trip = trip
  n1 = n1
  n2 = n2
  p1 = p1
  p2 = p2
  Points = {p1, p2}
  Place <- TwoPlaces
  Unset = Unset
  SearchRequests <- Asks
  Searchers = {f1, f2}
  Blends = {w1, w2}
  Boosts = {b1, b2}
  TTL = 1
  CacheMax = 1
  Attempts = 2
  FailLimit = 2
  OpenFor = 1
  Horizon = 2
  MaxMoves = 2
  MaxFailures = 2
  MaxSearches = 2
CHECK_DEADLOCK FALSE
INVARIANTS
  LastMentionIsLast
