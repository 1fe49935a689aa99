SPECIFICATION SearchSpec
CONSTANTS
  p1 = p1
  p2 = p2
  Points = {p1, p2}
  Place <- TwoPlaces
  Unset = Unset
  SearchRequests <- Alternatives
  Searchers = {f1}
  Blends = {w1}
  Boosts = {b1}
  TTL = 1
  CacheMax = 1
  Attempts = 2
  FailLimit = 2
  OpenFor = 1
  Horizon = 1
  MaxMoves = 2
  MaxFailures = 1
  MaxSearches = 2
INVARIANTS
  BothDimensions
CHECK_DEADLOCK FALSE
