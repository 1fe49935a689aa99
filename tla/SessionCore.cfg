SPECIFICATION Spec
CONSTANTS
  Calls = {a, b, c}
  Nobody = nobody
  MaxFacts = 2
  MaxEvents = 1
  Exclusive = TRUE
  MaxFaults = 1
  MaxSilent = 1
  MaxCuts = 1
  MaxRestarts = 1
  MaxClears = 1
SYMMETRY CallSymmetry
CHECK_DEADLOCK FALSE
INVARIANTS
  CompletedIsBacked
  SessionIsCurrent
  OverwriteKeepsData
PROPERTIES
  OkIsVisible
