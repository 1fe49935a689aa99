SPECIFICATION MCSpec
CONSTANTS
  Pods = {p1, p2}
  Sources = {s1, s2}
  Events = {e1, e2, e3}
  s1 = s1
  s2 = s2
  e1 = e1
  e2 = e2
  e3 = e3
  None = None
  About <- Overlapping
  Stamps = {0, 1}
  Minor = {e3}
  Slight <- Dropped
  Threshold = 2
  MaxCalls = 3
  MaxFaults = 2
  Values = {first, second}
  first = first
  NoValue = none
  MaxTime = 3
  MaxNodes = 3
  Reviewers = {r}
  BatchSize = 2
INVARIANTS
  PurgeCanResume
  UpsertIsWhole
  ExplanationsAgree
  TimelineOK
  NoUpdateLost
PROPERTIES
  HistoryIsKept
CHECK_DEADLOCK FALSE
