CONSTANTS
  Searchers = {s1, s2}
  Enrichers = {e1, e2}
  Urls = {u1, u2}
  Found = {u1}
  Places = {p1}
  Metadata = {m1}
  NoRow = NoRow
  MaxSearches = 2
  MaxByHand = 1
  MaxFaults = 1
SPECIFICATION FairSpec
INVARIANTS
  TypeOK
  DuplicatesNeedOverlap
  DiscoveredIsPending
PROPERTIES
  OnlyStaleWritesMix
  RecordSettles
CHECK_DEADLOCK FALSE
