CONSTANTS
  Searchers = {s1, s2}
  Enrichers = {e1, e2}
  Urls = {u1, u2}
  Found = {u1}
  Places = {p1}
  Metadata = {m1}
  NoRow = NoRow
  MaxSearches = 2
  MaxByHand = 0
  MaxFaults = 0
SPECIFICATION Spec
INVARIANT NoDuplicateRecords
CHECK_DEADLOCK FALSE
