CONSTANTS
  w1 = w1
  w2 = w2
  q1 = q1
  u1 = u1
  u2 = u2
  NoQuery = NoQuery
  Runners = {w1, w2}
  Queries = {q1}
  Urls = {u1, u2}
  MaxRuns = 2
SPECIFICATION FairSpec
INVARIANTS TypeOK ForwardedIsStored CompletedHasRecords
PROPERTIES InProgressEnds
CHECK_DEADLOCK FALSE
