CONSTANTS
  q1 = q1
  h1 = h1
  h2 = h2
  w1 = w1
  u1 = u1
  Queries = {q1}
  Handlers = {h1, h2}
  MaxRaises = 0
  Sends <- MCSends
  Workers = {w1}
  NoWorker = NoWorker
  MaxLosses = 0
  MaxFaults = 0
  Urls = {u1}
  NoQuery = NoQuery
  DbMayFail = FALSE
SPECIFICATION Spec
INVARIANT StatusTellsOutcome
CHECK_DEADLOCK FALSE
