CONSTANTS
  q1 = q1
  h1 = h1
  h2 = h2
  w1 = w1
  w2 = w2
  Queries = {q1}
  Handlers = {h1, h2}
  MaxRaises = 0
  Sends <- MCSends
  Workers = {w1, w2}
  NoWorker = NoWorker
  MaxLosses = 1
  MaxFaults = 1
  Urls = {}
  NoQuery = NoQuery
  DbMayFail = FALSE
SPECIFICATION Spec
INVARIANTS TypeOK InProgressIsLive AckedIsLogged
SYMMETRY SymmetricWorkers
CHECK_DEADLOCK FALSE
