CONSTANTS
  q1 = q1
  h1 = h1
  h2 = h2
  w1 = w1
  Queries = {q1}
  Handlers = {h1, h2}
  MaxRaises = 1
  Sends <- MCSends
  Workers = {w1}
  NoWorker = NoWorker
  MaxLosses = 0
  MaxFaults = 1
  Urls = {}
  NoQuery = NoQuery
  DbMayFail = TRUE
SPECIFICATION FairSpec
PROPERTY AcceptedSearchEnds
CHECK_DEADLOCK FALSE
