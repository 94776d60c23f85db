CONSTANTS
  w1 = w1
  w2 = w2
  Workers = {w1, w2}
  NoWorker = NoWorker
  NumMessages = 3
  Poison = {2}
  MaxLosses = 1
  MaxFaults = 2
SPECIFICATION FairSpec
INVARIANTS TypeOK NoOrphanDelivery DuplicateRunNeedsLoss
PROPERTIES ImplementsAtLeastOnce HealthyMessageSettles SignalledWorkerStops
CHECK_DEADLOCK FALSE
