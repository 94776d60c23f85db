CONSTANTS
  w1 = w1
  Workers = {w1}
  NoWorker = NoWorker
  NumMessages = 2
  Poison = {1}
  MaxLosses = 0
  MaxFaults = 0
SPECIFICATION FairSpec
PROPERTY PoisonMessageLeavesQueue
CHECK_DEADLOCK FALSE
