CONSTANTS
  q1 = q1
  q2 = q2
  Queries = {q1, q2}
  Handlers = {1, 2, 3}
  Inputs <- MCInputs
  MaxRecords <- MCMaxRecords
  MaxRaises = 0
  Uncategorised = {3}
SPECIFICATION Spec
INVARIANT EnqueueFailedIsNotQueued
CHECK_DEADLOCK FALSE
