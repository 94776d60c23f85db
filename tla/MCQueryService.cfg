CONSTANTS
  q1 = q1
  q2 = q2
  Queries = {q1, q2}
  Handlers = {1, 2, 3}
  Inputs <- MCInputs
  MaxRecords <- MCMaxRecords
  MaxRaises = 1
  Uncategorised = {3}
SPECIFICATION OrderedSpec
INVARIANTS TypeOK AcceptedIsQueued RequestedHasMessage RefusedPublishesNothing OneCreator PendingHasHandler
PROPERTIES SettledExportStays EveryRequestAnswered
CHECK_DEADLOCK FALSE
