CONSTANTS
  Results <- MCResults
  Links <- MCLinks
  Pages <- MCPages
  Today <- MCToday
  MaxHops = 2
SPECIFICATION Spec
INVARIANTS TypeOK RecordKeepsItsUrl  PublishedInThePast
CHECK_DEADLOCK FALSE
