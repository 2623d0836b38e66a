CONSTANTS
  MaxRuns = 2
  QueueMax = 1
SPECIFICATION Spec
INVARIANTS
  TypeOK
  MainOutlivesChildren
  NoStaleMessages
PROPERTIES
  MainEnds
  CommandReturns
CHECK_DEADLOCK FALSE
