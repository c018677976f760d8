SPECIFICATION Spec
CONSTANTS
  x = x
  y = y
  Listeners = {x, y}
  MaxCalls = 4
  MaxFailures = 1
  MaxOutages = 1
INVARIANTS
  TypeOK
  NothingIsSleptOver
PROPERTIES
  NothingStartsAfterCleanup
  EndsAsAsked
  CallsReturn
  CleanupEnds
CHECK_DEADLOCK FALSE
