CONSTANTS
  HoldoverTime = 2
  MaxAge = 6
  LockedClasses = {"6", "7", "135"}
  Readings <- MCReadings
SPECIFICATION Spec
INVARIANT LockedIsTraceable
CHECK_DEADLOCK FALSE
