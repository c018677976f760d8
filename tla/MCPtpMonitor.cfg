CONSTANTS
  HoldoverTime = 2
  MaxAge = 6
  LockedClasses = {"6", "7", "135"}
  Readings <- MCReadings
SPECIFICATION FairSpec
INVARIANTS
  TypeOK
  LockedHasSource
  RetryBudget
PROPERTIES
  ClassGivenUpAfterRetries
  ImplementsHoldover
  HoldoverEnds
CHECK_DEADLOCK FALSE
