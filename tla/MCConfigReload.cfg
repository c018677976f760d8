CONSTANTS
  Debounce = 2
  BuildTicks = 1
  Operations = {"created", "modified", "deleted"}
  MaxChanges = 3
  MaxCrashes = 1
SPECIFICATION FairSpec
INVARIANTS
  NoChangeIsLost
  ReloadsHaveCause
PROPERTIES
  BurstIsOneReload
  EndsUpToDate
CHECK_DEADLOCK FALSE
