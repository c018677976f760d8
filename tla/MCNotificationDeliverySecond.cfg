SPECIFICATION Spec
CONSTANTS
  state = state
  extended = extended
  a = a
  b = b
  c = c
  Resources = {state, extended}
  LockState = state
  LastQueried = state
  All = all
  V1 = v1
  Subscriptions = {a, c}
  Above <- MCAbove
  Path <- MCPath
  Wildcards = {}
  MaxEvents = 2
  MaxChanges = 1
  MaxFailures = 0
  MaxRestarts = 0
INVARIANT AllAreTold
CHECK_DEADLOCK FALSE
