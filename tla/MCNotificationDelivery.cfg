SPECIFICATION Spec
CONSTANTS
  state = state
  extended = extended
  a = a
  b = b
  c = c
  Resources = {state, extended}
  LockState = state
  LastQueried = state
  All = all
  V1 = v1
  Subscriptions = {a, b}
  Above <- MCAbove
  Path <- MCPath
  Wildcards = {b}
  MaxEvents = 2
  MaxChanges = 1
  MaxFailures = 1
  MaxRestarts = 1
INVARIANTS
  TypeOK
  DeliveredWasTold
  ToldUnlessDenied
PROPERTIES
  NoStepBack
  EndsTold
CHECK_DEADLOCK FALSE
