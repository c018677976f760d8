CONSTANTS
  Nodes = {"node1", "node2"}
  Subscriptions <- MCSubscriptions
  AnyNode = "*"
  MaxPods <- MCMaxPods
  MaxChanges = 2
  MaxFailures = 1
SPECIFICATION FairSpec
INVARIANTS
  TypeOK
  NoWakeUpIsLost
  NoSubscriptionIsLost
  AckedIsApplied
  QuietIsInStep
PROPERTY EndsInStep
CHECK_DEADLOCK FALSE
