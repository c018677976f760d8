CONSTANTS
  Nodes = {"node1", "node2"}
  Subscriptions <- MCSubscriptions
  AnyNode = "*"
  MaxPods <- MCMaxPods
  MaxChanges = 2
  MaxFailures = 0
SPECIFICATION FairSpec
PROPERTY UninterestingIsStopped
CHECK_DEADLOCK FALSE
