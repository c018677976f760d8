CONSTANTS
  Workers = {w1}
  MaxEvents = 1
  MaxOutages = 0
  ClassAtStart = "None"
SPECIFICATION FairSpec
PROPERTY PullIsAnswered
CHECK_DEADLOCK FALSE
