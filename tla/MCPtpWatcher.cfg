CONSTANTS
  Workers = {w1, w2}
  MaxEvents = 1
  MaxOutages = 1
  ClassAtStart = "248"
SPECIFICATION FairSpec
INVARIANTS
  LockIsGivenBack
  AnswerIsOfOneEvent
  AnswerIsNotOlder
PROPERTIES
  PullIsAnswered
  ReloadStops
  ImplementsPullService
CHECK_DEADLOCK FALSE
