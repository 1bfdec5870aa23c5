CONSTANTS
  MaxSequence = 6
  AbortBudget = 1
  MayShutDown = TRUE
SPECIFICATION FairSpec
INVARIANTS HistoriesAgree ViewIsCurrent StoppedMeansClosed
PROPERTIES ClosedIsFinal StopEnds
CHECK_DEADLOCK FALSE
