CONSTANTS
  MaxSequence = 4
  AbortBudget = 1
  MayShutDown = TRUE
SPECIFICATION Spec
INVARIANTS StrictlyContiguous
CHECK_DEADLOCK FALSE
