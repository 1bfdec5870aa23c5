SPECIFICATION FairSpec
CONSTANTS
  Pods = {p1, p2}
  Restarting = {p2}
  MaxRestarts = 1
INVARIANTS LeaseExclusive FilesAccounted
PROPERTY SupervisorStops
CHECK_DEADLOCK FALSE
