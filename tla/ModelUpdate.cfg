SPECIFICATION FairSpec
CONSTANTS
  Lineages = {"A", "B"}
  FirstLineage = "A"
  MaxStep = 2
  MaxSamples = 1
  MaxRestarts = 1
  FaultBudget = 2
  MaxLeftovers = 1
  Agents = {a1}
INVARIANTS InUseIsCached UsedIsAcknowledged LoadedNeverOverwritten PendingIsStaged
PROPERTIES ModelOnlyAdvances CatchesUp
CHECK_DEADLOCK FALSE
