SPECIFICATION FairSpec
CONSTANTS
  Lineages = {"A"}
  FirstLineage = "A"
  MaxStep = 1
  MaxSamples = 0
  MaxRestarts = 0
  FaultBudget = 1
  MaxLeftovers = 0
  Agents = {a1}
PROPERTY PruningRecovers
CHECK_DEADLOCK FALSE
