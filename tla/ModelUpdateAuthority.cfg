SPECIFICATION Spec
CONSTANTS
  Lineages = {"A"}
  FirstLineage = "A"
  MaxStep = 1
  MaxSamples = 0
  MaxRestarts = 1
  FaultBudget = 3
  MaxLeftovers = 0
  Agents = {a1}
INVARIANT AuthorityKept
CHECK_DEADLOCK FALSE
