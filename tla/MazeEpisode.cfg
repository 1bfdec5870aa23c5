CONSTANTS
  Columns = 3
  Rows = 3
  RayMaxRange = 2
  TMax = 2
  EnvelopeMaxTransitions = 2
  EnvelopeMaxBytes = 5
  Agents = {a1, a2}
  Modes = {"training", "evaluation"}
  Maps <- MCMaps
  PlayedMaps <- MCPlayedMaps
  MaxSteps = 3
  Value <- MCValue
SPECIFICATION Spec
INVARIANTS MapFactsExact LawfulIsAccepted FailureIsNegative RewardIsAccounted EnvelopesExact
SYMMETRY MCSymmetry
CHECK_DEADLOCK FALSE
