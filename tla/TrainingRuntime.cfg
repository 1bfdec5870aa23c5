CONSTANTS
  Sessions = {s1, s2}
  Agents = {a1, a2}
  TMax = 2
  MaxTransitions = 4
  MaxModel = 2
SPECIFICATION Spec
INVARIANTS LedgerFollows EachTransitionOnce BehaviorModelExact TerminalIsSettled RewardOnce CleanShutdownLosesNothing
CHECK_DEADLOCK FALSE
