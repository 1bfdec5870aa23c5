CONSTANTS
  Calls = {c1, c2}
  MaxEvents = 3
  Capacity = 2
  BatchMax = 2
  MaxHeartbeats = 1
  MaxLost = 2
SPECIFICATION FairSpec
INVARIANTS AcknowledgedOnce GapIsHonest FinalMeansComplete ConsumerFollows
PROPERTIES NoEventTwice FinalDelivered
CHECK_DEADLOCK FALSE
