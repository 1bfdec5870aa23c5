CONSTANTS
  Calls = {c1, c2}
  MaxEvents = 2
  Capacity = 1
  BatchMax = 1
  MaxHeartbeats = 1
  MaxLost = 2
SPECIFICATION Spec
PROPERTY SameBatchUntilAcknowledged
CHECK_DEADLOCK FALSE
