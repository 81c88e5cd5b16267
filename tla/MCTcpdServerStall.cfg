CONSTANTS
  N = 5
  W = 3
  Blocks = {1, 2}
  MaxDelivered = 7
SPECIFICATION MCSpec
INVARIANT NothingDeliverableStays
CHECK_DEADLOCK FALSE
