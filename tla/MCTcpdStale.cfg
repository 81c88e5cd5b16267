\* K + W > N: a duplicate of frame 1 may come when its slot is in the window again.
CONSTANTS
  N = 3
  W = 2
  K = 3
  ZeroBlocks = {}
  JunkSlots = {}
  Blocks = {1, 2, 3}
  MaxInFlight = 2
SPECIFICATION Spec
INVARIANT InOrder
