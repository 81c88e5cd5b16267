\* One timer expires while its frame's acknowledgement is still on its way.
CONSTANTS
  N = 5
  W = 2
  K = 8
  ZeroBlocks = {}
  JunkSlots = {}
  Blocks = {1, 2, 3, 4, 5, 6, 7, 8, 9}
  MaxLosses = 0
  LossySlots = {}
  MaxEarly = 1
SPECIFICATION Spec
INVARIANT NeverForgotten
