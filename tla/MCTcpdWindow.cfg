\* One frame more than the buffer has slots: the window wraps.
CONSTANTS
  N = 5
  W = 2
  K = 6
  ZeroBlocks = {}
  JunkSlots = {}
  Blocks = {1, 2, 3, 4, 5, 6}
  MaxLosses = 0
  LossySlots = {}
  MaxEarly = 0
SPECIFICATION Spec
INVARIANT WindowsAgree
