\* The second block of the file is all zeros.
CONSTANTS
  N = 5
  W = 2
  K = 4
  ZeroBlocks = {2}
  JunkSlots = {}
  Blocks = {1, 2, 3, 4}
  MaxLosses = 0
  LossySlots = {}
  MaxEarly = 0
SPECIFICATION FairSpec
PROPERTY FileArrives
