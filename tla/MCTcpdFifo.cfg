CONSTANTS
  N = 5
  W = 2
  K = 11
  ZeroBlocks = {}
  JunkSlots = {}
  Blocks = {1, 2, 3, 4, 5, 6, 7, 8, 9, 10, 11, 12}
  MaxLosses = 2
  LossySlots = {1, 2}
  MaxEarly = 1
SPECIFICATION FairSpec
INVARIANTS
  TypeOK
  NothingForgotten
  RequestsFit
PROPERTIES
  NothingOverwritten
  ImplementsTransfer
