CONSTANTS
  N = 5
  W = 2
  K = 3
  ZeroBlocks = {}
  JunkSlots = {}
  Blocks = {1, 2, 3}
  MaxInFlight = 6
SPECIFICATION FairSpec
PROPERTIES
  ImplementsTransfer
  AllAcknowledged
