CONSTANTS
  N = 6
  W = 2
  K = 4
  ZeroBlocks = {}
  JunkSlots = {3, 5}
  Blocks = {1, 2, 3, 4}
  MaxInFlight = 2
SPECIFICATION Spec
INVARIANTS
  TypeOK
  InOrder
  WindowsAgree
  KeepsWhatIsLacking
  TimerForWhatIsLacking
  OneRequestPerFrame
