SPECIFICATION MCSpec
CONSTANTS
  N = 5
  W = 3
  Blocks = {1, 2}
  MaxDelivered = 7
  Ids = {i1, i2, i3}
  Intervals = {1, 2, 4}
  Second = 3
  MaxTime = 5
  None = None
  Stale = Stale
  Word = 1024
  RtoMin = 4
  Million = 10
  Times <- SmallTimes
  MaxEstimates = 4
  TimerIds = {1, 2, 3}
  Lengths = {1, 2}
  Patience = 2
  MaxStarts = 4
  Base = 2
  BuffSize = 3
  Sizes = {0, 1, 3, 4, 5, 6, 7, 11, 15}
  SocketRoom = 5
  DaemonRoom = 2
  CarryRoom = 2
  FtpsRoom = 2
  Chunk = 4
  Characters = {"a", "b", "-"}
  Newline = "-"
  Files <- Texts
  Targets <- Strings
INVARIANTS ServerTypeOK WindowWidth HeldInWindow LfrCountsDelivered FrontIsEmpty
INVARIANTS TypeOK SleepsNoLonger NoneTooLong
INVARIANTS SmoothedBetween RtoBounded MeasuresElapsed
INVARIANTS TimmerTypeOK TimesAddUp ListsTheRunning
INVARIANTS StreamWhole DatagramWhole CountedOnce
PROPERTIES ImplementsWindow ImplementsService StreamEnds DatagramEnds CountEnds
CHECK_DEADLOCK FALSE
