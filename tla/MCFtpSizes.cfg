CONSTANTS
  Base = 2
  BuffSize = 3
  Sizes = {0, 1, 3, 4, 7, 11, 15}
  SocketRoom = 5
SPECIFICATION StreamSpec
INVARIANT FileReceivedWhole
CHECK_DEADLOCK FALSE
