CONSTANTS
  Ids = {i1, i2}
  Intervals = {1, 2, 3}
  Second = 2
  MaxTime = 4
  None = None
  Stale = Stale
SPECIFICATION Spec
PROPERTY NeverEarly
CHECK_DEADLOCK FALSE
