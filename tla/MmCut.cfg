CONSTANTS
  HeapSize = 96
  Align = 4
  Header = 8
  Requests = {4, 12, 25}
SPECIFICATION Spec
INVARIANT NothingLost
CHECK_DEADLOCK FALSE
