CONSTANTS
  HeapSize = 96
  Align = 4
  Header = 8
  Requests = {4, 12, 25}
SPECIFICATION Spec
INVARIANTS TypeOK Tiled GrantHolds Coalesced Accounted NullOnlyWhenFull NestedStaysIntact
CHECK_DEADLOCK FALSE
