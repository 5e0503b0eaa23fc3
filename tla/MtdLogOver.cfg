CONSTANTS
  PageSize = 5
  SectorPages = 4
  EraseUnit = 4
  StartSector = 1
  Sectors = 2
  Cleared = {}
  ChipPages = 16
  FormatLen = 6
  Records <- RecordLengths
SPECIFICATION Spec
INVARIANT OwnPartition
