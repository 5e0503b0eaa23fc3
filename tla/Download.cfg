CONSTANTS
  PageSize = 4
  SectorPages = 2
  EraseUnit = 1
  StartSector = 1
  Sectors = 2
  Cleared = {3, 5, 7}
  ChipPages = 8
  FormatLen = 6
  Records <- RecordLengths
  Chunk = 3
  CountMod = 5
  Package = 8
  SizeMod = 16
  Wide = 32
  Offsets = {6}
  Counts = {4, 31}
  MaxRequests = 2
SPECIFICATION FairDownload
INVARIANTS DownloadTypeOK StreamInOrder ErasedAhead FileIsLog PackagesAreLog
PROPERTIES LogDrains DownloadsComplete DownloadsEnd
