CONSTANTS
  Params = 2
  Values = {"v1"}
  PageSize = 4
  SectorPages = 3
  CutsPrograms = FALSE
  MaxBoots = 2
  MaxRequests = 4
SPECIFICATION FairLink
INVARIANTS LinkTypeOK StoreIsSnapshot StoreMatchesRam TableIsRam
PROPERTIES CallsReturn ListAnswered
