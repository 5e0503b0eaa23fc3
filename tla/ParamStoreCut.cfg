CONSTANTS
  Params = 2
  Values = {"v1"}
  PageSize = 4
  SectorPages = 3
  CutsPrograms = TRUE
  MaxBoots = 2
SPECIFICATION Spec
INVARIANT BrokenIsReset
