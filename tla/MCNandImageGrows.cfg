SPECIFICATION Spec
CONSTANTS
  SectorSize = 2
  PageSectors = 2
  OobSize = 1
  BlockPages = 2
  Pages = 4
  Base = 4
  Data = {"a", "b"}
  InitialImages <- MCImages
  Ops = {"write"}
  PageData <- MCPageData
  OobData <- MCOobData
  MaxRequests = 1
  MaxRestarts = 1
INVARIANT
  ImageKeepsLength
CHECK_DEADLOCK FALSE
