SPECIFICATION FairSpec
CONSTANTS
  SectorSize = 2
  PageSectors = 2
  OobSize = 1
  BlockPages = 2
  Pages = 4
  Base = 4
  Data = {"a", "b"}
  InitialImages <- MCImages
  Ops = {"read", "readoob", "write", "writeoob", "erase", "read2",
         "load", "identify", "query"}
  PageData <- MCPageData
  OobData <- MCOobData
  MaxRequests = 3
  MaxRestarts = 1
INVARIANTS
  TypeOK
  EmulatorRuns
  ReadsInBuffer
PROPERTIES
  ImplementsArray
  RequestsEnd
CHECK_DEADLOCK FALSE
