SPECIFICATION BusSpec
CONSTANTS
  SectorSize = 2
  PageSectors = 2
  OobSize = 1
  BlockPages = 2
  Pages = 4
  Base = 4
  Data = {"a", "b"}
  InitialImages <- MCImages
  MaxCycles = 6
INVARIANTS
  NandTypeOK
  BufferFits
PROPERTIES
  EraseExact
  OnlyTargetChanges
  LoadExact
CHECK_DEADLOCK FALSE
