\* One task, up to four requests: the page kept in the buffer.
SPECIFICATION Spec
CONSTANTS
  Users = {t1}
  Chips = {"planes"}
  SubpageChips = {"planes"}
  Pages = 4
  BlockPages = 2
  FlagPage = 1
  Data = {"a"}
  OobModes = {"none"}
  Ops = {"read", "write", "erase", "readoob", "mark"}
  Decaying = {3}
  MaxRequests = 4
  MaxRestarts = 1
INVARIANTS
  TypeOK
  PagebufTrue
  MarkedIsKnown
PROPERTIES
  ReadsCurrent
CHECK_DEADLOCK FALSE
