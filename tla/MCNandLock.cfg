\* Three tasks and two nand_chips on one controller.
SPECIFICATION FairSpec
CONSTANTS
  Users = {t1, t2, t3}
  Chips = {"planes", "single"}
  SubpageChips = {"planes"}
  Pages = 2
  BlockPages = 1
  FlagPage = 0
  Data = {"a"}
  OobModes = {"none"}
  Ops = {"erase", "sync", "mark"}
  Decaying = {}
  MaxRequests = 3
  MaxRestarts = 1
INVARIANTS
  Exclusive
  SleepersWillWake
  MarkedIsKnown
PROPERTIES
  Served
CHECK_DEADLOCK FALSE
