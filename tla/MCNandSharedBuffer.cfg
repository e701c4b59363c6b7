\* Two nand_chips over one data buffer.
SPECIFICATION Spec
CONSTANTS
  Users = {t1, t2}
  Chips = {"planes", "single"}
  SubpageChips = {"planes"}
  Pages = 4
  BlockPages = 2
  FlagPage = 1
  Data = {"a"}
  OobModes = {"none"}
  Ops = {"read", "write"}
  Decaying = {}
  MaxRequests = 4
  MaxRestarts = 0
INVARIANTS
  PagebufTrue
SYMMETRY
  Perms
CHECK_DEADLOCK FALSE
