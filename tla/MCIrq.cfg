CONSTANTS
  Lines <- AllLines
  Tick <- Tcu0
  NoNest = {12, 23}
  MaxEvents = 6
  MayDisable = {9, 12}
SPECIFICATION FairIrqSpec
INVARIANTS IrqTypeOK NoReentry NestingBounded StaticCopyDue
PROPERTIES NoSpuriousHandler PendingServed
