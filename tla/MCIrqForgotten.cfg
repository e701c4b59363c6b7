CONSTANTS
  Lines <- AllLines
  Tick <- Tcu0
  NoNest = {12, 23}
  MaxEvents = 3
  MayDisable = {}
SPECIFICATION IrqSpec
INVARIANTS NoneForgotten
