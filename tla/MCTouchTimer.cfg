CONSTANTS
  PenUp = PenUp
  PenDown = PenDown
  NoEvent = NoEvent
  Event <- BothEvents
  Size = 2
  Samples = 2
  Up = Up
  Down = Down
  Other = Other
SPECIFICATION TouchSpec
INVARIANTS TimerNotPending
CHECK_DEADLOCK FALSE
