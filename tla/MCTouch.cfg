CONSTANTS
  PenUp = PenUp
  PenDown = PenDown
  NoEvent = NoEvent
  Event <- BothEvents
  Size = 2
  Samples = 2
  Up = Up
  Down = Down
  Other = Other
SPECIFICATION TouchSpec
INVARIANTS TouchTypeOK NeverSleepsInSoftirq NoTimerAfterRelease ListensForPen LiftIsLast
PROPERTIES ImplementsQueue
CHECK_DEADLOCK FALSE
