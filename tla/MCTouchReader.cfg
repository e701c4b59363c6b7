CONSTANTS
  PenUp = PenUp
  PenDown = PenDown
  NoEvent = NoEvent
  Event <- BothEvents
  Size = 1
  Samples = 1
  Up = Up
  Down = Down
  Other = Other
SPECIFICATION FairTouchSpec
PROPERTIES ReaderWoken
CHECK_DEADLOCK FALSE
