\* The boot loader's timer, taken over by the kernel.
SPECIFICATION Spec
CONSTANTS
  SyncStep = 2
  CntSpan = 8
  Word = 1024
  BootStep = 2
  TickStep = 1
  Latch = 5
  Mask = 15
  MaxLate = 4
  MaxTime = 40
INVARIANTS
  TimerTypeOK
  TimersArmed
  JiffiesNeverEarly
  ClockInRange
  TimestampAtMostTwice
CHECK_DEADLOCK FALSE
