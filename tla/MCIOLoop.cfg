CONSTANTS
  r1 = r1
  r2 = r2
  i1 = i1
  i2 = i2
  None = None
  Waiter <- TwoReaders
  Reader <- TwoReaders
  Idler <- TwoIdlers
  Wrap = 4
  MaxSchedule = 2
SPECIFICATION LoopSpec
INVARIANTS
  LoopTypeOK
  FibersOnce
PROPERTIES
  TasksTaken
  LoopStops
