CONSTANTS
  w1 = w1
  w2 = w2
  f = f
  g = g
  Caller = Caller
  None = None
  AnyThread = AnyThread
  Worker <- TwoWorkers
  UseCaller = TRUE
  Piber <- TwoFibers
  Migrate = FALSE
  MaxSchedule = 4
SPECIFICATION FairSpec
INVARIANTS
  TypeOK
  CountersExact
  IdleEndsDrained
  ExclusiveStack
  StopDrains
PROPERTIES
  StopReturns
  ImplementsPool
