CONSTANTS
  w1 = w1
  w2 = w2
  f = f
  g = g
  Caller = Caller
  None = None
  AnyThread = AnyThread
  Worker <- TwoWorkers
  UseCaller = FALSE
  Piber <- TwoFibers
  Migrate = TRUE
  MaxSchedule = 3
SPECIFICATION Spec
INVARIANT ExclusiveStack
