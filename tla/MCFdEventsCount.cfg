CONSTANTS
  r1 = r1
  r2 = r2
  w = w
  i1 = i1
  i2 = i2
  None = None
  Waiter <- ThreeWaiters
  Reader <- TwoReaders
  Idler <- TwoIdlers
  Wrap = 4
SPECIFICATION Spec
INVARIANT StopWaitsForEvents
