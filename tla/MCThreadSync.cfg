CONSTANTS
  c1 = c1
  c2 = c2
  t1 = t1
  t2 = t2
  t3 = t3
  None = None
  Caller <- TwoCallers
  Thread <- ThreeThreads
  m_threadCount = 2
SPECIFICATION Spec
INVARIANTS
  TypeOK
  ObjectOutlivesUse
  StartAtomic
  OwnedOnce
  StopLeavesNothing
PROPERTIES
  StartReturns
  StopReturns
