CONSTANTS
  r = r
  c = c
  i1 = i1
  i2 = i2
  None = None
  Waiter <- OneConnector
  Reader <- NoReader
  Connector <- OneConnector
  Idler <- TwoIdlers
  MaxLate = 2
  Wrap = 3
CHECK_DEADLOCK FALSE
SPECIFICATION HookSpec
INVARIANTS
  HookTypeOK
  FibersAccounted
PROPERTIES
  ConnectTrue
  TimeoutHonest
  TimeoutEndsCall
  ReadyCallReturns
