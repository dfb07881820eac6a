CONSTANTS
  a = a
  b = b
  c = c
  Main = Main
  Root = Root
  None = None
  Exited = Exited
  UserPiber <- MCUserPiber
  InScheduler <- MCInScheduler
  Disciplined = TRUE
  MaxSwitch = 4
SPECIFICATION Spec
INVARIANTS
  TypeOK
  ContextsCurrent
  RunningKnown
  NeverExits
PROPERTY YieldReturnsToResumer
CHECK_DEADLOCK FALSE
