CONSTANTS
  t1 = t1
  t2 = t2
  l1 = l1
  l2 = l2
  Never = Never
  Handle <- TwoTimers
  Lister <- TwoListers
  Sleeper <- OneLister
  Delay <- ShortDelays
  Wrap = 64
  Hour = 1
  Boot = 1
  HeldUp = 1
  MaxClock = 3
  MaxChange = 1
SYMMETRY EitherTimer
SPECIFICATION Spec
INVARIANTS
  TypeOK
  FiledWhileArmed
  NoMissedFront
PROPERTIES
  NeverEarly
  CancelIsFinal
CHECK_DEADLOCK FALSE
