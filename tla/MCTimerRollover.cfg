CONSTANTS
  t1 = t1
  t2 = t2
  l1 = l1
  l2 = l2
  Never = Never
  Handle <- OneTimer
  Lister <- TwoListers
  Sleeper <- OneLister
  Delay <- ShortDelays
  Wrap = 64
  Hour = 16
  Boot = 0
  HeldUp = 3
  MaxClock = 3
  MaxChange = 2
SPECIFICATION Spec
PROPERTY NoRollover
CHECK_DEADLOCK FALSE
