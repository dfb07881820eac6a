CONSTANTS
  r = r
  c = c
  i1 = i1
  i2 = i2
  None = None
  Waiter <- ReaderAndWriter
  Reader <- OneReader
  Connector <- OneConnector
  Idler <- OneIdler
  MaxLate = 1
  Wrap = 3
CHECK_DEADLOCK FALSE
SPECIFICATION HookSpec
PROPERTY ConnectTimesOut
