\* Master calls against a peer that closes the connection.
CONSTANTS
  Roles = {FALSE}
  Msgs <- MsgsMixed
  HdrLen = 2
  MaxPdu = 2
  SizeMax <- LargestSize
  MaxConn = 2
  MaxCalls = 2
  GarbageLens = {0, 1, 2, 3, 4}
SPECIFICATION Spec
PROPERTY NoDoubleClose
