\* Slave task and master calls, each against a peer that sends in pieces,
\* stalls and closes.
CONSTANTS
  Roles = {TRUE, FALSE}
  Msgs <- MsgsMixed
  HdrLen = 2
  MaxPdu = 2
  SizeMax <- LargestSize
  MaxConn = 2
  MaxCalls = 2
  GarbageLens = {0, 1, 2, 3, 4}
SPECIFICATION Spec
PROPERTIES ChannelSpec SlaveNoDoubleClose SlaveStops
