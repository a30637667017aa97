\* One master and one slave on an RTU bus (one corrupted frame, broadcasts,
\* an absent unit, raw send and get) or on a TCP connection (calls to unit
\* 1), the slave answering within the master's timeout or not.
CONSTANTS
  Transports = {"rtu", "tcp"}
  Calls <- CallsRtu
  TcpCalls <- CallsUnicast
  MaxCalls = 3
  SlaveId = 1
  Iomap <- SmallIomap
  GetResults <- GetCallbackResults
  SetResults = {0}
  VendorResults = {0}
  MaxFaults = 1
  SlowSlaves = {FALSE, TRUE}
SPECIFICATION Spec
INVARIANTS TypeOK ReplyMatchesRequest ResultMatchesSlave BroadcastNeverAnswered
