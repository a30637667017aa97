\* A raw read of 2 registers sent with mbus_send_msg and fetched by
\* mbus_get_msg into a 2-byte msg, over RTU and TCP, the slave in time.
CONSTANTS
  Transports = {"rtu", "tcp"}
  Calls <- CallsRaw
  TcpCalls <- CallsRaw
  MaxCalls = 2
  SlaveId = 1
  Iomap <- SmallIomap
  GetResults = {0}
  SetResults = {0}
  VendorResults = {0}
  MaxFaults = 0
  SlowSlaves = {FALSE}
SPECIFICATION Spec
INVARIANTS GetMsgWithinBuffer
