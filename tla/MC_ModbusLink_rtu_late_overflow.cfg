CONSTANTS
  Transports = {"rtu"}
  Calls <- CallsUnicast
  TcpCalls <- CallsUnicast
  MaxCalls = 3
  SlaveId = 1
  Iomap <- SmallIomap
  GetResults <- GetCallbackResults
  SetResults = {0}
  VendorResults = {0}
  MaxFaults = 0
  SlowSlaves = {TRUE}
SPECIFICATION Spec
INVARIANTS MasterReadWithinBuffer
