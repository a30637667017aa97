CONSTANTS
  Port = "linux"
  Unit = 1
  Frames <- FramesSmall
  Addrs = {0, 1, 2}
  MaxPdu = 4
  MaxRx = 3
  MaxGaps = 1
  Overlap = FALSE
  SlowNode = FALSE
SPECIFICATION Spec
PROPERTY RxReturns
CHECK_DEADLOCK FALSE
