CONSTANTS
  Port = "linux"
  Unit = 1
  Frames <- FramesLargest
  Addrs = {0, 1, 2}
  MaxPdu = 4
  MaxRx = 3
  MaxGaps = 0
  Overlap = FALSE
  SlowNode = FALSE
SPECIFICATION Spec
INVARIANT FrameDelivered
