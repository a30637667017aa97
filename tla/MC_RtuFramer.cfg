CONSTANTS
  Port = "linux"
  Unit = 1
  Frames <- FramesSmall
  Addrs = {0, 1, 2}
  MaxPdu = 4
  MaxRx = 4
  MaxGaps = 0
  Overlap = FALSE
  SlowNode = FALSE
SPECIFICATION Spec
INVARIANT FrameDelivered
PROPERTIES ChannelSpec RxReturns
