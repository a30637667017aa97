CONSTANTS
  Port = "rtk"
  Unit = 1
  Frames <- FramesNoise
  Addrs = {0, 1, 2}
  MaxPdu = 4
  MaxRx = 3
  MaxGaps = 1
  Overlap = TRUE
  SlowNode = TRUE
SPECIFICATION Spec
INVARIANTS TypeOK NoUninitialisedId
PROPERTY ChannelSpec
CHECK_DEADLOCK FALSE
