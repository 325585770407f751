SPECIFICATION PhyFairSpec
CONSTANTS
  Kinds = {"rx"}
  Stamps = {0}
  QueueLen = 2
  ChanDepth = 1
  Limit = 0
  MaxPdus = 1
  DumpPath = FALSE
  SfNum = 1
  FrameNum = 1
  RxLag = 0
  PerTti = 1
  Leftover = 1
  BufNum = 3
  ReqDepth = 3
 
PROPERTIES  StopStopsL1
CONSTRAINT NothingRefused
CHECK_DEADLOCK FALSE
