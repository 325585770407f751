SPECIFICATION PhySpec
CONSTANTS
  Kinds = {"rx"}
  Stamps = {0, 1, 2, 3}
  QueueLen = 2
  ChanDepth = 1
  Limit = 0
  MaxPdus = 1
  DumpPath = FALSE
  SfNum = 2
  FrameNum = 2
  RxLag = 1
  PerTti = 1
  Leftover = 1
  BufNum = 1
  ReqDepth = 1
INVARIANTS FreshDecode

CHECK_DEADLOCK FALSE
