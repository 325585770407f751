SPECIFICATION FairSpec
CONSTANTS
  Kinds = {"rx"}
  Stamps = {1}
  QueueLen = 1
  ChanDepth = 1
  Limit = 1
  MaxPdus = 2
  DumpPath = TRUE
INVARIANTS  StoppedOrLate
PROPERTIES NoDumpAfterStop StopCompletes NoStall
CHECK_DEADLOCK FALSE
