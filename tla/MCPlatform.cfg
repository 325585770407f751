SPECIFICATION PlatformSpec
CONSTANTS
  u1 = u1  u2 = u2
  Procs = {u1, u2}
  MIN_FREE_SIZE_LIST = 2
  NUMBER_OF_LISTS = 1
  Base = 8
  HugePage = 11
  DspShared = 2
  Sizes = {2, 3}
  Aligns = {4}
  MaxHeld = 4
  MaxInits = 2
  NR_DSP_CORE = 3
  BootCalls <- MCBootCalls
  MaxBootCalls = 2
  MaxCoreFaults = 1
  CtrlBase = 10
  AreaSize = 64
  SizeControl = 2
  SizeIpc = 1
  SizeLog = 1
  SizeAux = 1
  SizeCh = 2
  SizeBd = 1
  Depth = 2
  ChannelCounts = {1, 2}
  CtrlSizes = {16}
  MaxLoads = 2
  MaxHetCalls = 3
  Max913x = 2
  TxSlots = 2
  MaxSg = 2
  MAX_DMA_ENTRIES = 5
  MaxTx = 3
  MaxDmaFaults = 1
  SigChannels = {1, 2}
  MAX_MSG_IRQ = 2
  SigDepth = 2
  MaxMsgs = 2
  MaxLives = 2
INVARIANTS HeapSound OwnersDisjoint LargeServed
  SuccessIsRestart LayoutDisjoint AttachedCurrent TxIntact EverySignalTakes
PROPERTIES ImagesInOrder 
CONSTRAINT StaleBound
CHECK_DEADLOCK FALSE
