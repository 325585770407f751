CONSTANTS
  m1 = m1  m2 = m2  c1 = c1  c2 = c2
  Msgs = {m1, m2}
  Size = 3
  CountMod = 4
  NoMsg = NoMsg
  WdCores = {c1, c2}
  MaxExpiries = 4
  MaxEfault = 1
SPECIFICATION IpcSpec
INVARIANTS SleptOverIsRecorded
PROPERTIES ImplementsFifo MessageConsumed NoticeDelivers ExpiryReported
CHECK_DEADLOCK FALSE
