CONSTANTS
  r1 = r1  r2 = r2
  Macs = {r1, r2}
  NoMac = NoMac
  MAX_RRU_CLIENTS = 2
  RRU_INACTIVITY_TIMEOUT_SECS = 0
  MaxConn = 2
  MaxIn = 1
  MaxTroubles = 0
  FaultSets = {{}}
SPECIFICATION Spec
INVARIANTS SocketsNotShared
CHECK_DEADLOCK FALSE
