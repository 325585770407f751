CONSTANTS
  r1 = r1  r2 = r2
  Macs = {r1}
  NoMac = NoMac
  MAX_RRU_CLIENTS = 2
  RRU_INACTIVITY_TIMEOUT_SECS = 1
  MaxConn = 2
  MaxIn = 2
  MaxTroubles = 2
  FaultSets = {{"reboot", "lose", "hang", "recover", "chatter"},
    {"abort", "fast", "lose", "reboot", "slow"}, {"burst", "chatter", "tap", "tapdown"}}
SPECIFICATION FairSpec
INVARIANTS SlotsTruthful TableSound
PROPERTIES NeverStuck Served SilentDropped
CHECK_DEADLOCK FALSE
