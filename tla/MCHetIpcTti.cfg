CONSTANTS
  m1 = m1  m2 = m2
  Msgs = {m1, m2}
  Size = 2
  CountMod = 4
  NoMsg = NoMsg
SPECIFICATION TtiSpec
PROPERTIES TtiWakesReader
CHECK_DEADLOCK FALSE
