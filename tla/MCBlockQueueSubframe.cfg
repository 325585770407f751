CONSTANTS
  p1 = p1  p2 = p2  c1 = c1  c2 = c2  b = b
  i1 = i1  i2 = i2
  Threads = {p1, c1}
  Calls <- SubframeCalls
  Items = {i1, i2}
  Lens = {1}
  Size = 4
  SizeMod = 8
  NULL = NULL
SPECIFICATION Spec
INVARIANTS NumItemsExact
