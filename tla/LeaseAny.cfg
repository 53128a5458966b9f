SPECIFICATION FairSpec
CONSTANTS
  c1 = c1
  c2 = c2
  i1 = i1
  i2 = i2
  Clients = {c1, c2}
  Ids = {i1, i2}
  Home <- HomeOfTwo
  Limit = 1
  Expiry = 7
CHECK_DEADLOCK FALSE
INVARIANTS TypeOK LiveIsTracked HeldIsKept
PROPERTIES Reclaimed
