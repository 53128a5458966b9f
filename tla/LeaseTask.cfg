SPECIFICATION FairSpec
CONSTANTS
  c1 = c1
  c2 = c2
  i1 = i1
  i2 = i2
  Clients = {c1}
  Ids = {i1}
  Home <- HomeOfOne
  Limit = 1
  Expiry = 5
CHECK_DEADLOCK FALSE
PROPERTIES KeepsRenewing
