SPECIFICATION Spec
CONSTANTS
  Objs = {o1, o2, o3}
  Addrs = {a1, a2, a3}
  Names = {main}
  Main0 = main0
  MaxIds = 2
  NoAddr = NoAddr
  NoObj = NoObj
  NoId = NoId
CHECK_DEADLOCK FALSE
SYMMETRY Symmetry
INVARIANTS TypeOK KeysAreAlive HandleIsFaithful LeadsHome
PROPERTIES DeletedForGood
