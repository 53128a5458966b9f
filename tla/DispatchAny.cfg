SPECIFICATION Spec
CONSTANTS
  Requests = {q1, q2}
  Receivers = {r1}
  None = None
  Set = Set
  Failed = Failed
  Missing = Missing
  Pending = Pending
  MaxChain = 2
  MaxTasks = 2
  MaxAgain = 1
  Given <- Mixed
  Wires = {"cbor", "text"}
  Encode <- toArgObj
  Carry <- Through
  Refuses <- Raises
  Decode <- reverseToArgObj
  Promise <- Promised
  Clear <- Unmistakable
CHECK_DEADLOCK FALSE
SYMMETRY Symmetry
INVARIANTS TypeOK InterceptedFirst OrderlyOnce ValuesArrive
