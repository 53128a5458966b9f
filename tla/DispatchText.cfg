SPECIFICATION Spec
CONSTANTS
  Requests = {q1}
  Receivers = {r1}
  None = None
  Set = Set
  Failed = Failed
  Missing = Missing
  Pending = Pending
  MaxChain = 0
  MaxTasks = 2
  MaxAgain = 1
  Given <- Bytes
  Wires = {"text"}
  Encode <- toArgObj
  Carry <- Through
  Refuses <- Raises
  Decode <- reverseToArgObj
  Promise <- Promised
  Clear <- Unmistakable
CHECK_DEADLOCK FALSE
INVARIANTS BytesArrive
