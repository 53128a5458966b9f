SPECIFICATION Spec
CONSTANTS
  Calls = {c1, c2}
  Execs = {e1, e2}
  NoExec = NoExec
  Limit = 0
  MaxRedeliver = 1
  Lossy = FALSE
CHECK_DEADLOCK FALSE
SYMMETRY Symmetry
INVARIANTS TypeOK OwnResult WaiterIsReachable AtMostOnce
PROPERTIES SettledOnce KeepsPromise
