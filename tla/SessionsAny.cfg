SPECIFICATION FairSpec
CONSTANTS
  Clients = {k1, k2}
  Calls = {1, 2}
  None = None
  MaxBreaks = 2
  Transports = {"ws", "tcp"}
CHECK_DEADLOCK FALSE
INVARIANTS TypeOK SessionsAreSeparate AtMostOnce
PROPERTIES RepliesFollow Answered KeepsPromise
