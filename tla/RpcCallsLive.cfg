SPECIFICATION FairSpec
CONSTANTS
  Calls = {c1, c2}
  Execs = {e1}
  NoExec = NoExec
  Limit = 0
  MaxRedeliver = 0
  Lossy = TRUE
CHECK_DEADLOCK FALSE
PROPERTIES CallsEnd PendingIsSwept CallsAreAnswered
