SPECIFICATION FairSpec
CONSTANTS
  Threads = {t1}
  Depth = 1
  Uses = {"await"}
  Setups <- Awaiting
  Nobody = Nobody
CHECK_DEADLOCK FALSE
PROPERTIES CallsReturn
