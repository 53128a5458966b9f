SPECIFICATION FairSpec
CONSTANTS
  Senders = {s1}
  Listener = Listener
  NoOne = NoOne
  MaxBreaks = 1
  Closes = {"fin"}
  Setups <- DefaultSetup
CHECK_DEADLOCK FALSE
PROPERTIES AlwaysReconnects
