SPECIFICATION FairSpec
CONSTANTS
  Senders = {s1, s2}
  Listener = Listener
  NoOne = NoOne
  MaxBreaks = 3
  Closes = {"rst", "fin"}
  Setups <- MixedSetups
CHECK_DEADLOCK FALSE
INVARIANTS TypeOK OneReconnection
PROPERTIES LiveStreamIsKept Reconnects Heard SendsEnd
