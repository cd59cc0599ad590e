SPECIFICATION FairSpec
CONSTANTS
  MaxAddresses = 2
  Needed = {1, 2}
  MaxLevel = 1
  MaxInbox = 3
  MaxItems = 2
  Faults = {"socket", "bad", "refuse", "stop", "kick"}
INVARIANTS
  ToldWhileConnected
PROPERTIES
  HandshakeEnds
  FirstEnds
  LeavingEnds
CHECK_DEADLOCK FALSE
