SPECIFICATION FairSpec
CONSTANTS
  MaxRequests = 2
  MaxConns = 2
  Kinds = {"kick", "group", "move", "plain", "op", "list", "down", "up"}
  Dirs = {1, 2}
  MaxFrames = 1
  IdSpace = 8
  Faults = {"drop", "end", "cancel"}
INVARIANTS
  AnsweredOnce
  AnswersTrue
  ListingComplete
  TransferTrue
PROPERTIES
  Answered
CHECK_DEADLOCK FALSE
