SPECIFICATION Spec
CONSTANTS
  MaxSessions = 3
  MaxActivities = 2
  MaxAsks = 1
  Gestures = {"mute", "ptt", "away", "card"}
  Ends = {"user"}
  PromptAnswers = TRUE
  Refusals = TRUE
  AnyActivity = FALSE
INVARIANTS
  NotOverheard
  Speaks
  QuietBetween
  Declared
PROPERTIES
  AwayRestores
CHECK_DEADLOCK FALSE
