SPECIFICATION FairSpec
CONSTANTS
  NoCase = NoCase
  MaxMessages = 2
  MaxTurns = 3
  MaxRuntimes = 1
  MaxCrashes = 2
  Requests <- ChatAndRetry
PROPERTIES TurnsSettle CaseDoesNotStayActive
CHECK_DEADLOCK FALSE
