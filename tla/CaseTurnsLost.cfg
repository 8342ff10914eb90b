SPECIFICATION Spec
CONSTANTS
  NoCase = NoCase
  MaxMessages = 2
  MaxTurns = 2
  MaxRuntimes = 1
  MaxCrashes = 0
  Requests = {}
INVARIANTS EveryAcceptedMessageIsAnswered
CHECK_DEADLOCK FALSE
