SPECIFICATION Spec
CONSTANTS
  NoCase = NoCase
  MaxMessages = 2
  MaxTurns = 4
  MaxRuntimes = 2
  MaxCrashes = 2
  Requests <- AllRequests
INVARIANTS TypeOK TurnsRunInOrder OnePlaceholder InterruptionKeepsPlaceholder FormalReplyHasItsQuestion
PROPERTIES StartOffersRetry
CHECK_DEADLOCK FALSE
