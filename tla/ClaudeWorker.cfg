SPECIFICATION FairSpec
CONSTANTS
  s1 = s1
  t1 = t1  t2 = t2
  Sessions = {s1}
  Turns = {t1, t2}
  MaxRetries = 1
  HasTimeout = TRUE
  MaxRuntimes = 2
  MaxCrashes = 1
INVARIANTS TypeOK OneChildPerSession MapHoldsOutstandingCalls SessionIsBegunOnce
PROPERTIES LineSpec CallsEnd
CHECK_DEADLOCK FALSE
