SPECIFICATION PersistentRecovery
CONSTANTS
  p1 = p1  p2 = p2  p3 = p3
  g1 = g1  g2 = g2  g3 = g3  r1 = r1
  Procs = {p1, p2}
  Gens = {g1, g2}
  Readers = {r1}
  Kinds <- AllKinds
  MaxSource = 1
  MaxAttempts = 1
  OneOperator = TRUE
  NoGen = NoGen
  NoLock = NoLock
INVARIANTS TypeOK PinnedRequestReadsOneGeneration
PROPERTIES LockOfUnfinishedPublishIsCleared
CHECK_DEADLOCK FALSE
