SPECIFICATION Spec
CONSTANTS
  p1 = p1  p2 = p2  p3 = p3
  g1 = g1  g2 = g2  g3 = g3  r1 = r1
  Procs = {p1, p2, p3}
  Gens = {g1, g2}
  Readers = {}
  Kinds <- AllKinds
  MaxSource = 2
  MaxAttempts = 2
  OneOperator = TRUE
  NoGen = NoGen
  NoLock = NoLock
SYMMETRY Symmetry
INVARIANTS OneWriter ActiveIsComplete
PROPERTIES ContentNeverRegresses PointerSpec
CHECK_DEADLOCK FALSE
