SPECIFICATION Spec
CONSTANTS
  Mem = {m1, m2}
  Session = {s1, s2}
  MaxRuns = 2
  NoMem = NoMem
  NoSession = NoSession
SYMMETRY Symmetry
INVARIANTS
  ErasureComplete
CHECK_DEADLOCK FALSE
