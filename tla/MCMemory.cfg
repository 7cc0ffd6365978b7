SPECIFICATION Spec
CONSTANTS
  Mem = {m1, m2}
  Session = {s1, s2}
  MaxRuns = 3
  NoMem = NoMem
  NoSession = NoSession
SYMMETRY Symmetry
INVARIANTS
  OnlyVettedGrounds
  TrailComplete
  DirectErasure
  RankedIsTrusted
  VerdictReachesAll
CHECK_DEADLOCK FALSE
