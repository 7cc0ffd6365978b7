SPECIFICATION Spec
CONSTANTS
  t1 = t1
  t2 = t2
  m1 = m1
  m2 = m2
  None = None
  Trial = {t1, t2}
  Memory = {m1, m2}
  Candidates <- MCCandidates
  Generations = 2
  Retries = 1
  Refreshing = TRUE
  ActorRetries = 1
  Variant = {1, 2}
INVARIANTS
  TypeOK
  CleanGeneration
  FeedbackHasCleanPair
  RestoredAfterRun
  ResultIsPaired
PROPERTIES
  OnlyRetriesRepeat
  RunEnds
CHECK_DEADLOCK FALSE
