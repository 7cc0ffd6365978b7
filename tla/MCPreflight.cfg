SPECIFICATION Spec
CONSTANTS
  None = None
  NoReport = NoReport
  MaxNodes = 3
  MaxEntries = 2
  MaxDepth = 1
  Allowlists <- MCAllowlists
  Targets <- MCTargets
  Statics <- MCStatics
  Provider = {1, 2}
  Worlds <- MCWorlds
  IdleWorld <- MCIdleWorld
INVARIANTS
  TypeOK
  WalkIsExact
  LabelReadsBack
  SealedOrProxied
  DoctorPredictsRun
  MintedIsSanctioned
\* A launch and a run end.
CHECK_DEADLOCK FALSE
