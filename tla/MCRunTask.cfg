SPECIFICATION Spec
CONSTANTS
  a = a
  b = b
  c = c
  k1 = k1
  k2 = k2
  None = None
  Torn = Torn
  Session = {"s"}
  Value = {1, 2, 3}
  Plan <- MCPlan
  Key = {k1, k2}
  KeyOf <- MCKeyOf
  Stateful = {a, b}
  ProbeAttempts = 2
  MaxProcesses = 2
INVARIANTS
  TypeOK
  EnvIsClean
  BrainHasItsGrants
  LiveIsExplained
  ExitCodeIsTrue
  NeverRewinds
PROPERTY ImplementsAtomicStore
CHECK_DEADLOCK FALSE
