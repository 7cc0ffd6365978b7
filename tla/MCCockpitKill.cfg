CONSTANTS
  t1 = t1
  t2 = t2
  r1 = r1
  r2 = r2
  None = None
  Thread = {t1}
  Run = {r1}
  MaxInbox = 1
  MaxCrashes = 0
  WallClock = 2
  IdleTimeout = 1
  Sender = {"operator", "agent"}
  OperatorId = "operator"
  RequireOperator = TRUE
SPECIFICATION Spec
CHECK_DEADLOCK FALSE
INVARIANT KillReachesRun
