CONSTANTS
  r1 = r1
  r2 = r2
  t1 = t1
  None = None
  Request = {r1, r2}
  Thread = {t1}
  ThreadOf <- OneThread
  TTL = 2
  Timeout = 1
  Sender = {"operator", "agent"}
  OperatorId = "operator"
  RequireOperator = FALSE
  Punctual = FALSE
SPECIFICATION FairSpec
CHECK_DEADLOCK FALSE
INVARIANTS GrantIsAudited OneVerdict NoOrphanPending
PROPERTY EveryRequestSettles
