SPECIFICATION GradSpec
CONSTANTS
  t1 = t1
  None = None
  Request = {r1, r2}
  Thread = {t1}
  ThreadOf <- OneThread
  TTL = 2
  Timeout = 1
  Sender = {"operator", "agent"}
  OperatorId = "operator"
  RequireOperator = FALSE
  Punctual = FALSE
  MinSuccesses = 2
  MinTasks = 2
  Cooldown = 2
  Task = {x, y}
  Quarantined = {"m"}
SYMMETRY Symmetry
INVARIANTS
  PromotionIsApproved
PROPERTIES
  ProposalIsEarned
  CooldownNeedsAnswer
CHECK_DEADLOCK FALSE
