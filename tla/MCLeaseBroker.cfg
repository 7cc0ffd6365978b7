CONSTANTS
  c1 = c1
  c2 = c2
  h1 = h1
  h2 = h2
  NoHandle = NoHandle
  NoLease = NoLease
  Sweeper = Sweeper
  Client = {c1, c2}
  Handle = {h1, h2}
  Provider = {"cloudflare", "memory"}
  Stateful = {"cloudflare"}
  Issuer <- MCIssuer
  Scope = {"zone", "memory:read", "memory:write"}
  Privileged = {"memory:write"}
  WriteApproved = {}
  Grants <- MCGrants
  TotalSeconds = 1
  TTLs = {1}
  MaxRestarts = 1
  LedgerSurvives = TRUE
SPECIFICATION Spec
SYMMETRY ClientSymmetry
CHECK_DEADLOCK FALSE
INVARIANTS NeverDropLive HeldLeaseNotRevoked
PROPERTIES ImplementsCustody
