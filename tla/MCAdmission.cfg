CONSTANTS
  None = None
  p1 = p1
  p2 = p2
  c1 = c1
  c2 = c2
  k1 = k1
  k2 = k2
  q1 = q1
  q2 = q2
  People = {p1, p2}
  Guilds = {"guild"}
  Circles = {c1, c2}
  Providers = {"discord", "local"}
  Verifiable = {"discord"}
  Gated = {"discord"}
  Blocked = {}
  Keys = {k1, k2}
  Requests = {q1, q2}
  MaxMembers = 3
  MaxCodes = 2
  MaxTokens = 3
  MaxWrites = 3
  MaxTurns = 1
  Named = {3, 4}
SPECIFICATION Spec
SYMMETRY Symmetric
INVARIANTS
  TypeOK
  UsesAreCounted
  AlwaysAnOwner
  ARetryAddsNothing
PROPERTIES
  AdmittedByTheLiveRules
  SealedCodesStaySealed
  OwnershipIsHandedOn
  OneFirstAdministrator
CHECK_DEADLOCK FALSE
