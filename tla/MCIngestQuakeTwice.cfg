CONSTANTS
  None = None
  q1 = q1
  q2 = q2
  Operations <- QuakeOnly
  Callers = {"member", "officer"}
  Keys = {"k1", "k2", "k3", "k4", "k5"}
  Facts <- AllFacts
  Kind <- KindOf
  Caller <- CallerOf
  Key <- KeyOf
  FactOf <- SaysWhat
  Needs <- Withdraws
  Officers = {"officer"}
  Requests <- OneRequest
  MaxSends = 2
  MaxFaults = 1
  MaxDay = 0
SPECIFICATION Spec
INVARIANTS
  NoDuplicateWithinTheDay
CHECK_DEADLOCK FALSE
