CONSTANTS
  None = None
  alice = alice
  bob = bob
  q1 = q1
  q2 = q2
  People = {alice, bob}
  Requests = {q1, q2}
  FlowTTL = 2
  TicketTTL = 1
  Sensitive = 1
  SessionTTL = 2
  Grace = 1
  MaxNow = 4
  MaxFlows = 2
  MaxSessions = 2
  MaxChanges = 1
  Values = {"off", "on"}
  Initial = "off"
  MaxSwitch = 2
  MaxSettingChanges = 2
  MaxDecisions = 2
  MaxTicks = 1
  MaxSetups = 1
  Spellings = {"vulak", "vulakaerr", "va"}
  MaxTargets = 3
  MaxWrites = 2
  MaxSeeds = 2
  Kids = {"k1", "k2"}
  KeyTTL = 3
  MinRefresh = 2
  FetchTimeout = 2
  MaxKeyNow = 6
  MaxRotations = 2
  Callers = {"c1", "c2", "c3"}
  Burst = 2
  Refill = 2
  MaxKeys = 2
  MaxMeterNow = 4
  MaxMillis = 2
  MaxEntropy = 2
  MaxMinted = 5
SPECIFICATION OneOf
SYMMETRY Symmetric
INVARIANTS
  RowsAreTyped
  OneProofPerAuthorization
  ProofIsTheMembers
  SessionsAreDated
  SignedOutStaysOut
  TagsDoNotRepeat
  CurrentIsTheLatest
  ExactIsNeverOutranked
  SeedsMayBeRunAgain
  KeysAreCurrent
  BurstIsKept
  IdsRise
PROPERTIES
  NothingUnseenIsReplaced
CHECK_DEADLOCK FALSE
