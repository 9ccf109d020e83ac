CONSTANTS
  None = None
  c1 = c1
  c2 = c2
  t1 = t1
  t2 = t2
  a = a
  b = b
  nightly = nightly
  reader = reader
  Circles <- OneCircle
  Servers = {"blue"}
  ServerOf <- OnBlue
  Targets <- OneTarget
  Members <- TwoMembers
  Sources = {"log_line"}
  Windows <- OneWindow
  Deaths = {0, 600}
  QuakeTimes = {600}
  Thresholds = {1, 2}
  Clock = {700, 1600}
  MaxReports = 3
  MaxWrites = 6
  Jobs = {}
  Nightly = nightly
SPECIFICATION Spec
SYMMETRY SymmetricMembers
INVARIANTS
  RenderedIsDerived
CHECK_DEADLOCK FALSE
