CONSTANTS
  None = None
  c1 = c1
  c2 = c2
  t1 = t1
  t2 = t2
  a = a
  b = b
  nightly = nightly
  reader = reader
  Circles <- OneCircle
  Servers = {"blue"}
  ServerOf <- OnBlue
  Targets <- OneTarget
  Members <- OneMember
  Sources = {"log_line"}
  Windows <- OneWindow
  Deaths = {0}
  QuakeTimes = {600}
  Thresholds = {1}
  Clock = {0, 700}
  MaxReports = 2
  MaxWrites = 3
  Jobs = {nightly}
  Nightly = nightly
SPECIFICATION Spec
INVARIANTS
  HealthyInstanceIsSilent
CHECK_DEADLOCK FALSE
