CONSTANTS
  None = None
  c1 = c1
  c2 = c2
  t1 = t1
  t2 = t2
  a = a
  b = b
  nightly = nightly
  reader = reader
  Circles <- TwoCircles
  Servers = {"blue"}
  ServerOf <- OnBlue
  Targets <- OneTarget
  Members <- OneMember
  Sources = {"log_line"}
  Windows <- OneWindow
  Deaths = {0}
  QuakeTimes = {600}
  Thresholds = {1, 2}
  Clock = {300, 700}
  MaxReports = 2
  MaxWrites = 4
  Jobs = {reader}
  Nightly = nightly
SPECIFICATION Spec
SYMMETRY Symmetric
INVARIANTS
  TypeOK
  CacheNeverInvents
PROPERTIES
  OnlyKnownDoors
  TimerMoveRecomputes
  NoFalseTimerChange
  TombstoneStaysOff
CHECK_DEADLOCK FALSE
