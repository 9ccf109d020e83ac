CONSTANTS
  None = None
  Timers <- SmallTimers
  Thresholds = {1, 2}
  Voices <- SmallVoices
  Deaths = {0, 300, 600, 900}
  QuakeTimes = {600}
  Clock = {900, 1600, 2200}
  MaxRows = 4
  ByDeath = TRUE
SPECIFICATION Spec
INVARIANTS
  ClusterLaw
  EstimateLaw
  WithdrawnLeavesNoTrace
  UpLaw
  DoubtIsShown
  TheClockOnlyReleases
CHECK_DEADLOCK FALSE
