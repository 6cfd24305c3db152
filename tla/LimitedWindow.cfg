CONSTANTS
  Threads = {t1, t2}
  Limits = {0, 1, 2, 3}
  Window = 3
  MaxTime = 4
  MaxRequests = 3
  BaseLimit = 2
  Schedules <- TwoSchedules
  Day = 4
  Loads = {"low", "critical"}
  Interval = 3
SYMMETRY ThreadSymmetry
SPECIFICATION LimitedSpec
INVARIANTS
  LimitedTypeOK
  OvershootBoundedByThreads
  SamplesAreSpaced
  AdjustmentsAreEarned
  RulesGoRoundTheClock
PROPERTY
  RejectsOnlyAtTheLimit
CHECK_DEADLOCK FALSE
