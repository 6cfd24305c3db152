CONSTANTS
  Threads = {t1, t2}
  Keys = {k1, k2}
  CoalescingWindow = 1
  MaxCoalesce = 3
  MaxTime = 3
  MaxRequests = 5
SYMMETRY Symmetry
SPECIFICATION Spec
INVARIANTS
  TypeOK
  ReuseIsBacked
  StatsMatchTheCache
CHECK_DEADLOCK FALSE
