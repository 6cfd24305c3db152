CONSTANTS
  Threads = {t1, t2}
  Limit = 2
  Window = 3
  AdminReset = TRUE
  MaxTime = 3
  MaxRequests = 5
SPECIFICATION Spec
INVARIANTS
  NeverStricterThanIdeal
PROPERTIES
  RejectsOnlyWhenEmpty
CHECK_DEADLOCK FALSE
