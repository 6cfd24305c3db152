\* Calls one after the other, of any duration.
CONSTANTS
  Threads = {t1}
  Limit = 2
  Window = 3
  AdminReset = FALSE
  MaxTime = 6
  MaxRequests = 6
SPECIFICATION Spec
INVARIANTS
  TypeOK
  BurstWithinCapacity
PROPERTIES
  ImplementsRateBucket
  RetryAfterSuffices
CHECK_DEADLOCK FALSE
