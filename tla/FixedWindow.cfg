CONSTANTS
  Threads = {t1, t2}
  Limit = 2
  Window = 2
  MaxTime = 5
  MaxRequests = 6
SYMMETRY ThreadSymmetry
SPECIFICATION Spec
INVARIANTS
  TypeOK
  EntryOutlivesItsWindow
  OnTimeWithinLimit
  RejectionsAreEarned
  OverrunBoundedByThreads
CHECK_DEADLOCK FALSE
