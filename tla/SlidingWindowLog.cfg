CONSTANTS
  Threads = {t1, t2, t3}
  Limit = 1
  Window = 2
  MaxTime = 4
  MaxRequests = 7
SYMMETRY ThreadSymmetry
SPECIFICATION Spec
INVARIANTS
  WindowBoundedByThreads
  RemovalKeepsTheWindow
CHECK_DEADLOCK FALSE
