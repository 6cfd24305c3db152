CONSTANTS
  Threads = {t1, t2}
  Clients = {c1, c2}
  Configured = {c1}
  Costs = {1, 2}
  Limit = 2
  Window = 1
  Tiers = {1}
  Multipliers = {4, 12}
  PoolLimit = 4
  PoolWindow = 1
  CoalescingWindow = 0
  MaxCoalesce = 2
  MaxTime = 1
  MaxRequests = 3
  MaxResets = 1
SYMMETRY ThreadSymmetry
SPECIFICATION Spec
INVARIANTS
  TypeOK
  UnitsArePaid
  AdmissionsAreBacked
  EveryAnswerIsCounted
PROPERTY
  ShadowLeavesNoTrace
CHECK_DEADLOCK FALSE
