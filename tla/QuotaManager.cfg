CONSTANTS
  Clients = {c1, c2}
  Pools = {p1, p2}
  NoPool = NoPool
  Limits <- LimitOfTwo
  PoolWindow = 2
  Costs = {1, 2}
  MaxTime = 3
  MaxGrants = 9
  MaxRenewals = 1
SYMMETRY Symmetry
SPECIFICATION QuotaSpec
INVARIANTS
  QuotaTypeOK
  GrantsBounded
CHECK_DEADLOCK FALSE
