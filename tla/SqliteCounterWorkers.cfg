CONSTANTS
  Workers = {w1, w2}
  Threads = {t1, t2}
  Ttl = 2
  MaxTime = 4
  MaxIncrements = 5
SYMMETRY Symmetry
SPECIFICATION Spec
INVARIANT
  EveryIncrementCounts
