CONSTANTS
  Workers = {w1, w2}
  Settings <- Baz
  Environment <- FooOnly
  Values = {v1}
  Bad = Bad
  Default = Default
  Unconfigured = Unconfigured
  Unset = Unset
  Missing = Missing
  Empty = Empty
  Garbage = Garbage
  MaxUpdates = 2
SYMMETRY WorkerSymmetry
SPECIFICATION Spec
INVARIANTS
  TypeOK
  CacheShowsWhatRuns
  LimitsHaveAnAlgorithm
PROPERTY
  RestartsFromAnAcceptedUpdate
