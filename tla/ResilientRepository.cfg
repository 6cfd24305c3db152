CONSTANTS
  Threads = {t1, t2, t3}
  Client = t1
  FailureThreshold = 2
  RecoveryTimeout = 2
  SuccessThreshold = 2
  Limit = 2
  MaxAttempts = 3
SPECIFICATION FairRepositorySpec
INVARIANTS
  RepositoryTypeOK
  CountersMatchState
  FailOpenIsBounded
PROPERTIES
  OpeningsAreSpaced
  ClosesAfterEnoughSuccesses
  RejectionsAreEarned
  RecoversWithBackend
