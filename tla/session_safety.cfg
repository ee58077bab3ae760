SPECIFICATION Spec
CONSTANTS
  UnkeyAttempts = 2
  LeaseTicks = 1
  WaitIsAtomic = FALSE
  SourceFrames = 2
  BlockFrames = 1
  RingFrames = 1
  MaxSessions = 2
  MaxRetries = 1
  KeyWithinLease = TRUE
  RetryAlone = TRUE
  AllocationFails = TRUE
INVARIANTS
  TypeOK
  KeyedMeansHazard
  CleanExit
  CompletedMeansAired
  StrayOnlyAfterExpiry
  StopWins
PROPERTY
  KeepsContract
CHECK_DEADLOCK FALSE
