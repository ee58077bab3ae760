SPECIFICATION FairSpec
CONSTANTS
  UnkeyAttempts = 2
  LeaseTicks = 2
  WaitIsAtomic = TRUE
  SourceFrames = 2
  BlockFrames = 2
  RingFrames = 1
  MaxSessions = 1
  MaxRetries = 0
  KeyWithinLease = FALSE
  RetryAlone = TRUE
  AllocationFails = TRUE
PROPERTIES
  SessionEnds
  ShutdownReturns
CHECK_DEADLOCK FALSE
