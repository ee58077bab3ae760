SPECIFICATION Spec
CONSTANTS
  UnkeyAttempts = 1
  LeaseTicks = 1
  WaitIsAtomic = TRUE
  SourceFrames = 1
  BlockFrames = 1
  RingFrames = 1
  MaxSessions = 1
  MaxRetries = 0
  KeyWithinLease = FALSE
  RetryAlone = TRUE
  AllocationFails = FALSE
INVARIANT
  EndsUnkeyedOrHazard
CHECK_DEADLOCK FALSE
