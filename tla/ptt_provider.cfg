SPECIFICATION FairSpec
CONSTANTS
  RequestLength = 2
  CallTicks = 2
  PhaseTicks = 1
  MaxTokens = 5
  MaxCalls = 2
  ServesInOrder = TRUE
INVARIANTS
  RefusedNeverKeys
  UnkeyIsFinal
PROPERTIES
  CertainIsTrue
  CallEnds
CHECK_DEADLOCK FALSE
