SPECIFICATION FairSpec
CONSTANTS
  Frames <- MCFrames
  Silence = 0
  SignalFrames = 4
  Capacity = 3
  PrefillFrames = 1
  Periods <- MCPeriods
  ScratchFrames = 2
  MaxBlock = 2
  MaxUnderrun = 3
INVARIANTS
  PlayedOnce
  OpenUnderrunIsReported
PROPERTY
  DrainEnds
CHECK_DEADLOCK FALSE
