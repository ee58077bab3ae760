SPECIFICATION StreamSpec
CONSTANTS
  Frames = {silence, signal}
  Silence = silence
  Capacity = 3
  PrefillFrames = 2
  Periods <- MCPeriods
  ScratchFrames = 2
  MaxBlock = 2
  MaxUnderrun = 2
INVARIANTS
  StreamTypeOK
  ResetIsSafe
  DeviceOwned
  GateHolds
CHECK_DEADLOCK FALSE
