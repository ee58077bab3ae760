SPECIFICATION Spec
CONSTANTS
  Rigs = {rigA, rigB}
  NoRig = noRig
  MaxSessions = 1
  MaxNonces = 1
  MaxCalls = 0
  CheckRunsAlone = FALSE
SYMMETRY MCRigs
PROPERTY
  CloseWaitsForEnd
CHECK_DEADLOCK FALSE
