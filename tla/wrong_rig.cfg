SPECIFICATION Spec
CONSTANTS
  Rigs = {rigA, rigB}
  NoRig = noRig
  MaxSessions = 1
  MaxNonces = 1
  MaxCalls = 2
  CheckRunsAlone = TRUE
SYMMETRY MCRigs
PROPERTY
  RetryUnkeysCheckedRig
CHECK_DEADLOCK FALSE
