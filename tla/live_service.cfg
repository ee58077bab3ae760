SPECIFICATION Spec
CONSTANTS
  Rigs = {rigA, rigB}
  NoRig = noRig
  MaxSessions = 2
  MaxNonces = 2
  MaxCalls = 1
  CheckRunsAlone = FALSE
SYMMETRY MCRigs
INVARIANTS
  TypeOK
  StopReachesSession
  ShutdownIsFinal
PROPERTIES
  ConfirmedIsSent
  HazardIsKept
CHECK_DEADLOCK FALSE
