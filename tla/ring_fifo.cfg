SPECIFICATION Spec
CONSTANTS
  Capacity = 3
  Samples = {silence, signal}
  Silence = silence
  MaxBlock = 4
  MaxPosition = 8
INVARIANT
  TypeOK
PROPERTY
  IsFifo
CHECK_DEADLOCK FALSE
