CONSTANTS
  Port = {p1, p2, p3, p4}
  BUFFER_COUNT = 3
  None = None
SPECIFICATION Spec
INVARIANTS
  TypeOK
  InUseIsHeld
  NoBufferOnlyIfCrowded
CHECK_DEADLOCK FALSE
