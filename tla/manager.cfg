CONSTANTS
  BUFFER_COUNT = 4
  None = None
SPECIFICATION Spec
INVARIANTS
  TypeOK
  NothingStranded
  RegisterNeverFails
PROPERTY RingIsQueue
