CONSTANTS
  BUFFER_SIZE = 5
  Byte = {0, 3, 4}
  MaxRead = 2
  MaxScratch = 1
  MaxConsumed = 6
SPECIFICATION Spec
INVARIANTS
  TypeOK
  HeldIsStreamSuffix
  DeliveredIsFrame
PROPERTY ReadReturns
CHECK_DEADLOCK FALSE
