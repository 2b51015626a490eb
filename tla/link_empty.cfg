CONSTANTS
  BUFFER_SIZE = 4
  Byte <- U8
  MaxRead = 4
  MaxScratch = 0
  MaxConsumed = 0
  Frame <- EmptyFrame
  Blocking = TRUE
  MaxFrames = 2
  MaxCuts = 0
  None = None
SPECIFICATION LinkSpec
INVARIANT PacketAfterRead
CHECK_DEADLOCK FALSE
