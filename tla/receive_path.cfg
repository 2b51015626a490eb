CONSTANTS
  BUFFER_SIZE = 5
  Byte <- U8
  MaxRead = 5
  MaxScratch = 0
  MaxConsumed = 0
  Frame <- TwoFrames
  Behind <- WholeOrCut
  MaxFrames = 2
  None = None
SPECIFICATION PathSpec
INVARIANTS
  InStep
  StopsOnlyOutOfStep
PROPERTIES
  PathIsChannel
  SyncRestores
CHECK_DEADLOCK FALSE
