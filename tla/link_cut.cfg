CONSTANTS
  BUFFER_SIZE = 7
  Byte <- U8
  MaxRead = 7
  MaxScratch = 0
  MaxConsumed = 0
  Frame <- CutFrames
  Blocking = TRUE
  MaxFrames = 2
  MaxCuts = 2
  None = None
SPECIFICATION LinkSpec
INVARIANT PanicsOnlyByCut
PROPERTIES
  LinkNeverGarbles
  FramesArrive
CHECK_DEADLOCK FALSE
