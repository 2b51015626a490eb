CONSTANTS
  Want = 2
  MaxChunk = 4
  MaxBytes = 7
SPECIFICATION Spec
INVARIANTS
  TypeOK
  BytesInOrder
  TailOnlyOfLongChunk
PROPERTY AllButATail
CHECK_DEADLOCK FALSE
