CONSTANTS
  Address = {0, 9, 15}
  MessageType = {0, 1, 3}
  Length = {0, 1, 42, 63, 64}
  OldByte = {0}
  Argument = {0, 9, 15, 16}
  Data <- SomeData
  BadHex = BadHex
SPECIFICATION CliSpec
INVARIANTS
  TypeOK
  FieldsReadBack
  WireIsPrefix
  DoneIsWhole
PROPERTY SendEnds
CHECK_DEADLOCK FALSE
