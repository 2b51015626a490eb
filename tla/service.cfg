CONSTANTS
  BUFFER_COUNT = 3
  None = None
  PacketLength <- FourPackets
SPECIFICATION ServiceSpec
INVARIANTS
  WireIsWhole
  SliceInRange
  HandledOnce
PROPERTIES
  LineIsChannel
  ReaderRecovers
