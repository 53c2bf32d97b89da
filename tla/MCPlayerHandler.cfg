\* An arbitrary client: any bytes, cut anywhere, leaving at any time.
CONSTANTS
  UuidSize = 1
  PayloadSize = 2
  NumRegistries = 2
  NumChunks = 2
  PacketSize = 8
  Alphabet = {0, 1, 3, 7}
  MaxNoise = 2
  Segments <- MCSegments
  Beyond <- MCBeyond
SPECIFICATION FairSpec
INVARIANT TypeOK
PROPERTIES
  ImplementsContract
  NoPacketFromZeroFill
  DeafOncePlaying
  ExecuteTerminates
CHECK_DEADLOCK FALSE
