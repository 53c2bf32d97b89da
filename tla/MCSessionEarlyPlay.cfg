\* One packet may arrive in two parts: the server acts on a packet that the
\* client has not sent.
CONSTANTS
  UuidSize = 16
  PayloadSize = 8
  NumRegistries = 2
  NumChunks = 2
  PacketSize = 60
  Segments <- NoSegments
  Beyond <- OnlyZero
  Clients <- OneClient
  MayJoin = FALSE
  MaxTears = 1
  MaxInbox = 3
SPECIFICATION SessionSpec
INVARIANT PlayAfterAck
CHECK_DEADLOCK FALSE
