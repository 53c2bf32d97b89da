\* Well behaved clients whose bytes spell no packet id, on a network that may
\* join packets and cut one of them in two.
CONSTANTS
  UuidSize = 16
  PayloadSize = 8
  NumRegistries = 2
  NumChunks = 2
  PacketSize = 60
  Segments <- NoSegments
  Beyond <- OnlyZero
  Clients <- MCClients
  MayJoin = TRUE
  MaxTears = 1
  MaxInbox = 3
SPECIFICATION SessionSpec
INVARIANTS
  SessionTypeOK
  ClientUnderstands
  OldBytesIgnored
  ServerFollowsClient
PROPERTIES
  ClientServed
  LeaverReleased
CHECK_DEADLOCK FALSE
