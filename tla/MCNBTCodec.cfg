SPECIFICATION CodecSpec
CONSTANTS
  Streams <- MCStreams
  MaxArray = 3
  Documents <- MCDocuments
  Payloads <- MCPayloads
  Depth <- MCDepth
  Root <- MCRoot
  Torn <- MCShort
INVARIANTS
  ParserTypeOK
  AsAnnounced
  RoundTrip
  TruncationIsLocal
PROPERTIES
  Progresses
  Ends
CHECK_DEADLOCK FALSE
