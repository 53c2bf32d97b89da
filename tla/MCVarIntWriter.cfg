\* Ints of every length, at every place of a buffer.
CONSTANTS
  UuidSize = 16
  PayloadSize = 8
  Width = 12
  Values <- MCValues
  Buffers <- MCBuffers
SPECIFICATION Spec
INVARIANTS
  ReadsBack
  NeverTooLong
CHECK_DEADLOCK FALSE
