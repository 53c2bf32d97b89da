\* Announced sizes against written bytes.
CONSTANTS
  NumRegistries = 2
  NumChunks = 2
  NameLengths = {16, 126, 127, 128, 253, 254, 380, 381}
SPECIFICATION FramingSpec
INVARIANT Aligned
CHECK_DEADLOCK FALSE
