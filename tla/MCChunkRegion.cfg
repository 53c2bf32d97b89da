SPECIFICATION Spec
CONSTANTS
  Side = 2
  Files <- MCFiles
INVARIANTS
  ChunksAtHome
PROPERTIES
  KeepsChunks
  Loads
CHECK_DEADLOCK FALSE
