SPECIFICATION ProcessSpec
CONSTANTS
  Clients = {c1, c2}
  Files = {"biome", "dialog", "wolf"}
  NumSlots = 2
  Registries <- MCRegistries
  Buckets = {0, 1}
INVARIANTS
  ServerTypeOK
  ReadersSeeBuilt
  Exact
PROPERTIES
  WrittenOnlyAlone
  StopCompletes
CHECK_DEADLOCK FALSE
