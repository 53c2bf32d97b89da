SPECIFICATION LightSpec
CONSTANTS
  Sections = {0, 1, 24, 29, 30, 33, 61, 62, 93, 94}
INVARIANTS
  LightFindsHome
CHECK_DEADLOCK FALSE
