SPECIFICATION PositionSpec
CONSTANTS
  Wide = 8
  Narrow = 4
  Xs <- MCXs
  Ys <- MCYs
INVARIANTS
  CoordinatesKept
CHECK_DEADLOCK FALSE
