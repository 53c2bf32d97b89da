SPECIFICATION Spec
CONSTANTS
  Variables = {a, b}
  Payload <- MCPayloads
  Address = {p, q, r, s, t}
SYMMETRY MCSymmetry
INVARIANTS
  OwnedOnce
  Homogeneous
PROPERTIES
  ListSemantics
CHECK_DEADLOCK FALSE
