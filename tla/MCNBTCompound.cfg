SPECIFICATION Spec
CONSTANTS
  Variables = {a, b}
  Name = {"x", "y"}
  Scalar <- MCScalars
  Address = {p1, p2, p3}
SYMMETRY MCSymmetry
INVARIANTS
  OwnedOnce
PROPERTIES
  AddressesStable
  ValueSemantics
CHECK_DEADLOCK FALSE
