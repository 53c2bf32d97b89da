------------------------------- MODULE Position -------------------------------
(***************************************************************************)
(* mc::Position (include/DataTypes/Position.h): three coordinates packed   *)
(* into one 64-bit number, and setters that read two of them back to pack  *)
(* them again with the third.                                              *)
(***************************************************************************)
EXTENDS Integers

CONSTANTS Wide,     \* values of the field of X, and of Z (2^26)
          Narrow,   \* values of the field of Y (2^12)
          Xs, Ys    \* what the program may set X and Z to, and Y

ASSUME WideAssumption == Wide \in Nat \ {0} /\ Wide % 2 = 0
ASSUME NarrowAssumption == Narrow \in Nat \ {0} /\ Narrow % 2 = 0
ASSUME CoordinatesAssumption == Xs \subseteq Int /\ Ys \subseteq Int

VARIABLES m_positions,
          set            \* what the program last set each coordinate to

positionVars == <<m_positions, set>>

\* value & BITS: of a negative one its two's complement.
Masked(v, size) == v % size

\* ((x & XBITS) << 38) | ((z & ZBITS) << 12) | (y & YBITS)
PackMutant(x, z, y) ==                       \* z not masked
  Masked(x, Wide) * (Wide * Narrow) + z * Narrow + Masked(y, Narrow)
Pack(x, z, y) ==
  Masked(x, Wide) * (Wide * Narrow) + Masked(z, Wide) * Narrow + Masked(y, Narrow)

\* A shift to the right fills with the sign bit of the field.
Extended(field, size) == IF 2 * field < size THEN field ELSE field - size

GetX(p) == Extended((p \div Narrow) \div Wide, Wide)
GetZ(p) == Extended((p \div Narrow) % Wide, Wide)
GetY(p) == Extended(p % Narrow, Narrow)

-----------------------------------------------------------------------------
\* The assertions of Assign, the only check there is.
XBITS == Wide - 1
YBITS == Narrow - 1
Accepted(x, z, y) == x <= XBITS /\ z <= XBITS /\ y <= YBITS

PositionInit ==
  \E x, z \in Xs, y \in Ys :
    /\ Accepted(x, z, y)
    /\ m_positions = Pack(x, z, y)
    /\ set = [x |-> x, z |-> z, y |-> y]

Assign(x, z, y) ==
  /\ Accepted(x, z, y)
  /\ m_positions' = Pack(x, z, y)
  /\ set' = [x |-> x, z |-> z, y |-> y]

SetX(x) ==
  /\ Accepted(x, GetZ(m_positions), GetY(m_positions))
  /\ m_positions' = Pack(x, GetZ(m_positions), GetY(m_positions))
  /\ set' = [set EXCEPT !.x = x]

SetZ(z) ==
  /\ Accepted(GetX(m_positions), z, GetY(m_positions))
  /\ m_positions' = Pack(GetX(m_positions), z, GetY(m_positions))
  /\ set' = [set EXCEPT !.z = z]

SetY(y) ==
  /\ Accepted(GetX(m_positions), GetZ(m_positions), y)
  /\ m_positions' = Pack(GetX(m_positions), GetZ(m_positions), y)
  /\ set' = [set EXCEPT !.y = y]

PositionNext ==
  \/ \E x, z \in Xs, y \in Ys : Assign(x, z, y)
  \/ \E x \in Xs : SetX(x) \/ SetZ(x)
  \/ \E y \in Ys : SetY(y)

PositionSpec == PositionInit /\ [][PositionNext]_positionVars

-----------------------------------------------------------------------------
\* What a field can hold: half of its values below zero.
Holds(v, size) == -size <= 2 * v /\ 2 * v < size

\* A coordinate that its field can hold is read back as it was set, by Assign
\* or by its setter, whatever the other two were set to before and since, a
\* value their own fields cannot hold included.
CoordinatesKept ==
  /\ Holds(set.x, Wide) => GetX(m_positions) = set.x
  /\ Holds(set.z, Wide) => GetZ(m_positions) = set.z
  /\ Holds(set.y, Narrow) => GetY(m_positions) = set.y
=============================================================================
