--------------------------- MODULE MCVarIntWriter ---------------------------
(***************************************************************************)
(* VarIntWriter for TLC: the ints around every length of a VarInt, written *)
(* into buffers that are empty, hold a finished packet or hold bytes that  *)
(* could be taken for a part of the VarInt.                                *)
(***************************************************************************)
EXTENDS VarIntWriter

CONSTANT Width       \* how far around a boundary the values lie

Boundaries == {0, 128, 16384, 2097152, 268435456}
MCValues == {v \in UNION {(b - Width)..(b + Width) : b \in Boundaries} : v >= 0}
              \cup {MaxInt - k : k \in 0..Width}
MCBuffers == {<< >>, <<7, 1, 255>>, <<128, 128>>}
=============================================================================
