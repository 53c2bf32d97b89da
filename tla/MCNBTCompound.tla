--------------------------- MODULE MCNBTCompound ---------------------------
(* Two compounds, two names, scalars of one type with two values, and room  *)
(* for a compound to be copied into a tag with what is in it.               *)
EXTENDS NBTCompoundMeaning, TLC

MCScalars == [type : {"Byte"}, val : {0, 1}]
MCSymmetry == Permutations(Variables) \cup Permutations(Address)
=============================================================================
