----------------------------- MODULE MCNBTList -----------------------------
(* Payloads of two types, one with two values.                              *)
EXTENDS NBTList, TLC

MCPayloads == {[type |-> "Byte", val |-> 0], [type |-> "Byte", val |-> 1],
               [type |-> "Int", val |-> 0]}
MCSymmetry == Permutations(Variables) \cup Permutations(Address)
=============================================================================
