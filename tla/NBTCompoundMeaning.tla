------------------------- MODULE NBTCompoundMeaning -------------------------
(***************************************************************************)
(* The compounds of NBTCompound as the values they stand for, and that     *)
(* they behave as NBTCompoundValues says.                                  *)
(***************************************************************************)
EXTENDS NBTCompound

\* As values: each compound is what the calls on it made of it, whatever is
\* done to the others, to copies and through references.
Value == LET value[p \in Place] ==
               [n \in DOMAIN tree[p] |-> IF tag[tree[p][n]].payload = Compound
                                           THEN value[tree[p][n]]
                                           ELSE tag[tree[p][n]].payload]
         IN  value
Values == INSTANCE NBTCompoundValues WITH value <- [c \in Variables |-> Value[c]]
ValueSemantics == Values!Spec
=============================================================================
