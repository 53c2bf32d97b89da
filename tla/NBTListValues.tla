--------------------------- MODULE NBTListValues ---------------------------
(***************************************************************************)
(* What NBTList promises a program that holds some of them: each is a      *)
(* value of its own, a sequence of payloads that are all of the one type   *)
(* the list has, if it has one.                                            *)
(***************************************************************************)
EXTENDS Integers, Sequences

CONSTANTS Variables,   \* the NBTList variables of the program
          Payload      \* what a tag may hold: [type, val]

VARIABLE value         \* value[l]: [type, items]

Unknown == "UNKNOWN"
Types == {x.type : x \in Payload}
NewList(type) == [type |-> type, items |-> <<>>]

Init == value \in [Variables -> {NewList(type) : type \in Types \cup {Unknown}}]

Insert(l) ==
  \E x \in Payload :
    /\ value[l].type \in {Unknown, x.type}
    /\ value' = [value EXCEPT ![l] = [type |-> x.type, items |-> Append(@.items, x)]]

\* A list assigned to itself is empty afterwards, and keeps its type.
Assign(l) ==
  \E m \in Variables :
    value' = [value EXCEPT ![l] = IF l = m THEN NewList(@.type) ELSE value[m]]

\* The list moved from is empty afterwards, and keeps its type.
MoveAssign(l) ==
  \E m \in Variables \ {l} :
    value' = [value EXCEPT ![l] = value[m], ![m] = NewList(@.type)]

Write(l) ==
  \E i \in DOMAIN value[l].items, x \in Payload :
    /\ x.type = value[l].type
    /\ value' = [value EXCEPT ![l].items[i] = x]

Renew(l) ==
  \E type \in Types \cup {Unknown} : value' = [value EXCEPT ![l] = NewList(type)]

Next == \E l \in Variables : Insert(l) \/ Assign(l) \/ MoveAssign(l) \/ Write(l) \/ Renew(l)

Spec == Init /\ [][Next]_value
=============================================================================
