------------------------- MODULE NBTCompoundValues -------------------------
(***************************************************************************)
(* What NBTCompound promises a program that holds some of them: each is a  *)
(* value of its own, a dictionary from names to scalars and dictionaries.  *)
(* No address appears here, so nothing written through one of them can     *)
(* show in another.                                                        *)
(***************************************************************************)
EXTENDS Integers, Sequences, Functions

CONSTANTS Variables,   \* the NBTCompound variables of the program
          Name,        \* names of tags
          Scalar       \* payloads that are no compounds: [type, val]

VARIABLE value         \* value[c]: a dictionary

Empty == [n \in {} |-> n]
IsScalar(x) == "val" \in DOMAIN x

\* The compounds inside a dictionary, by the names that lead to them, and the
\* dictionary with one of them replaced.
RECURSIVE Paths(_), At(_, _), Edit(_, _, _)
Paths(t) == {<<>>} \cup UNION {{<<n>> \o path : path \in Paths(t[n])} :
                                 n \in {m \in DOMAIN t : ~IsScalar(t[m])}}
At(t, path) == IF path = <<>> THEN t ELSE At(t[Head(path)], Tail(path))
Edit(t, path, u) ==
  IF path = <<>> THEN u
  ELSE [t EXCEPT ![Head(path)] = Edit(@, Tail(path), u)]

Places == {<<c, path>> \in Variables \X UNION {Paths(value[d]) : d \in Variables} :
             path \in Paths(value[c])}
ValueAt(place) == At(value[place[1]], place[2])
Change(place, u) ==
  value' = [value EXCEPT ![place[1]] = Edit(@, place[2], u)]

\* Names a dictionary has already keep what they stand for.
Merged(t, u) == [n \in DOMAIN t \cup DOMAIN u |-> IF n \in DOMAIN t THEN t[n] ELSE u[n]]
InsertMerged(t, n, x) == Merged(t, [m \in {n} |-> x])

-----------------------------------------------------------------------------
Init == value = [c \in Variables |-> Empty]

Insert(place) ==
  \E n \in Name : \E x \in Scalar \cup {ValueAt(q) : q \in Places} :
    Change(place, InsertMerged(ValueAt(place), n, x))

\* A compound moved into another: gone where it was, even if the name was
\* taken and nothing was inserted.
InsertMoved(place) ==
  \E n \in Name, c \in Variables \ {place[1]} :
    value' = [value EXCEPT
      ![place[1]] = Edit(@, place[2], InsertMerged(ValueAt(place), n, value[c])),
      ![c] = Empty]

Remove(place) ==
  \E n \in Name : Change(place, Restrict(ValueAt(place), DOMAIN ValueAt(place) \ {n}))

\* operator=: no name is lost and none changes.
Assign(place) ==
  \E q \in Places : Change(place, Merged(ValueAt(place), ValueAt(q)))

MoveAssign(place) ==
  \E c \in Variables \ {place[1]} :
    value' = [value EXCEPT ![place[1]] = Edit(@, place[2], value[c]), ![c] = Empty]

Write(place) ==
  \E n \in {m \in DOMAIN ValueAt(place) : IsScalar(ValueAt(place)[m])}, x \in Scalar :
    /\ x.type = ValueAt(place)[n].type
    /\ Change(place, [ValueAt(place) EXCEPT ![n] = x])

Drop == \E c \in Variables : value' = [value EXCEPT ![c] = Empty]

Next ==
  \/ \E place \in Places :
       \/ Insert(place) \/ InsertMoved(place) \/ Remove(place) \/ Write(place)
       \/ Assign(place) \/ MoveAssign(place)
  \/ Drop

Spec == Init /\ [][Next]_value
=============================================================================
