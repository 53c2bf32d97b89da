------------------------------- MODULE NBTList -------------------------------
(***************************************************************************)
(* NBTList as it lies in memory: a vector of owned pointers to tags, each  *)
(* tag allocated on its own, and the type that all of them are to have.  A *)
(* program holds some lists and the last reference it was handed out, and  *)
(* calls the operations in any order.  Addresses are reused.               *)
(***************************************************************************)
EXTENDS Integers, Sequences, Functions

CONSTANTS Variables, Payload,    \* as in NBTListValues
          Address                \* places a tag can be allocated at; a bound on the tags

Free == [type |-> "free"]
Unknown == "UNKNOWN"
ASSUME PayloadAssumption == Free \notin Payload /\ \A x \in Payload : x.type # Unknown
Types == {x.type : x \in Payload}

VARIABLES
  tag,        \* tag[a]: the payload of the NBTUnnamedTag at a, or Free
  elements,   \* elements[l]: m_objectsList
  tagsType,   \* tagsType[l]: m_tagsType
  ref         \* where the reference held by the program leads

vars == <<tag, elements, tagsType, ref>>

NoRef == "nothing"
Dangling == "a freed tag"
ASSUME AddressAssumption == NoRef \notin Address /\ Dangling \notin Address

Available == {a \in Address : tag[a] = Free}

\* The reference held, after the tags in gone were freed.
StillRef(gone) == ref' = IF ref \in gone THEN Dangling ELSE ref
Freed(gone) == [a \in Address |-> IF a \in gone THEN Free ELSE tag[a]]

-----------------------------------------------------------------------------
\* Both constructors: NBTList() and NBTList(type).
Init ==
  /\ tag = [a \in Address |-> Free]
  /\ elements = [l \in Variables |-> <<>>]
  /\ tagsType \in [Variables -> Types \cup {Unknown}]
  /\ ref = NoRef

\* All four overloads of Insert, for callers that heed the assertion on the
\* type.  The vector may grow: its pointers move, the tags do not.
TypeAfterInsertUnsetMutant(l, x) == tagsType[l]         \* the type never set
TypeAfterInsert(l, x) == IF tagsType[l] = Unknown THEN x.type ELSE tagsType[l]
Insert(l) ==
  \E x \in Payload, new \in Available :
    /\ tagsType[l] \in {Unknown, x.type}
    /\ tagsType' = [tagsType EXCEPT ![l] = TypeAfterInsert(l, x)]
    /\ tag' = [tag EXCEPT ![new] = x]
    /\ elements' = [elements EXCEPT ![l] = Append(@, new)]
    /\ ref' = new

\* Assign(other), of the copy constructor and operator=: the old elements are
\* gone before the first of the other's is cloned, which are none by then if
\* both are one list.
Clones(l, m) == Injection(DOMAIN elements[m], Available \cup Range(elements[l]))
Original(m, clones, a) == elements[m][CHOOSE i \in DOMAIN clones : clones[i] = a]
AssignAliasedMutant(l, m) ==            \* the pointers copied
  /\ tagsType' = [tagsType EXCEPT ![l] = tagsType[m]]
  /\ elements' = [elements EXCEPT ![l] = elements[m]]
  /\ tag' = Freed(Range(elements[l]) \ Range(elements[m]))
  /\ StillRef(Range(elements[l]) \ Range(elements[m]))
Assign(l, m) ==
  /\ tagsType' = [tagsType EXCEPT ![l] = tagsType[m]]
  /\ IF l = m
       THEN /\ elements' = [elements EXCEPT ![l] = <<>>]
            /\ tag' = Freed(Range(elements[l]))
       ELSE \E clones \in Clones(l, m) :
              /\ elements' = [elements EXCEPT ![l] = clones]
              /\ tag' = [a \in Address |->
                           IF a \in Range(clones) THEN tag[Original(m, clones, a)]
                           ELSE Freed(Range(elements[l]))[a]]
  /\ StillRef(Range(elements[l]))

\* operator=(NBTList&&) = default: the type is an enum, so it is only copied.
MoveAssign(l, m) ==
  /\ l # m
  /\ tagsType' = [tagsType EXCEPT ![l] = tagsType[m]]
  /\ elements' = [elements EXCEPT ![l] = elements[m], ![m] = <<>>]
  /\ tag' = Freed(Range(elements[l]))
  /\ StillRef(Range(elements[l]))

\* At(pos), operator[](pos) within bounds.
Get(l) ==
  /\ \E i \in DOMAIN elements[l] : ref' = elements[l][i]
  /\ UNCHANGED <<tag, elements, tagsType>>

\* ref.Get() = value
Write ==
  /\ ref \in Address
  /\ \E x \in Payload : /\ x.type = tag[ref].type
                        /\ tag' = [tag EXCEPT ![ref] = x]
  /\ UNCHANGED <<elements, tagsType, ref>>

\* A list goes out of scope and a new one takes its place.
Renew(l) ==
  /\ tag' = Freed(Range(elements[l]))
  /\ elements' = [elements EXCEPT ![l] = <<>>]
  /\ \E type \in Types \cup {Unknown} : tagsType' = [tagsType EXCEPT ![l] = type]
  /\ StillRef(Range(elements[l]))

Next ==
  \/ \E l \in Variables : Insert(l) \/ Get(l) \/ Renew(l)
  \/ \E l, m \in Variables : Assign(l, m) \/ MoveAssign(l, m)
  \/ Write

Spec == Init /\ [][Next]_vars

-----------------------------------------------------------------------------
ListTypeOK ==
  /\ tag \in [Address -> Payload \cup {Free}]
  /\ elements \in [Variables -> Seq(Address)]
  /\ tagsType \in [Variables -> Types \cup {Unknown}]
  /\ ref \in {NoRef, Dangling} \cup Address

\* Ownership: the tags that are there are the elements of the lists, each owned
\* once, by one list at one place, none leaked and none freed too early; and a
\* reference that was not invalidated leads to one of them.
OwnedOnce ==
  /\ ListTypeOK
  /\ \A a \in Address : tag[a] # Free => \E l \in Variables : a \in Range(elements[l])
  /\ \A l \in Variables : \A i \in DOMAIN elements[l] : tag[elements[l][i]] # Free
  /\ \A l, m \in Variables : \A i \in DOMAIN elements[l], j \in DOMAIN elements[m] :
       elements[l][i] = elements[m][j] => l = m /\ i = j
  /\ ref \in Address => tag[ref] # Free

\* Every element has the type of its list: the serializer writes the type of
\* the list once, and a reader reads every element by it.
Homogeneous ==
  \A l \in Variables : \A i \in DOMAIN elements[l] :
    tag[elements[l][i]].type = tagsType[l]

\* As values: each list is what the calls on it made of it, whatever is done
\* to the others, to copies and through references.
Values == INSTANCE NBTListValues WITH
  value <- [l \in Variables |->
              [type |-> tagsType[l],
               items |-> [i \in DOMAIN elements[l] |-> tag[elements[l][i]]]]]
ListSemantics == Values!Spec
=============================================================================
