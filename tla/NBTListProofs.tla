---------------------------- MODULE NBTListProofs ----------------------------
(***************************************************************************)
(* Lists of tags own what they hold, hold tags of one type, and implement  *)
(* the values they are to be (NBTList), for any lists, payloads and memory. *)
(***************************************************************************)
EXTENDS NBTList, TLAPS

IInv == OwnedOnce /\ Homogeneous

\* What a list of the heap is as a value.
ValueOf(l) ==
  [type |-> tagsType[l],
   items |-> [i \in DOMAIN elements[l] |-> tag[elements[l][i]]]]

\* An element is an address, with the payload of its type there.
LEMMA Elements ==
  ASSUME IInv, NEW l \in Variables, NEW i \in DOMAIN elements[l]
  PROVE  /\ elements[l] \in Seq(Address)
         /\ elements[l][i] \in Address
         /\ tag[elements[l][i]] \in Payload
         /\ tag[elements[l][i]].type = tagsType[l]
         /\ elements[l][i] \notin Available
<1>1. elements[l] \in Seq(Address) /\ elements[l][i] \in Address
  BY DEF IInv, OwnedOnce, ListTypeOK
<1> QED
  BY <1>1 DEF IInv, OwnedOnce, ListTypeOK, Homogeneous, Available

\* Two elements at one address are one element.
LEMMA Once ==
  ASSUME IInv, NEW l \in Variables, NEW m \in Variables,
         NEW i \in DOMAIN elements[l], NEW j \in DOMAIN elements[m],
         elements[l][i] = elements[m][j]
  PROVE  l = m /\ i = j
  BY DEF IInv, OwnedOnce

\* The elements of a list without type are none.
LEMMA UnknownEmpty ==
  ASSUME IInv, NEW l \in Variables, tagsType[l] = Unknown
  PROVE  elements[l] = <<>>
<1>1. \A i \in DOMAIN elements[l] : FALSE
  BY Elements, PayloadAssumption
<1> QED
  BY <1>1 DEF IInv, OwnedOnce, ListTypeOK

-----------------------------------------------------------------------------
\* Empty lists own nothing, and nothing is allocated.
LEMMA InitInv == Init => IInv
<1> SUFFICES ASSUME Init PROVE IInv
  OBVIOUS
<1>1. ListTypeOK
  BY DEF Init, ListTypeOK
<1>2. OwnedOnce
  BY <1>1, AddressAssumption DEF Init, OwnedOnce
<1>3. Homogeneous
  BY DEF Init, Homogeneous
<1> QED
  BY <1>2, <1>3 DEF IInv

\* A new tag is owned by the list it was inserted into, at its end.
LEMMA InsertInv == ASSUME IInv, NEW l \in Variables, Insert(l) PROVE IInv'
<1>1. PICK x \in Payload, new \in Available :
        /\ tagsType[l] \in {Unknown, x.type}
        /\ tagsType' = [tagsType EXCEPT ![l] = TypeAfterInsert(l, x)]
        /\ tag' = [tag EXCEPT ![new] = x]
        /\ elements' = [elements EXCEPT ![l] = Append(@, new)]
        /\ ref' = new
  BY DEF Insert
<1>2. new \in Address /\ tag[new] = Free
  BY DEF Available
<1>3. ListTypeOK
  BY DEF IInv, OwnedOnce
<1>4. x.type \in Types /\ TypeAfterInsert(l, x) = x.type
  BY <1>1 DEF Types, TypeAfterInsert
<1>5. ListTypeOK'
  BY <1>1, <1>2, <1>3, <1>4 DEF ListTypeOK
<1> DEFINE last == Len(elements[l]) + 1
<1>6. /\ elements[l] \in Seq(Address)
      /\ elements'[l] = Append(elements[l], new)
      /\ \A m \in Variables \ {l} : elements'[m] = elements[m]
  BY <1>1, <1>3 DEF ListTypeOK
<1>7. /\ DOMAIN elements'[l] = DOMAIN elements[l] \cup {last}
      /\ last \notin DOMAIN elements[l]
      /\ elements'[l][last] = new
      /\ \A i \in DOMAIN elements[l] : elements'[l][i] = elements[l][i]
  BY <1>6
<1> HIDE DEF last
<1>8. \A m \in Variables : \A i \in DOMAIN elements'[m] :
        \/ m = l /\ i = last /\ elements'[m][i] = new
        \/ i \in DOMAIN elements[m] /\ elements'[m][i] = elements[m][i]
  BY <1>6, <1>7
<1>9. \A m \in Variables : \A i \in DOMAIN elements[m] : elements[m][i] # new
  BY <1>2, Elements
<1>10. \A a \in Address : tag'[a] # Free => \E m \in Variables : a \in Range(elements'[m])
  <2> SUFFICES ASSUME NEW a \in Address, tag'[a] # Free
               PROVE  \E m \in Variables : \E i \in DOMAIN elements'[m] : elements'[m][i] = a
    BY DEF Range
  <2>1. CASE a = new
    BY <2>1, <1>7
  <2>2. CASE a # new
    <3>1. PICK m \in Variables : \E i \in DOMAIN elements[m] : elements[m][i] = a
      BY <2>2, <1>1, <1>2, <1>3 DEF IInv, OwnedOnce, ListTypeOK, Range
    <3> QED
      BY <3>1, <1>6, <1>7
  <2> QED
    BY <2>1, <2>2
<1>11. \A m \in Variables : \A i \in DOMAIN elements'[m] :
         /\ tag'[elements'[m][i]] # Free
         /\ tag'[elements'[m][i]].type = tagsType'[m]
  <2> SUFFICES ASSUME NEW m \in Variables, NEW i \in DOMAIN elements'[m]
               PROVE  /\ tag'[elements'[m][i]] # Free
                      /\ tag'[elements'[m][i]].type = tagsType'[m]
    OBVIOUS
  <2>1. CASE m = l /\ i = last /\ elements'[m][i] = new
    BY <2>1, <1>1, <1>2, <1>3, <1>4, PayloadAssumption DEF ListTypeOK
  <2>2. CASE i \in DOMAIN elements[m] /\ elements'[m][i] = elements[m][i]
    <3>1. /\ elements[m][i] # new /\ elements[m][i] \in Address
          /\ tag[elements[m][i]] \in Payload
          /\ tag[elements[m][i]].type = tagsType[m]
      BY <2>2, <1>9, Elements
    <3>2. tag'[elements[m][i]] = tag[elements[m][i]]
      BY <3>1, <1>1, <1>3 DEF ListTypeOK
    <3>3. tagsType'[m] = tagsType[m]
      <4>1. CASE m = l
        <5>1. tagsType[l] # Unknown
          BY <2>2, <4>1, <3>1, PayloadAssumption
        <5> QED
          BY <5>1, <4>1, <1>1, <1>3 DEF ListTypeOK, TypeAfterInsert
      <4>2. CASE m # l
        BY <4>2, <1>1, <1>3 DEF ListTypeOK
      <4> QED
        BY <4>1, <4>2
    <3> QED
      BY <2>2, <3>1, <3>2, <3>3, PayloadAssumption
  <2> QED
    BY <2>1, <2>2, <1>8
<1>12. \A m, n \in Variables : \A i \in DOMAIN elements'[m], j \in DOMAIN elements'[n] :
         elements'[m][i] = elements'[n][j] => m = n /\ i = j
  BY <1>8, <1>9, Once
<1>13. ref' \in Address => tag'[ref'] # Free
  BY <1>1, <1>2, <1>3, PayloadAssumption DEF ListTypeOK
<1> QED
  BY <1>5, <1>10, <1>11, <1>12, <1>13 DEF IInv, OwnedOnce, Homogeneous

\* Freeing the elements of a list leaves those of the others alone.
LEMMA FreedRest ==
  ASSUME IInv, NEW l \in Variables
  PROVE  /\ Freed(Range(elements[l])) \in [Address -> Payload \cup {Free}]
         /\ \A m \in Variables \ {l} : \A i \in DOMAIN elements[m] :
              /\ elements[m][i] \notin Range(elements[l])
              /\ Freed(Range(elements[l]))[elements[m][i]] = tag[elements[m][i]]
         /\ \A a \in Address : Freed(Range(elements[l]))[a] # Free =>
              \E m \in Variables \ {l} : a \in Range(elements[m])
<1>1. ListTypeOK
  BY DEF IInv, OwnedOnce
<1>2. Freed(Range(elements[l])) \in [Address -> Payload \cup {Free}]
  BY <1>1 DEF Freed, ListTypeOK
<1>3. ASSUME NEW m \in Variables \ {l}, NEW i \in DOMAIN elements[m]
      PROVE  /\ elements[m][i] \notin Range(elements[l])
             /\ Freed(Range(elements[l]))[elements[m][i]] = tag[elements[m][i]]
  <2>1. elements[m][i] \in Address
    BY <1>3, Elements
  <2>2. elements[m][i] \notin Range(elements[l])
    BY <1>3, Once DEF Range
  <2> QED
    BY <2>1, <2>2 DEF Freed
<1>4. ASSUME NEW a \in Address, Freed(Range(elements[l]))[a] # Free
      PROVE  \E m \in Variables \ {l} : a \in Range(elements[m])
  BY <1>4 DEF Freed, IInv, OwnedOnce
<1> QED
  BY <1>2, <1>3, <1>4

\* A reference to a tag that was freed is known not to lead anywhere.
LEMMA RefAfterFreeing ==
  ASSUME IInv, NEW l \in Variables, StillRef(Range(elements[l]))
  PROVE  /\ ref' \in {NoRef, Dangling} \cup Address
         /\ ref' \in Address =>
              \E m \in Variables \ {l} : ref' \in Range(elements[m])
<1>1. ref' \in {NoRef, Dangling} \cup Address
  BY DEF StillRef, IInv, OwnedOnce, ListTypeOK
<1>2. ASSUME ref' \in Address PROVE \E m \in Variables \ {l} : ref' \in Range(elements[m])
  <2>1. ref' = ref /\ ref \notin Range(elements[l])
    BY <1>2, AddressAssumption DEF StillRef
  <2> QED
    BY <1>2, <2>1 DEF IInv, OwnedOnce
<1> QED
  BY <1>1, <1>2

\* A list that is emptied: assigned to itself, or gone and a new one in its place.
LEMMA EmptiedInv ==
  ASSUME IInv, NEW l \in Variables,
         elements' = [elements EXCEPT ![l] = <<>>],
         tag' = Freed(Range(elements[l])),
         NEW type \in Types \cup {Unknown},
         tagsType' = [tagsType EXCEPT ![l] = type],
         StillRef(Range(elements[l]))
  PROVE  IInv'
<1>1. ListTypeOK
  BY DEF IInv, OwnedOnce
<1>2. ListTypeOK'
  BY <1>1, FreedRest, RefAfterFreeing DEF ListTypeOK
<1>3. /\ elements'[l] = <<>>
      /\ \A m \in Variables \ {l} : elements'[m] = elements[m] /\ tagsType'[m] = tagsType[m]
  BY <1>1 DEF ListTypeOK
<1>4. \A m \in Variables : \A i \in DOMAIN elements'[m] : m # l /\ i \in DOMAIN elements[m]
  BY <1>3
<1>5. \A m \in Variables \ {l} : \A i \in DOMAIN elements[m] :
        tag'[elements[m][i]] = tag[elements[m][i]]
  BY FreedRest
<1>6. \A m \in Variables : \A i \in DOMAIN elements'[m] :
        /\ tag'[elements'[m][i]] # Free
        /\ tag'[elements'[m][i]].type = tagsType'[m]
  BY <1>3, <1>4, <1>5, Elements, PayloadAssumption
<1>7. \A m, n \in Variables : \A i \in DOMAIN elements'[m], j \in DOMAIN elements'[n] :
        elements'[m][i] = elements'[n][j] => m = n /\ i = j
  BY <1>3, <1>4, Once
<1>8. \A a \in Address : tag'[a] # Free => \E m \in Variables : a \in Range(elements'[m])
  BY <1>3, FreedRest
<1>9. ref' \in Address => tag'[ref'] # Free
  <2> SUFFICES ASSUME ref' \in Address PROVE tag'[ref'] # Free
    OBVIOUS
  <2>1. PICK m \in Variables \ {l} : \E i \in DOMAIN elements[m] : elements[m][i] = ref'
    BY RefAfterFreeing DEF Range
  <2> QED
    BY <2>1, <1>3, <1>6
<1> QED
  BY <1>2, <1>6, <1>7, <1>8, <1>9 DEF IInv, OwnedOnce, Homogeneous

-----------------------------------------------------------------------------
\* The clones of the elements of m are new, each of one original, and have its
\* payload.
LEMMA ClonesFresh ==
  ASSUME IInv, NEW l \in Variables, NEW m \in Variables \ {l},
         NEW clones \in Clones(l, m)
  PROVE  /\ clones \in Seq(Address) /\ DOMAIN clones = DOMAIN elements[m]
         /\ \A i, j \in DOMAIN clones : clones[i] = clones[j] => i = j
         /\ \A i \in DOMAIN clones : Original(m, clones, clones[i]) = elements[m][i]
         /\ \A n \in Variables \ {l} : \A i \in DOMAIN elements[n] :
              elements[n][i] \notin Range(clones)
<1>1. elements[m] \in Seq(Address) /\ elements[l] \in Seq(Address)
  BY DEF IInv, OwnedOnce, ListTypeOK
<1>2. /\ clones \in [DOMAIN elements[m] -> Available \cup Range(elements[l])]
      /\ \A i, j \in DOMAIN elements[m] : clones[i] = clones[j] => i = j
  BY DEF Clones, Injection, IsInjective
<1>3. Available \cup Range(elements[l]) \subseteq Address
  BY <1>1 DEF Available, Range
<1>4. clones \in Seq(Address) /\ DOMAIN clones = DOMAIN elements[m]
  <2>1. DOMAIN elements[m] = 1..Len(elements[m]) /\ Len(elements[m]) \in Nat
    BY <1>1
  <2>2. clones \in [1..Len(elements[m]) -> Address]
    BY <1>2, <1>3, <2>1
  <2> QED
    BY <2>1, <2>2
<1>5. ASSUME NEW i \in DOMAIN clones PROVE Original(m, clones, clones[i]) = elements[m][i]
  BY <1>2, <1>4 DEF Original
<1>6. ASSUME NEW n \in Variables \ {l}, NEW i \in DOMAIN elements[n]
      PROVE  elements[n][i] \notin Range(clones)
  <2>1. elements[n][i] \notin Available
    BY <1>6, Elements
  <2>2. elements[n][i] \notin Range(elements[l])
    BY <1>6, FreedRest
  <2>3. Range(clones) \subseteq Available \cup Range(elements[l])
    BY <1>2 DEF Range
  <2> QED
    BY <2>1, <2>2, <2>3
<1> QED
  BY <1>2, <1>4, <1>5, <1>6

\* What assigning another list does, element by element.
LEMMA AssignEffect ==
  ASSUME IInv, NEW l \in Variables, NEW m \in Variables \ {l}, Assign(l, m)
  PROVE  \E clones \in Clones(l, m) :
           /\ elements'[l] = clones
           /\ \A n \in Variables \ {l} : elements'[n] = elements[n]
           /\ \A i \in DOMAIN clones : tag'[clones[i]] = tag[elements[m][i]]
           /\ \A n \in Variables \ {l} : \A i \in DOMAIN elements[n] :
                tag'[elements[n][i]] = tag[elements[n][i]]
           /\ tag' \in [Address -> Payload \cup {Free}]
           /\ \A a \in Address : tag'[a] # Free =>
                a \in Range(clones) \/ \E n \in Variables \ {l} : a \in Range(elements[n])
<1>1. PICK clones \in Clones(l, m) :
        /\ elements' = [elements EXCEPT ![l] = clones]
        /\ tag' = [a \in Address |->
                     IF a \in Range(clones) THEN tag[Original(m, clones, a)]
                     ELSE Freed(Range(elements[l]))[a]]
  BY DEF Assign
<1>2. ListTypeOK
  BY DEF IInv, OwnedOnce
<1>3. /\ clones \in Seq(Address) /\ DOMAIN clones = DOMAIN elements[m]
      /\ \A i \in DOMAIN clones : Original(m, clones, clones[i]) = elements[m][i]
      /\ \A n \in Variables \ {l} : \A i \in DOMAIN elements[n] :
           elements[n][i] \notin Range(clones)
  BY ClonesFresh
<1>4. /\ elements'[l] = clones
      /\ \A n \in Variables \ {l} : elements'[n] = elements[n]
  BY <1>1, <1>2 DEF ListTypeOK
<1>5. \A i \in DOMAIN clones : clones[i] \in Address /\ clones[i] \in Range(clones)
  BY <1>3 DEF Range
<1>6. \A i \in DOMAIN clones : tag'[clones[i]] = tag[elements[m][i]]
  BY <1>1, <1>3, <1>5
<1>7. \A n \in Variables \ {l} : \A i \in DOMAIN elements[n] :
        tag'[elements[n][i]] = tag[elements[n][i]]
  BY <1>1, <1>3, FreedRest, Elements
<1>8. tag' \in [Address -> Payload \cup {Free}]
  <2> SUFFICES ASSUME NEW a \in Address
               PROVE  (IF a \in Range(clones) THEN tag[Original(m, clones, a)]
                       ELSE Freed(Range(elements[l]))[a]) \in Payload \cup {Free}
    BY <1>1
  <2>1. CASE a \in Range(clones)
    <3>1. PICK i \in DOMAIN clones : a = clones[i]
      BY <2>1 DEF Range
    <3> QED
      BY <2>1, <3>1, <1>3, Elements
  <2>2. CASE a \notin Range(clones)
    BY <2>2, FreedRest
  <2> QED
    BY <2>1, <2>2
<1>9. \A a \in Address : tag'[a] # Free =>
        a \in Range(clones) \/ \E n \in Variables \ {l} : a \in Range(elements[n])
  BY <1>1, FreedRest
<1> QED
  BY <1>1, <1>4, <1>6, <1>7, <1>8, <1>9

\* A list that another is assigned to owns clones of what the other owns.
LEMMA AssignInv ==
  ASSUME IInv, NEW l \in Variables, NEW m \in Variables \ {l}, Assign(l, m)
  PROVE  IInv'
<1>1. ListTypeOK
  BY DEF IInv, OwnedOnce
<1>2. PICK clones \in Clones(l, m) :
        /\ elements'[l] = clones
        /\ \A n \in Variables \ {l} : elements'[n] = elements[n]
        /\ \A i \in DOMAIN clones : tag'[clones[i]] = tag[elements[m][i]]
        /\ \A n \in Variables \ {l} : \A i \in DOMAIN elements[n] :
             tag'[elements[n][i]] = tag[elements[n][i]]
        /\ tag' \in [Address -> Payload \cup {Free}]
        /\ \A a \in Address : tag'[a] # Free =>
             a \in Range(clones) \/ \E n \in Variables \ {l} : a \in Range(elements[n])
  BY AssignEffect
<1>3. /\ clones \in Seq(Address) /\ DOMAIN clones = DOMAIN elements[m]
      /\ \A i, j \in DOMAIN clones : clones[i] = clones[j] => i = j
      /\ \A n \in Variables \ {l} : \A i \in DOMAIN elements[n] :
           elements[n][i] \notin Range(clones)
  BY ClonesFresh
<1>4. /\ tagsType' = [tagsType EXCEPT ![l] = tagsType[m]]
      /\ StillRef(Range(elements[l]))
      /\ \E c \in Clones(l, m) : elements' = [elements EXCEPT ![l] = c]
  BY DEF Assign
<1>5. ListTypeOK'
  <2>1. elements' \in [Variables -> Seq(Address)]
    BY <1>1, <1>4, ClonesFresh DEF ListTypeOK
  <2>2. ref' \in {NoRef, Dangling} \cup Address
    BY <1>4, RefAfterFreeing
  <2> QED
    BY <1>1, <1>2, <1>4, <2>1, <2>2 DEF ListTypeOK
<1>6. tagsType'[l] = tagsType[m] /\ \A n \in Variables \ {l} : tagsType'[n] = tagsType[n]
  BY <1>1, <1>4 DEF ListTypeOK
<1>7. \A n \in Variables : \A i \in DOMAIN elements'[n] :
        /\ tag'[elements'[n][i]] # Free
        /\ tag'[elements'[n][i]].type = tagsType'[n]
  <2>1. \A i \in DOMAIN elements'[l] : /\ tag'[elements'[l][i]] # Free
                                       /\ tag'[elements'[l][i]].type = tagsType'[l]
    BY <1>2, <1>3, <1>6, Elements, PayloadAssumption
  <2>2. \A n \in Variables \ {l} : \A i \in DOMAIN elements'[n] :
          /\ tag'[elements'[n][i]] # Free
          /\ tag'[elements'[n][i]].type = tagsType'[n]
    BY <1>2, <1>6, Elements, PayloadAssumption
  <2> QED
    BY <2>1, <2>2
<1>8. \A n, k \in Variables : \A i \in DOMAIN elements'[n], j \in DOMAIN elements'[k] :
        elements'[n][i] = elements'[k][j] => n = k /\ i = j
  <2> SUFFICES ASSUME NEW n \in Variables, NEW k \in Variables,
                      NEW i \in DOMAIN elements'[n], NEW j \in DOMAIN elements'[k],
                      elements'[n][i] = elements'[k][j]
               PROVE  n = k /\ i = j
    OBVIOUS
  <2>1. CASE n = l /\ k = l
    BY <2>1, <1>2, <1>3
  <2>2. CASE n = l /\ k # l
    BY <2>2, <1>2, <1>3 DEF Range
  <2>3. CASE n # l /\ k = l
    BY <2>3, <1>2, <1>3 DEF Range
  <2>4. CASE n # l /\ k # l
    BY <2>4, <1>2, Once
  <2> QED
    BY <2>1, <2>2, <2>3, <2>4
<1>9. \A a \in Address : tag'[a] # Free => \E n \in Variables : a \in Range(elements'[n])
  BY <1>2
<1>10. ref' \in Address => tag'[ref'] # Free
  <2> SUFFICES ASSUME ref' \in Address PROVE tag'[ref'] # Free
    OBVIOUS
  <2>1. PICK n \in Variables \ {l} : \E i \in DOMAIN elements[n] : elements[n][i] = ref'
    BY <1>4, RefAfterFreeing DEF Range
  <2> QED
    BY <2>1, <1>2, <1>7
<1> QED
  BY <1>5, <1>7, <1>8, <1>9, <1>10 DEF IInv, OwnedOnce, Homogeneous

\* A list that another is moved into owns what the other owned.
LEMMA MoveAssignInv ==
  ASSUME IInv, NEW l \in Variables, NEW m \in Variables, MoveAssign(l, m)
  PROVE  IInv'
<1>1. ListTypeOK /\ l # m
  BY DEF IInv, OwnedOnce, MoveAssign
<1>2. /\ elements'[l] = elements[m] /\ elements'[m] = <<>>
      /\ \A n \in Variables \ {l, m} : elements'[n] = elements[n]
      /\ tagsType'[l] = tagsType[m]
      /\ \A n \in Variables \ {l} : tagsType'[n] = tagsType[n]
  BY <1>1 DEF MoveAssign, ListTypeOK
<1>3. tag' = Freed(Range(elements[l])) /\ StillRef(Range(elements[l]))
  BY DEF MoveAssign
<1>4. ListTypeOK'
  <2>1. elements' \in [Variables -> Seq(Address)] /\ tagsType' \in [Variables -> Types \cup {Unknown}]
    BY <1>1 DEF MoveAssign, ListTypeOK
  <2> QED
    BY <2>1, <1>3, FreedRest, RefAfterFreeing DEF ListTypeOK
<1> DEFINE was(n) == IF n = l THEN m ELSE n
<1>5. \A n \in Variables : \A i \in DOMAIN elements'[n] :
        /\ n # m /\ was(n) \in Variables \ {l}
        /\ i \in DOMAIN elements[was(n)] /\ elements'[n][i] = elements[was(n)][i]
        /\ tagsType'[n] = tagsType[was(n)]
  BY <1>1, <1>2
<1>6. \A n \in Variables \ {l} : \A i \in DOMAIN elements[n] :
        tag'[elements[n][i]] = tag[elements[n][i]]
  BY <1>3, FreedRest
<1>7. \A n \in Variables : \A i \in DOMAIN elements'[n] :
        /\ tag'[elements'[n][i]] # Free
        /\ tag'[elements'[n][i]].type = tagsType'[n]
  <2> SUFFICES ASSUME NEW n \in Variables, NEW i \in DOMAIN elements'[n]
               PROVE  /\ tag'[elements'[n][i]] # Free
                      /\ tag'[elements'[n][i]].type = tagsType'[n]
    OBVIOUS
  <2>1. PICK k \in Variables \ {l} :
          /\ i \in DOMAIN elements[k] /\ elements'[n][i] = elements[k][i]
          /\ tagsType'[n] = tagsType[k]
    BY <1>5
  <2> QED
    BY <2>1, <1>6, Elements, PayloadAssumption
<1>8. \A n, k \in Variables : \A i \in DOMAIN elements'[n], j \in DOMAIN elements'[k] :
        elements'[n][i] = elements'[k][j] => n = k /\ i = j
  <2> SUFFICES ASSUME NEW n \in Variables, NEW k \in Variables,
                      NEW i \in DOMAIN elements'[n], NEW j \in DOMAIN elements'[k],
                      elements'[n][i] = elements'[k][j]
               PROVE  n = k /\ i = j
    OBVIOUS
  <2>1. was(n) = was(k) /\ i = j
    BY <1>5, Once
  <2> QED
    BY <2>1, <1>5
<1>9. \A a \in Address : tag'[a] # Free => \E n \in Variables : a \in Range(elements'[n])
  <2> SUFFICES ASSUME NEW a \in Address, tag'[a] # Free
               PROVE  \E n \in Variables : a \in Range(elements'[n])
    OBVIOUS
  <2>1. PICK n \in Variables \ {l} : a \in Range(elements[n])
    BY <1>3, FreedRest
  <2>2. CASE n = m
    BY <2>1, <2>2, <1>2
  <2>3. CASE n # m
    BY <2>1, <2>3, <1>2
  <2> QED
    BY <2>2, <2>3
<1>10. ref' \in Address => tag'[ref'] # Free
  <2> SUFFICES ASSUME ref' \in Address PROVE tag'[ref'] # Free
    OBVIOUS
  <2>1. PICK n \in Variables \ {l} : \E i \in DOMAIN elements[n] : elements[n][i] = ref'
    BY <1>3, RefAfterFreeing DEF Range
  <2> QED
    BY <2>1, <1>6, Elements, PayloadAssumption
<1> QED
  BY <1>4, <1>7, <1>8, <1>9, <1>10 DEF IInv, OwnedOnce, Homogeneous

\* Writing through a reference keeps the type of what it leads to.
LEMMA WriteInv == ASSUME IInv, Write PROVE IInv'
<1>1. PICK x \in Payload :
        /\ ref \in Address /\ x.type = tag[ref].type
        /\ tag' = [tag EXCEPT ![ref] = x]
        /\ UNCHANGED <<elements, tagsType, ref>>
  BY DEF Write
<1>2. ListTypeOK
  BY DEF IInv, OwnedOnce
<1>3. ListTypeOK'
  BY <1>1, <1>2 DEF ListTypeOK
<1>4. \A a \in Address : /\ tag'[a] = Free <=> tag[a] = Free
                         /\ tag[a] # Free => tag'[a].type = tag[a].type
  BY <1>1, <1>2, PayloadAssumption DEF ListTypeOK, IInv, OwnedOnce
<1>5. \A l \in Variables : \A i \in DOMAIN elements[l] :
        /\ tag'[elements[l][i]] # Free
        /\ tag'[elements[l][i]].type = tagsType[l]
  BY <1>4, Elements, PayloadAssumption
<1> QED
  BY <1>1, <1>3, <1>4, <1>5 DEF IInv, OwnedOnce, Homogeneous

-----------------------------------------------------------------------------
\* A list assigned to itself, and a new one, are empty.
LEMMA SelfAssignEmpties ==
  ASSUME IInv, NEW l \in Variables, Assign(l, l) \/ Renew(l)
  PROVE  \E type \in Types \cup {Unknown} :
           /\ elements' = [elements EXCEPT ![l] = <<>>]
           /\ tag' = Freed(Range(elements[l]))
           /\ tagsType' = [tagsType EXCEPT ![l] = type]
           /\ StillRef(Range(elements[l]))
<1>1. tagsType[l] \in Types \cup {Unknown}
  BY DEF IInv, OwnedOnce, ListTypeOK
<1>2. CASE Assign(l, l)
  BY <1>1, <1>2 DEF Assign
<1>3. CASE Renew(l)
  BY <1>3 DEF Renew
<1> QED
  BY <1>2, <1>3

\* Every operation keeps the invariant.
LEMMA StepInv == IInv /\ [Next]_vars => IInv'
<1> SUFFICES ASSUME IInv, [Next]_vars PROVE IInv'
  OBVIOUS
<1>1. ASSUME NEW l \in Variables, Insert(l) PROVE IInv'
  BY <1>1, InsertInv
<1>2. ASSUME NEW l \in Variables, Get(l) PROVE IInv'
  <2>1. PICK i \in DOMAIN elements[l] : ref' = elements[l][i]
    BY <1>2 DEF Get
  <2>2. ref' \in Address /\ tag[ref'] # Free
    BY <2>1, Elements, PayloadAssumption
  <2> QED
    BY <1>2, <2>2 DEF Get, IInv, OwnedOnce, ListTypeOK, Homogeneous
<1>3. ASSUME NEW l \in Variables, Assign(l, l) \/ Renew(l) PROVE IInv'
  BY <1>3, SelfAssignEmpties, EmptiedInv
<1>4. ASSUME NEW l \in Variables, NEW m \in Variables, l # m, Assign(l, m) PROVE IInv'
  BY <1>4, AssignInv
<1>5. ASSUME NEW l \in Variables, NEW m \in Variables, MoveAssign(l, m) PROVE IInv'
  BY <1>5, MoveAssignInv
<1>6. CASE Write
  BY <1>6, WriteInv
<1>7. CASE UNCHANGED vars
  BY <1>7 DEF vars, IInv, OwnedOnce, ListTypeOK, Homogeneous
<1> QED
  BY <1>1, <1>2, <1>3, <1>4, <1>5, <1>6, <1>7 DEF Next

\* The invariant holds in every reachable state.
LEMMA Invariance == Spec => []IInv
<1> QED
  BY InitInv, StepInv, PTL DEF Spec

\* No tag is leaked, freed too early or owned twice, whatever is inserted,
\* copied, moved and dropped.
THEOREM Owned == Spec => []OwnedOnce
<1>1. IInv => OwnedOnce
  BY DEF IInv
<1> QED
  BY <1>1, Invariance, PTL

\* A list only ever holds tags of the type it will be serialized with.
THEOREM OneType == Spec => []Homogeneous
<1>1. IInv => Homogeneous
  BY DEF IInv
<1> QED
  BY <1>1, Invariance, PTL

-----------------------------------------------------------------------------
(* The refinement: what each operation does to the lists as values.        *)

\* The items of a list as a value are a sequence, as long as the list.
LEMMA Items ==
  ASSUME IInv, NEW l \in Variables
  PROVE  /\ ValueOf(l).items \in Seq(Payload)
         /\ Len(ValueOf(l).items) = Len(elements[l])
         /\ DOMAIN ValueOf(l).items = DOMAIN elements[l]
         /\ \A i \in DOMAIN elements[l] : ValueOf(l).items[i] = tag[elements[l][i]]
         /\ elements[l] = <<>> => ValueOf(l).items = <<>>
<1>1. elements[l] \in Seq(Address) /\ DOMAIN elements[l] = 1..Len(elements[l])
      /\ Len(elements[l]) \in Nat
  BY DEF IInv, OwnedOnce, ListTypeOK
<1>2. \A i \in DOMAIN elements[l] : tag[elements[l][i]] \in Payload
  BY Elements
<1>3. /\ ValueOf(l).items \in Seq(Payload)
      /\ Len(ValueOf(l).items) = Len(elements[l])
  BY <1>1, <1>2 DEF ValueOf
<1>4. elements[l] = <<>> => ValueOf(l).items = <<>>
  BY <1>1, <1>3
<1> QED
  BY <1>1, <1>3, <1>4 DEF ValueOf

\* And so after a step.
LEMMA ItemsNext ==
  ASSUME IInv', NEW l \in Variables
  PROVE  /\ ValueOf(l)'.items \in Seq(Payload)
         /\ Len(ValueOf(l)'.items) = Len(elements'[l])
         /\ \A i \in DOMAIN elements'[l] : ValueOf(l)'.items[i] = tag'[elements'[l][i]]
         /\ elements'[l] = <<>> => ValueOf(l)'.items = <<>>
<1>1. elements'[l] \in Seq(Address) /\ DOMAIN elements'[l] = 1..Len(elements'[l])
      /\ Len(elements'[l]) \in Nat
  BY DEF IInv, OwnedOnce, ListTypeOK
<1>2. \A i \in DOMAIN elements'[l] : tag'[elements'[l][i]] \in Payload
  <2> TAKE i \in DOMAIN elements'[l]
  <2>1. elements'[l][i] \in Address
    BY <1>1
  <2> QED
    BY <2>1 DEF IInv, OwnedOnce, ListTypeOK
<1>3. /\ ValueOf(l)'.items \in Seq(Payload)
      /\ Len(ValueOf(l)'.items) = Len(elements'[l])
  BY <1>1, <1>2 DEF ValueOf
<1>4. elements'[l] = <<>> => ValueOf(l)'.items = <<>>
  BY <1>1, <1>3
<1> QED
  BY <1>1, <1>3, <1>4 DEF ValueOf

\* Lists that are the same before and after an operation are so as values.
LEMMA SameValue ==
  ASSUME IInv, NEW l \in Variables, NEW m \in Variables,
         elements'[l] = elements[m], tagsType'[l] = tagsType[m],
         \A i \in DOMAIN elements[m] : tag'[elements[m][i]] = tag[elements[m][i]]
  PROVE  ValueOf(l)' = ValueOf(m)
  BY DEF ValueOf

\* A new list is empty and has the type it was made with, or none.
LEMMA InitValues == Init => Values!Init
<1> SUFFICES ASSUME Init PROVE Values!Init
  OBVIOUS
<1>1. IInv
  BY InitInv
<1>2. ASSUME NEW l \in Variables
      PROVE  /\ tagsType[l] \in Types \cup {Unknown}
             /\ ValueOf(l) = [type |-> tagsType[l], items |-> <<>>]
  <2>1. elements[l] = <<>> /\ tagsType[l] \in Types \cup {Unknown}
    BY DEF Init
  <2>2. ValueOf(l).items = <<>>
    BY <1>1, <2>1, Items
  <2> QED
    BY <2>1, <2>2 DEF ValueOf
<1>3. [l \in Variables |-> ValueOf(l)]
        \in [Variables -> {[type |-> type, items |-> <<>>] : type \in Types \cup {Unknown}}]
  BY <1>2
<1> QED
  BY <1>3 DEF Values!Init, Values!NewList, Values!Types, Values!Unknown, Types, Unknown, ValueOf

\* Insert appends its payload to one list, and gives it the type if it had none.
LEMMA InsertValues ==
  ASSUME IInv, IInv', NEW l \in Variables, Insert(l)
  PROVE  Values!Insert(l)
<1> DEFINE V == [m \in Variables |-> ValueOf(m)]
<1>1. PICK x \in Payload, new \in Available :
        /\ tagsType[l] \in {Unknown, x.type}
        /\ tagsType' = [tagsType EXCEPT ![l] = TypeAfterInsert(l, x)]
        /\ tag' = [tag EXCEPT ![new] = x]
        /\ elements' = [elements EXCEPT ![l] = Append(@, new)]
  BY DEF Insert
<1>2. ListTypeOK /\ new \in Address
  BY DEF IInv, OwnedOnce, Available
<1>3. \A m \in Variables : \A i \in DOMAIN elements[m] :
        tag'[elements[m][i]] = tag[elements[m][i]]
  BY <1>1, <1>2, Elements DEF ListTypeOK
<1>4. \A m \in Variables \ {l} : ValueOf(m)' = ValueOf(m)
  BY <1>1, <1>2, <1>3, SameValue DEF ListTypeOK
<1>5. /\ tagsType'[l] = x.type /\ tag'[new] = x
      /\ elements[l] \in Seq(Address) /\ elements'[l] = Append(elements[l], new)
  BY <1>1, <1>2 DEF ListTypeOK, TypeAfterInsert
<1>6. ValueOf(l)'.items = Append(ValueOf(l).items, x)
  <2> DEFINE s == ValueOf(l).items
             t == ValueOf(l)'.items
  <2>1. /\ s \in Seq(Payload) /\ Len(s) = Len(elements[l])
        /\ \A i \in DOMAIN elements[l] : s[i] = tag[elements[l][i]]
    BY Items
  <2>2. /\ t \in Seq(Payload) /\ Len(t) = Len(elements'[l])
        /\ \A i \in DOMAIN elements'[l] : t[i] = tag'[elements'[l][i]]
    BY ItemsNext
  <2> HIDE DEF s, t
  <2>3. Len(t) = Len(s) + 1
    BY <1>5, <2>1, <2>2
  <2>4. \A i \in 1..Len(s) : t[i] = s[i]
    BY <1>3, <1>5, <2>1, <2>2
  <2>5. t[Len(s) + 1] = x
    BY <1>5, <2>1, <2>2
  <2>6. t = Append(s, x)
    BY <2>1, <2>2, <2>3, <2>4, <2>5
  <2> QED
    BY <2>6 DEF s, t
<1>7. ValueOf(l)' = [type |-> x.type, items |-> Append(ValueOf(l).items, x)]
  BY <1>5, <1>6 DEF ValueOf
<1>8. V' = [V EXCEPT ![l] = [type |-> x.type, items |-> Append(@.items, x)]]
  BY <1>4, <1>7
<1>9. V[l].type \in {Unknown, x.type}
  BY <1>1 DEF ValueOf
<1> QED
  BY <1>8, <1>9 DEF Values!Insert, Values!Unknown, Unknown, ValueOf

\* Emptying changes one list.
LEMMA EmptiedValue ==
  ASSUME IInv, IInv', NEW l \in Variables,
         elements' = [elements EXCEPT ![l] = <<>>],
         tag' = Freed(Range(elements[l])),
         NEW type, tagsType' = [tagsType EXCEPT ![l] = type]
  PROVE  /\ ValueOf(l)' = [type |-> type, items |-> <<>>]
         /\ \A m \in Variables \ {l} : ValueOf(m)' = ValueOf(m)
<1>1. ListTypeOK
  BY DEF IInv, OwnedOnce
<1>2. /\ elements'[l] = <<>> /\ tagsType'[l] = type
      /\ \A m \in Variables \ {l} : elements'[m] = elements[m] /\ tagsType'[m] = tagsType[m]
  BY <1>1 DEF ListTypeOK
<1>3. ValueOf(l)'.items = <<>>
  BY <1>2, ItemsNext
<1>4. ValueOf(l)' = [type |-> type, items |-> <<>>]
  BY <1>2, <1>3 DEF ValueOf
<1>5. \A m \in Variables \ {l} : ValueOf(m)' = ValueOf(m)
  BY <1>2, FreedRest, SameValue
<1> QED
  BY <1>4, <1>5

\* Assigning a list makes one value the other, or empties it.
LEMMA AssignValues ==
  ASSUME IInv, IInv', NEW l \in Variables, NEW m \in Variables, Assign(l, m)
  PROVE  Values!Assign(l)
<1> DEFINE V == [n \in Variables |-> ValueOf(n)]
<1>0. V' = [V EXCEPT ![l] = IF l = m THEN [type |-> @.type, items |-> <<>>] ELSE V[m]]
  <2>1. CASE l = m
    <3>1. /\ elements' = [elements EXCEPT ![l] = <<>>]
          /\ tag' = Freed(Range(elements[l]))
          /\ tagsType' = [tagsType EXCEPT ![l] = tagsType[l]]
      BY <2>1 DEF Assign
    <3>2. /\ ValueOf(l)' = [type |-> tagsType[l], items |-> <<>>]
          /\ \A n \in Variables \ {l} : ValueOf(n)' = ValueOf(n)
      BY <3>1, EmptiedValue
    <3>3. ValueOf(l).type = tagsType[l]
      BY DEF ValueOf
    <3> QED
      BY <2>1, <3>2, <3>3
  <2>2. CASE l # m
    <3>1. PICK clones \in Clones(l, m) :
            /\ elements'[l] = clones
            /\ \A n \in Variables \ {l} : elements'[n] = elements[n]
            /\ \A i \in DOMAIN clones : tag'[clones[i]] = tag[elements[m][i]]
            /\ \A n \in Variables \ {l} : \A i \in DOMAIN elements[n] :
                 tag'[elements[n][i]] = tag[elements[n][i]]
      BY <2>2, AssignEffect
    <3>2. tagsType'[l] = tagsType[m] /\ \A n \in Variables \ {l} : tagsType'[n] = tagsType[n]
      BY DEF Assign, IInv, OwnedOnce, ListTypeOK
    <3>3. \A n \in Variables \ {l} : ValueOf(n)' = ValueOf(n)
      BY <3>1, <3>2, SameValue
    <3>4. DOMAIN clones = DOMAIN elements[m]
      BY <2>2, ClonesFresh
    <3>5. ValueOf(l)' = ValueOf(m)
      BY <3>1, <3>2, <3>4 DEF ValueOf
    <3> QED
      BY <2>2, <3>3, <3>5
  <2> QED
    BY <2>1, <2>2
<1> QED
  BY <1>0 DEF Values!Assign, Values!NewList, ValueOf

\* Moving a list makes one value the other and empties the other.
LEMMA MoveAssignValues ==
  ASSUME IInv, IInv', NEW l \in Variables, NEW m \in Variables, MoveAssign(l, m)
  PROVE  Values!MoveAssign(l)
<1> DEFINE V == [n \in Variables |-> ValueOf(n)]
<1>1. ListTypeOK /\ l # m
  BY DEF IInv, OwnedOnce, MoveAssign
<1>2. /\ elements'[l] = elements[m] /\ elements'[m] = <<>>
      /\ \A n \in Variables \ {l, m} : elements'[n] = elements[n]
      /\ tagsType'[l] = tagsType[m]
      /\ \A n \in Variables \ {l} : tagsType'[n] = tagsType[n]
  BY <1>1 DEF MoveAssign, ListTypeOK
<1>3. \A n \in Variables \ {l} : \A i \in DOMAIN elements[n] :
        tag'[elements[n][i]] = tag[elements[n][i]]
  BY FreedRest DEF MoveAssign
<1>4. ValueOf(l)' = ValueOf(m) /\ \A n \in Variables \ {l, m} : ValueOf(n)' = ValueOf(n)
  BY <1>1, <1>2, <1>3, SameValue
<1>5. ValueOf(m)'.items = <<>>
  BY <1>2, ItemsNext
<1>6. ValueOf(m)' = [type |-> ValueOf(m).type, items |-> <<>>]
  BY <1>1, <1>2, <1>5 DEF ValueOf
<1>7. V' = [V EXCEPT ![l] = V[m], ![m] = [type |-> @.type, items |-> <<>>]]
  BY <1>1, <1>4, <1>6
<1> QED
  BY <1>1, <1>7 DEF Values!MoveAssign, Values!NewList, ValueOf

\* A write through a reference changes one item of the one list it is in.
LEMMA WriteValues ==
  ASSUME IInv, IInv', Write
  PROVE  \E l \in Variables : Values!Write(l)
<1> DEFINE V == [n \in Variables |-> ValueOf(n)]
<1>1. PICK x \in Payload :
        /\ ref \in Address /\ x.type = tag[ref].type
        /\ tag' = [tag EXCEPT ![ref] = x]
        /\ UNCHANGED <<elements, tagsType, ref>>
  BY DEF Write
<1>2. PICK l \in Variables : \E i \in DOMAIN elements[l] : elements[l][i] = ref
  BY <1>1 DEF IInv, OwnedOnce, Range
<1>3. PICK i \in DOMAIN elements[l] : elements[l][i] = ref
  BY <1>2
<1>4. ListTypeOK
  BY DEF IInv, OwnedOnce
<1>5. \A n \in Variables \ {l} : ValueOf(n)' = ValueOf(n)
  <2>1. \A n \in Variables \ {l} : \A j \in DOMAIN elements[n] : elements[n][j] # ref
    BY <1>3, Once
  <2> QED
    BY <1>1, <1>4, <2>1, Elements, SameValue DEF ListTypeOK
<1>6. ValueOf(l)' = [ValueOf(l) EXCEPT !.items[i] = x]
  <2>1. \A j \in DOMAIN elements[l] : j # i => elements[l][j] # ref
    BY <1>3, Once
  <2>2. \A j \in DOMAIN elements[l] :
          tag'[elements[l][j]] = IF j = i THEN x ELSE tag[elements[l][j]]
    BY <1>1, <1>3, <1>4, <2>1, Elements DEF ListTypeOK
  <2>3. ValueOf(l)'.items = [ValueOf(l).items EXCEPT ![i] = x]
    BY <1>1, <2>2 DEF ValueOf
  <2>4. ValueOf(l)'.type = ValueOf(l).type
    BY <1>1 DEF ValueOf
  <2> QED
    BY <2>3, <2>4 DEF ValueOf
<1>7. V' = [V EXCEPT ![l].items[i] = x]
  BY <1>5, <1>6
<1>8. i \in DOMAIN V[l].items /\ x.type = V[l].type
  BY <1>1, <1>3, Elements, Items DEF ValueOf
<1>9. \E j \in DOMAIN V[l].items, y \in Payload :
        y.type = V[l].type /\ V' = [V EXCEPT ![l].items[j] = y]
  BY <1>7, <1>8, Zenon
<1>10. Values!Write(l)
  BY <1>9, Zenon DEF Values!Write, ValueOf
<1> QED
  BY <1>10

\* A new list in the place of one that is gone.
LEMMA RenewValues ==
  ASSUME IInv, IInv', NEW l \in Variables, Renew(l)
  PROVE  Values!Renew(l)
<1> DEFINE V == [n \in Variables |-> ValueOf(n)]
<1>1. PICK type \in Types \cup {Unknown} : tagsType' = [tagsType EXCEPT ![l] = type]
  BY DEF Renew
<1>2. /\ ValueOf(l)' = [type |-> type, items |-> <<>>]
      /\ \A n \in Variables \ {l} : ValueOf(n)' = ValueOf(n)
  BY <1>1, EmptiedValue DEF Renew
<1>3. V' = [V EXCEPT ![l] = [type |-> type, items |-> <<>>]]
  BY <1>2
<1> QED
  BY <1>3 DEF Values!Renew, Values!NewList, Values!Types, Values!Unknown, Types, Unknown, ValueOf

\* Every step is one of the values', or changes no value.
LEMMA StepValues ==
  ASSUME IInv, IInv', [Next]_vars
  PROVE  [Values!Next]_([l \in Variables |-> ValueOf(l)])
<1>1. ASSUME NEW l \in Variables, Insert(l) PROVE Values!Next
  BY <1>1, InsertValues DEF Values!Next
<1>2. ASSUME NEW l \in Variables, NEW m \in Variables, Assign(l, m) PROVE Values!Next
  BY <1>2, AssignValues DEF Values!Next
<1>3. ASSUME NEW l \in Variables, NEW m \in Variables, MoveAssign(l, m) PROVE Values!Next
  BY <1>3, MoveAssignValues DEF Values!Next
<1>4. ASSUME NEW l \in Variables, Renew(l) PROVE Values!Next
  BY <1>4, RenewValues DEF Values!Next
<1>5. CASE Write
  BY <1>5, WriteValues DEF Values!Next
<1>6. ASSUME UNCHANGED <<tag, elements, tagsType>>
      PROVE  UNCHANGED [l \in Variables |-> ValueOf(l)]
  BY <1>6 DEF ValueOf
<1>7. ASSUME NEW l \in Variables, Get(l)
      PROVE  UNCHANGED [k \in Variables |-> ValueOf(k)]
  BY <1>6, <1>7 DEF Get
<1>8. CASE UNCHANGED vars
  BY <1>6, <1>8 DEF vars, ValueOf
<1> QED
  BY <1>1, <1>2, <1>3, <1>4, <1>5, <1>7, <1>8 DEF Next, ValueOf

\* NBTList implements its values: each list is what the calls on it made of it,
\* whatever is done to the others, to copies and through references.
THEOREM Refinement == Spec => ListSemantics
<1>1. IInv /\ IInv' /\ [Next]_vars => [Values!Next]_(
        [l \in Variables |->
           [type |-> tagsType[l],
            items |-> [i \in DOMAIN elements[l] |-> tag[elements[l][i]]]]])
  BY StepValues DEF ValueOf
<1> QED
  BY <1>1, InitValues, Invariance, PTL DEF Spec, ListSemantics, Values!Spec
=============================================================================
