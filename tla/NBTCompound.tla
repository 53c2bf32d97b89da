----------------------------- MODULE NBTCompound -----------------------------
(***************************************************************************)
(* NBTCompound as it lies in memory: a map from names to owned pointers,   *)
(* every tag allocated on its own, compounds inside tags by value.  A      *)
(* program holds some compounds and the last reference it was handed out,  *)
(* and calls the operations in any order.  Addresses are reused.           *)
(***************************************************************************)
EXTENDS Integers, FiniteSets, Functions

CONSTANTS Variables, Name, Scalar,   \* as in NBTCompoundValues
          Address                    \* places a tag can be allocated at; a bound on the tags

Place == Variables \cup Address        \* where an m_objectsTree may be
Nothing == [n \in {} |-> n]
Compound == [type |-> "Compound"]
Free == [free |-> TRUE]

VARIABLES
  tag,     \* tag[a]: the NBTNamedTag at a, its m_name and m_payload, or Free
  tree,    \* tree[p]: the m_objectsTree of the compound at p
  ref      \* where the reference held by the program leads

vars == <<tag, tree, ref>>

NoRef == "nothing"
Dangling == "a freed tag"
Null == "null"           \* *dynamic_cast<...>(...) of another type

ASSUME AddressAssumption ==
  Address \cap (Variables \cup {NoRef, Dangling, Null}) = {}

Live(h) == {a \in Address : h.tag[a] # Free}
Available(h) == Address \ Live(h)
heap == [tag |-> tag, tree |-> tree]

\* The tags below a compound, which live and die with it: those in every set
\* of tags that holds what it owns and what any compound in the set owns.
Holds(h, s, p) == Range(h.tree[p]) \subseteq s
Closed(h, p) == {s \in SUBSET Address : Holds(h, s, p) /\ \A a \in s : Holds(h, s, a)}
Below(h, p) == {a \in Address : \A s \in Closed(h, p) : a \in s}

\* The compounds the program can name: its variables and what they contain.
Reachable == Variables \cup {a \in UNION {Below(heap, c) : c \in Variables} :
                               tag[a].payload = Compound}

-----------------------------------------------------------------------------
(* Steps on a heap [tag, tree].                                            *)

Freed(h, gone) ==
  [tag  |-> [a \in Address |-> IF a \in gone THEN Free ELSE h.tag[a]],
   tree |-> [p \in Place |-> IF p \in gone THEN Nothing ELSE h.tree[p]]]

WithTree(h, p, t) == [h EXCEPT !.tree[p] = t]

\* Clone() of the tags below p: where each may be cloned to, and the heap with
\* the clones, which have the name, the payload and the clones of what their
\* originals have.
Clones(h, p, taken) == Injection(Below(h, p), Available(h) \ taken)
Copies(copy, t) == [n \in DOMAIN t |-> copy[t[n]]]
Cloned(h, copy) ==
  LET original == Inverse(copy, DOMAIN copy, Range(copy))
  IN  [tag |-> [a \in Address |-> IF a \in Range(copy) THEN h.tag[original[a]] ELSE h.tag[a]],
       tree |-> [p \in Place |-> IF p \in Range(copy) THEN Copies(copy, h.tree[original[p]])
                                                     ELSE h.tree[p]]]

\* A NBTNamedTag at new: of a scalar, of a copy of the compound at p, or of
\* the compound of a variable that is moved from.
NewScalar(h, new, n, x) ==
  [h EXCEPT !.tag[new] = [name |-> n, payload |-> x]]
NewCompound(h, new, n, t) ==
  [tag |-> [h.tag EXCEPT ![new] = [name |-> n, payload |-> Compound]],
   tree |-> [h.tree EXCEPT ![new] = t]]
NewCopy(h, new, n, p, copy) == NewCompound(Cloned(h, copy), new, n, Copies(copy, h.tree[p]))
NewMoved(h, new, n, c) == NewCompound(WithTree(h, c, Nothing), new, n, h.tree[c])

\* m_objectsTree.insert(std::make_pair(name, a)).  If the name is taken the
\* map drops the new tag: a map that builds its node first frees it, one that
\* looks the key up first leaves the raw pointer to nobody.
Taken(h, p, n) == n \in DOMAIN h.tree[p]
Stored(h, p, n, a) == WithTree(h, p, [m \in DOMAIN h.tree[p] \cup {n} |->
                                        IF m = n THEN a ELSE h.tree[p][m]])
InsertedReplacingMutant(h, p, n, a, leaks) ==  \* insert_or_assign
  IF Taken(h, p, n)
    THEN Stored(Freed(h, {h.tree[p][n]} \cup Below(h, h.tree[p][n])), p, n, a)
    ELSE Stored(h, p, n, a)
InsertedSharedMutant(h, p, n, a, leaks) ==     \* the rejected tag freed, and kept
  IF Taken(h, p, n) THEN Stored(Freed(h, {a} \cup Below(h, a)), p, n, a)
  ELSE Stored(h, p, n, a)
Inserted(h, p, n, a, leaks) ==
  IF Taken(h, p, n) THEN IF leaks THEN h ELSE Freed(h, {a} \cup Below(h, a))
  ELSE Stored(h, p, n, a)

\* The heap after a call, and the reference: handed out by the call, or the
\* one held before if it still leads to a tag.
Becomes(h, r) ==
  /\ tag' = h.tag /\ tree' = h.tree
  /\ ref' = IF r \in Address /\ h.tag[r] = Free THEN Dangling ELSE r

-----------------------------------------------------------------------------
Init ==
  /\ tag = [a \in Address |-> Free]
  /\ tree = [p \in Place |-> Nothing]
  /\ ref = NoRef

\* Insert(const NBTNamedTag<T>&), Insert(NBTNamedTag<T>&&): the answer is the
\* tag the call allocated, in the map or not.
InsertTag(p, n) ==
  \E new \in Available(heap), x \in Scalar, leaks \in BOOLEAN :
    Becomes(Inserted(NewScalar(heap, new, n, x), p, n, new, leaks), new)

InsertTagCopied(p, n) ==
  \E new \in Available(heap), q \in Reachable : \E copy \in Clones(heap, q, {new}) :
    \E leaks \in BOOLEAN :
      Becomes(Inserted(NewCopy(heap, new, n, q, copy), p, n, new, leaks), new)

\* A compound cannot be moved into itself or into what it contains.
Movable(c, p) == p \notin {c} \cup Below(heap, c)
InsertTagMoved(p, n) ==
  \E new \in Available(heap), c \in Variables, leaks \in BOOLEAN :
    /\ Movable(c, p)
    /\ Becomes(Inserted(NewMoved(heap, new, n, c), p, n, new, leaks), new)

\* Insert(const std::string&, T&&): the answer is what the map holds under the
\* name, cast to the type of the new tag, which is never leaked.
Cast(h, p, n, type) ==
  IF h.tag[h.tree[p][n]].payload.type = type THEN h.tree[p][n] ELSE Null

InsertValue(p, n) ==
  \E new \in Available(heap), x \in Scalar :
    LET after == Inserted(NewScalar(heap, new, n, x), p, n, new, FALSE)
    IN  Becomes(after, Cast(after, p, n, x.type))

InsertValueMoved(p, n) ==
  \E new \in Available(heap), c \in Variables :
    /\ Movable(c, p)
    /\ LET after == Inserted(NewMoved(heap, new, n, c), p, n, new, FALSE)
       IN  Becomes(after, Cast(after, p, n, "Compound"))

Remove(p, n) ==
  /\ n \in DOMAIN tree[p]
  /\ LET a == tree[p][n]
     IN  Becomes(Freed(WithTree(heap, p, Restrict(tree[p], DOMAIN tree[p] \ {n})),
                       {a} \cup Below(heap, a)), ref)

\* Get<T>(name) with the type the tag has; a name that is not there throws.
Get(p, n) ==
  /\ n \in DOMAIN tree[p]
  /\ Becomes(heap, tree[p][n])

\* operator=(const NBTCompound&): the clones of tags whose names are taken go
\* the way of a rejected tag, the others stay.  Of a compound that contains
\* the one assigned to, Copy would read what it is writing.
Assigned(h, p, q, copy) ==
  WithTree(Cloned(h, copy), p,
           [n \in DOMAIN h.tree[p] \cup DOMAIN h.tree[q] |->
              IF n \in DOMAIN h.tree[p] THEN h.tree[p][n] ELSE copy[h.tree[q][n]]])
Rejected(h, p, q, copy) ==
  UNION {{copy[h.tree[q][n]]} \cup Below(Cloned(h, copy), copy[h.tree[q][n]]) :
           n \in DOMAIN h.tree[q] \cap DOMAIN h.tree[p]}
Assign(p, q) ==
  /\ p \notin Below(heap, q)
  /\ \E copy \in Clones(heap, q, {}), leaks \in BOOLEAN :
       LET stored == Assigned(heap, p, q, copy)
       IN  Becomes(IF leaks THEN stored ELSE Freed(stored, Rejected(heap, p, q, copy)), ref)

\* operator=(NBTCompound&&) = default.
MoveAssign(p, c) ==
  /\ Movable(c, p) /\ c \notin Below(heap, p)
  /\ Becomes(Freed(WithTree(WithTree(heap, p, tree[c]), c, Nothing), Below(heap, p)), ref)

\* ref.Get() = value
Write ==
  /\ ref \in Address /\ tag[ref].payload \in Scalar
  /\ \E x \in Scalar : /\ x.type = tag[ref].payload.type
                       /\ Becomes([heap EXCEPT !.tag[ref].payload = x], ref)

\* A compound goes out of scope and an empty one takes its place.
Drop(c) ==
  Becomes(Freed(WithTree(heap, c, Nothing), Below(heap, c)), ref)

Next ==
  \/ \E p \in Reachable, n \in Name :
       \/ InsertTag(p, n) \/ InsertTagCopied(p, n) \/ InsertTagMoved(p, n)
       \/ InsertValue(p, n) \/ InsertValueMoved(p, n) \/ Remove(p, n) \/ Get(p, n)
  \/ \E p, q \in Reachable : Assign(p, q)
  \/ \E p \in Reachable, c \in Variables : MoveAssign(p, c)
  \/ \E c \in Variables : Drop(c)
  \/ Write

Spec == Init /\ [][Next]_vars

-----------------------------------------------------------------------------
(* Ownership: every tag that a compound owns is there and is owned once, by *)
(* one compound under one name, the tag's own (nbt.cpp serializes m_name,   *)
(* lookups use the key), and a compound that is not there owns nothing.     *)
Slots == {s \in Place \X Name : s[2] \in DOMAIN tree[s[1]]}
OwnedOnce ==
  /\ \A s \in Slots : /\ tree[s[1]][s[2]] \in Live(heap)
                      /\ tag[tree[s[1]][s[2]]].name = s[2]
                      /\ s[1] \in Variables \cup Live(heap)
  /\ \A s, t \in Slots : tree[s[1]][s[2]] = tree[t[1]][t[2]] => s = t
  /\ ref \in Address => ref \in Live(heap)

\* Inserting and assigning never move or replace a tag, so a reference to one
\* stays good while its name is in the compound; a compound whose tags do
\* change was moved into and holds all that another held.
AddressesStable ==
  [][\A p \in Reachable \cap Reachable' :
       \/ \A n \in DOMAIN tree[p] \cap DOMAIN tree'[p] : tree'[p][n] = tree[p][n]
       \/ \E c \in Variables : tree'[p] = tree[c]]_vars
=============================================================================
