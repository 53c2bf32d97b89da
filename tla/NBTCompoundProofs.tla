-------------------------- MODULE NBTCompoundProofs --------------------------
(***************************************************************************)
(* Compounds own every tag once, and references to their tags stay good    *)
(* (NBTCompound), for any compounds, names, payloads and memory.           *)
(***************************************************************************)
EXTENDS NBTCompound, TLAPS

Tag == [name : Name, payload : Scalar \cup {Compound}]
Tree == UNION {[names -> Address] : names \in SUBSET Name}
Heap == [tag : [Address -> Tag \cup {Free}], tree : [Place -> Tree]]

\* Whoever owns a tag is there, and so is the tag, under its own name.
Sound(h) ==
  \A p \in Place : \A n \in DOMAIN h.tree[p] :
    /\ h.tree[p][n] \in Live(h)
    /\ h.tag[h.tree[p][n]].name = n
    /\ p \in Variables \cup Live(h)

\* A tag has one owner and one name.
Single(h) ==
  \A p, q \in Place : \A m \in DOMAIN h.tree[p], n \in DOMAIN h.tree[q] :
    h.tree[p][m] = h.tree[q][n] => p = q /\ m = n

Owned(h) == h \in Heap /\ Sound(h) /\ Single(h)

\* What no compound owns: a tag just made, or one that leaked.
Root(h, a) == a \in Live(h) /\ \A p \in Place : \A n \in DOMAIN h.tree[p] : h.tree[p][n] # a

\* Nothing outside owns anything inside.
Sealed(h, gone) ==
  gone \subseteq Address
  /\ \A p \in Place \ gone : \A n \in DOMAIN h.tree[p] : h.tree[p][n] \notin gone

-----------------------------------------------------------------------------
(* Heaps.                                                                  *)

\* A finite map from names to addresses is a tree, whatever its names.
LEMMA TreeIs ==
  /\ \A t : t \in Tree <=> \E names \in SUBSET Name : t \in [names -> Address]
  /\ \A t \in Tree : DOMAIN t \subseteq Name /\ t \in [DOMAIN t -> Address]
  /\ Nothing \in Tree /\ DOMAIN Nothing = {}
  BY DEF Tree, Nothing

\* A tag is not what free memory looks like.
LEMMA TagIsNotFree == Free \notin Tag
<1> SUFFICES ASSUME Free \in Tag PROVE FALSE
  OBVIOUS
<1>1. DOMAIN Free = {"name", "payload"}
  BY DEF Tag
<1>2. DOMAIN Free = {"free"}
  BY DEF Free
<1> QED
  BY <1>1, <1>2

\* What an owned heap is made of.
LEMMA HeapIs ==
  ASSUME NEW h, Owned(h)
  PROVE  /\ h = [tag |-> h.tag, tree |-> h.tree]
         /\ h.tag \in [Address -> Tag \cup {Free}]
         /\ h.tree \in [Place -> Tree]
         /\ \A a \in Address : a \in Live(h) <=> h.tag[a] \in Tag
         /\ \A p \in Place : \A n \in DOMAIN h.tree[p] : n \in Name /\ h.tree[p][n] \in Address
         /\ \A p \in Place \ (Variables \cup Live(h)) : DOMAIN h.tree[p] = {}
  BY TreeIs, TagIsNotFree DEF Owned, Heap, Live, Sound

\* What is below p is closed, is there, and has its owners in it or is p's own.
LEMMA BelowIs ==
  ASSUME NEW h, Owned(h), NEW p \in Place
  PROVE  /\ Below(h, p) \subseteq Live(h)
         /\ \A q \in {p} \cup Below(h, p) : \A n \in DOMAIN h.tree[q] : h.tree[q][n] \in Below(h, p)
         /\ \A a \in Below(h, p) : \E q \in {p} \cup Below(h, p) :
              \E n \in DOMAIN h.tree[q] : h.tree[q][n] = a
         /\ \A s \in SUBSET Address :
              (\A q \in {p} \cup s : \A n \in DOMAIN h.tree[q] : h.tree[q][n] \in s)
                => Below(h, p) \subseteq s
<1> DEFINE B == Below(h, p)
<1>0. B \subseteq Address
  BY DEF Below
<1>1. ASSUME NEW s \in SUBSET Address,
             \A q \in {p} \cup s : \A n \in DOMAIN h.tree[q] : h.tree[q][n] \in s
      PROVE  B \subseteq s
  BY <1>1 DEF Below, Closed, Holds, Range
<1>2. ASSUME NEW q \in {p} \cup B, NEW n \in DOMAIN h.tree[q]
      PROVE  h.tree[q][n] \in B
  <2>1. h.tree[q][n] \in Address
    BY <1>0, HeapIs DEF Place
  <2>2. \A s \in Closed(h, p) : h.tree[q][n] \in s
    BY DEF Below, Closed, Holds, Range
  <2> QED
    BY <2>1, <2>2 DEF Below
<1> DEFINE s == {a \in B : \E q \in {p} \cup B : \E n \in DOMAIN h.tree[q] : h.tree[q][n] = a}
<1>3. B \subseteq s
  <2>1. s \in SUBSET Address
    BY <1>0
  <2>2. \A q \in {p} \cup s : \A n \in DOMAIN h.tree[q] : h.tree[q][n] \in s
    BY <1>2
  <2> HIDE DEF s, B
  <2> QED
    BY <1>1, <2>1, <2>2
<1>4. B \subseteq Live(h)
  BY <1>0, <1>3, HeapIs DEF Owned, Sound, Place
<1> QED
  BY <1>1, <1>2, <1>3, <1>4

\* Every place the program can name is there and is not below itself.
LEMMA NoCycle ==
  ASSUME NEW h, Owned(h), NEW q,
         q \in Variables \cup UNION {Below(h, c) : c \in Variables}
  PROVE  q \in Variables \cup Live(h) /\ q \in Place /\ q \notin Below(h, q)
<1>1. q \in Variables \cup Live(h) /\ q \in Place
  BY BelowIs DEF Place, Live
<1>2. CASE q \in Variables
  BY <1>1, <1>2, AddressAssumption DEF Below
<1>3. CASE q \notin Variables
  <2>1. PICK c \in Variables : q \in Below(h, c)
    BY <1>3
  <2>2. c \in Place /\ c \notin Address
    BY AddressAssumption DEF Place
  <2> SUFFICES ASSUME q \in Below(h, q) PROVE FALSE
    BY <1>1
  <2> DEFINE s == Below(h, c) \ Below(h, q)
  <2>3. s \in SUBSET Address
    BY DEF Below
  <2>4. ASSUME NEW r \in {c} \cup s, NEW n \in DOMAIN h.tree[r] PROVE h.tree[r][n] \in s
    <3>1. h.tree[r][n] \in Below(h, c) /\ r \in Place
      BY <2>2, <2>3, BelowIs DEF Place
    <3>2. ASSUME h.tree[r][n] \in Below(h, q) PROVE FALSE
      <4>1. PICK o \in {q} \cup Below(h, q) : \E m \in DOMAIN h.tree[o] : h.tree[o][m] = h.tree[r][n]
        BY <1>1, <3>2, BelowIs
      <4>2. o \in Below(h, q) /\ o \in Place
        BY <1>1 DEF Below, Place
      <4>3. o = r
        BY <3>1, <4>1, <4>2 DEF Owned, Single
      <4> QED
        BY <2>2, <4>2, <4>3 DEF Below
    <3> QED
      BY <3>1, <3>2
  <2> HIDE DEF s
  <2>5. Below(h, c) \subseteq s
    BY <2>2, <2>3, <2>4, BelowIs
  <2> QED
    BY <2>1, <2>5 DEF s
<1> QED
  BY <1>2, <1>3

-----------------------------------------------------------------------------
(* Freeing and storing.                                                    *)

\* A heap from which a sealed set of tags is freed stays owned.
LEMMA FreedOwned ==
  ASSUME NEW h, Owned(h), NEW gone, Sealed(h, gone)
  PROVE  /\ Owned(Freed(h, gone))
         /\ \A p \in Place : Freed(h, gone).tree[p] \in {h.tree[p], Nothing}
<1> DEFINE g == Freed(h, gone)
<1>1. /\ g.tag = [a \in Address |-> IF a \in gone THEN Free ELSE h.tag[a]]
      /\ g.tree = [p \in Place |-> IF p \in gone THEN Nothing ELSE h.tree[p]]
      /\ g = [tag |-> g.tag, tree |-> g.tree]
  BY DEF Freed
<1> HIDE DEF g
<1>2. g \in Heap
  <2>1. g.tag \in [Address -> Tag \cup {Free}] /\ g.tree \in [Place -> Tree]
    BY <1>1, HeapIs, TreeIs
  <2> QED
    BY <1>1, <2>1 DEF Heap
<1>3. ASSUME NEW p \in Place, NEW n \in DOMAIN g.tree[p]
      PROVE  /\ p \notin gone /\ g.tree[p] = h.tree[p]
             /\ h.tree[p][n] \in Live(h) \ gone
             /\ g.tag[h.tree[p][n]] = h.tag[h.tree[p][n]]
  <2>1. p \notin gone /\ g.tree[p] = h.tree[p]
    BY <1>1, <1>3, TreeIs
  <2>2. h.tree[p][n] \in Live(h) \ gone
    BY <1>3, <2>1 DEF Sealed, Owned, Sound
  <2> QED
    BY <1>1, <2>1, <2>2 DEF Live
<1>4. Live(g) = Live(h) \ gone
  BY <1>1 DEF Live
<1>5. Sound(g)
  BY <1>3, <1>4 DEF Sound, Owned
<1>6. Single(g)
  BY <1>3 DEF Single, Owned
<1> QED
  BY <1>1, <1>2, <1>5, <1>6 DEF Owned, g

\* A tag that nobody owns takes nothing of others with it.
LEMMA RootSealed ==
  ASSUME NEW h, Owned(h), NEW a, Root(h, a)
  PROVE  Sealed(h, {a} \cup Below(h, a))
<1> DEFINE gone == {a} \cup Below(h, a)
<1>1. a \in Place /\ a \in Address /\ gone \subseteq Address
  BY DEF Root, Live, Place, Below
<1>2. ASSUME NEW r \in Place \ gone, NEW n \in DOMAIN h.tree[r], h.tree[r][n] \in Below(h, a)
      PROVE  FALSE
  <2>1. PICK o \in gone : \E m \in DOMAIN h.tree[o] : h.tree[o][m] = h.tree[r][n]
    BY <1>1, <1>2, BelowIs
  <2>2. o \in Place
    BY <1>1 DEF Place
  <2> QED
    BY <1>2, <2>1, <2>2 DEF Owned, Single
<1> QED
  BY <1>1, <1>2 DEF Sealed, Root

\* Hanging tags that nobody owns into a compound, under their names, where
\* these are free.
Hung(h, p, t, u) ==
  /\ t \in Tree /\ DOMAIN t \cap DOMAIN h.tree[p] = {}
  /\ \A n \in DOMAIN t : Root(h, t[n]) /\ h.tag[t[n]].name = n
  /\ u = [n \in DOMAIN h.tree[p] \cup DOMAIN t |-> IF n \in DOMAIN t THEN t[n] ELSE h.tree[p][n]]

\* So does one in which a compound gains tags that nobody owned, under new names.
LEMMA HungOwned ==
  ASSUME NEW h, Owned(h), NEW p \in Variables \cup Live(h), NEW t, NEW u, Hung(h, p, t, u)
  PROVE  /\ Owned(WithTree(h, p, u))
         /\ WithTree(h, p, u).tag = h.tag
         /\ WithTree(h, p, u).tree[p] = u
         /\ \A q \in Place \ {p} : WithTree(h, p, u).tree[q] = h.tree[q]
         /\ \A n \in DOMAIN h.tree[p] : n \in DOMAIN u /\ u[n] = h.tree[p][n]
<1> DEFINE g == WithTree(h, p, u)
<1>1. p \in Place
  BY DEF Place, Live
<1>2. g.tag = h.tag /\ g.tree = [h.tree EXCEPT ![p] = u] /\ g = [tag |-> g.tag, tree |-> g.tree]
  <2>1. h = [tag |-> h.tag, tree |-> h.tree]
    BY HeapIs
  <2> QED
    BY <2>1 DEF WithTree
<1>3. /\ DOMAIN u = DOMAIN h.tree[p] \cup DOMAIN t
      /\ \A n \in DOMAIN h.tree[p] : n \notin DOMAIN t /\ u[n] = h.tree[p][n]
      /\ \A n \in DOMAIN t : u[n] = t[n]
      /\ u \in Tree
  <2>1. DOMAIN h.tree[p] \cup DOMAIN t \in SUBSET Name
    BY <1>1, HeapIs, TreeIs DEF Hung
  <2>2. u \in [DOMAIN h.tree[p] \cup DOMAIN t -> Address]
    BY <1>1, HeapIs, TreeIs DEF Hung
  <2> QED
    BY <2>1, <2>2, TreeIs DEF Hung
<1> HIDE DEF g
<1>4. g.tree[p] = u /\ \A q \in Place \ {p} : g.tree[q] = h.tree[q]
  BY <1>1, <1>2, HeapIs
<1>5. g \in Heap
  <2>1. h.tag \in [Address -> Tag \cup {Free}] /\ h.tree \in [Place -> Tree]
    BY HeapIs
  <2>2. g.tag \in [Address -> Tag \cup {Free}] /\ g.tree \in [Place -> Tree]
    BY <1>2, <1>3, <2>1
  <2> QED
    BY <1>2, <2>2 DEF Heap
<1>6. Live(g) = Live(h)
  BY <1>2 DEF Live
<1>7. \A q \in Place : \A m \in DOMAIN g.tree[q] :
        \/ q = p /\ m \in DOMAIN t /\ g.tree[q][m] = t[m]
        \/ m \in DOMAIN h.tree[q] /\ g.tree[q][m] = h.tree[q][m]
  BY <1>3, <1>4
<1>8. \A m \in DOMAIN t : /\ t[m] \in Live(h) /\ h.tag[t[m]].name = m
                          /\ \A q \in Place : \A n \in DOMAIN h.tree[q] : h.tree[q][n] # t[m]
  BY DEF Hung, Root
<1>9. Sound(g)
  BY <1>1, <1>2, <1>6, <1>7, <1>8 DEF Sound, Owned
<1>10. Single(g)
  BY <1>7, <1>8 DEF Single, Owned
<1> QED
  BY <1>2, <1>3, <1>4, <1>5, <1>9, <1>10 DEF Owned, g

\* Storing one tag that nobody owns.
LEMMA StoredOwned ==
  ASSUME NEW h, Owned(h), NEW p \in Variables \cup Live(h), NEW n \in Name, NEW a,
         Root(h, a), h.tag[a].name = n, n \notin DOMAIN h.tree[p]
  PROVE  /\ Owned(Stored(h, p, n, a))
         /\ \A q \in Place \ {p} : Stored(h, p, n, a).tree[q] = h.tree[q]
         /\ \A m \in DOMAIN h.tree[p] : Stored(h, p, n, a).tree[p][m] = h.tree[p][m]
<1> DEFINE t == [m \in {n} |-> a]
           u == [m \in DOMAIN h.tree[p] \cup {n} |-> IF m = n THEN a ELSE h.tree[p][m]]
<1>1. t \in Tree
  <2>1. t \in [{n} -> Address]
    BY DEF Root, Live
  <2> QED
    BY <2>1, TreeIs
<1>2. Hung(h, p, t, u)
  BY <1>1 DEF Hung
<1>3. Stored(h, p, n, a) = WithTree(h, p, u)
  BY DEF Stored
<1> HIDE DEF t, u
<1> QED
  BY <1>2, <1>3, HungOwned

\* Inserting a new tag, taken or rejected, freed or leaked.
LEMMA InsertedOwned ==
  ASSUME NEW h, Owned(h), NEW p \in Variables \cup Live(h), NEW n \in Name, NEW a,
         Root(h, a), h.tag[a].name = n, NEW leaks \in BOOLEAN
  PROVE  /\ Owned(Inserted(h, p, n, a, leaks))
         /\ \A q \in Place \ {p} : Inserted(h, p, n, a, leaks).tree[q] \in {h.tree[q], Nothing}
         /\ \A m \in DOMAIN h.tree[p] \cap DOMAIN Inserted(h, p, n, a, leaks).tree[p] :
              Inserted(h, p, n, a, leaks).tree[p][m] = h.tree[p][m]
<1>1. p \in Place
  BY DEF Place, Live
<1>2. CASE ~Taken(h, p, n)
  <2>1. Inserted(h, p, n, a, leaks) = Stored(h, p, n, a)
    BY <1>2 DEF Inserted
  <2> QED
    BY <1>2, <2>1, StoredOwned DEF Taken
<1>3. CASE Taken(h, p, n) /\ leaks
  BY <1>3 DEF Inserted
<1>4. CASE Taken(h, p, n) /\ ~leaks
  <2> DEFINE g == Inserted(h, p, n, a, leaks)
  <2>1. g = Freed(h, {a} \cup Below(h, a))
    BY <1>4 DEF Inserted
  <2>2. Sealed(h, {a} \cup Below(h, a))
    BY RootSealed
  <2> HIDE DEF g
  <2>3. Owned(g) /\ \A q \in Place : g.tree[q] \in {h.tree[q], Nothing}
    BY <2>1, <2>2, FreedOwned
  <2>4. \A m \in DOMAIN h.tree[p] \cap DOMAIN g.tree[p] : g.tree[p][m] = h.tree[p][m]
    BY <1>1, <2>3, TreeIs
  <2> QED
    BY <2>3, <2>4 DEF g
<1> QED
  BY <1>2, <1>3, <1>4

-----------------------------------------------------------------------------
(* Making tags.                                                            *)

\* What may be inserted: a heap with a new tag of that name that nobody owns.
Made(h, g, new, n) ==
  /\ Owned(g) /\ Root(g, new) /\ g.tag[new].name = n
  /\ Live(h) \subseteq Live(g)

\* A new tag of a number makes one tag and touches no other.
LEMMA NewScalarMade ==
  ASSUME NEW h, Owned(h), NEW new \in Available(h), NEW n \in Name,
         NEW x \in Scalar \cup {Compound}
  PROVE  /\ Made(h, NewScalar(h, new, n, x), new, n)
         /\ NewScalar(h, new, n, x).tree = h.tree
         /\ NewScalar(h, new, n, x).tag = [h.tag EXCEPT ![new] = [name |-> n, payload |-> x]]
<1> DEFINE g == NewScalar(h, new, n, x)
           made == [name |-> n, payload |-> x]
<1>1. new \in Address /\ new \notin Live(h)
  BY DEF Available
<1>2. g.tag = [h.tag EXCEPT ![new] = made] /\ g.tree = h.tree /\ g = [tag |-> g.tag, tree |-> g.tree]
  <2>1. h = [tag |-> h.tag, tree |-> h.tree]
    BY HeapIs
  <2> QED
    BY <2>1 DEF NewScalar
<1>3. made \in Tag /\ made.name = n
  BY DEF Tag
<1> HIDE DEF g, made
<1>4. g.tag[new] = made /\ \A a \in Address \ {new} : g.tag[a] = h.tag[a]
  BY <1>1, <1>2, HeapIs
<1>5. g \in Heap
  <2>1. h.tag \in [Address -> Tag \cup {Free}] /\ h.tree \in [Place -> Tree]
    BY HeapIs
  <2>2. g.tag \in [Address -> Tag \cup {Free}] /\ g.tree \in [Place -> Tree]
    BY <1>2, <1>3, <2>1
  <2> QED
    BY <1>2, <2>2 DEF Heap
<1>6. Live(g) = Live(h) \cup {new}
  BY <1>1, <1>3, <1>4, TagIsNotFree DEF Live
<1>7. \A p \in Place : \A m \in DOMAIN h.tree[p] : h.tree[p][m] # new
  BY <1>1 DEF Owned, Sound
<1>8. Sound(g)
  BY <1>2, <1>4, <1>6, <1>7 DEF Sound, Owned, Live
<1>9. Single(g)
  BY <1>2 DEF Single, Owned
<1>10. Root(g, new)
  BY <1>2, <1>6, <1>7 DEF Root
<1> QED
  BY <1>2, <1>3, <1>4, <1>5, <1>6, <1>8, <1>9, <1>10 DEF Made, Owned, g, made

\* So does one that takes over a variable's tree, which is then empty.
LEMMA NewMovedMade ==
  ASSUME NEW h, Owned(h), NEW new \in Available(h), NEW n \in Name, NEW c \in Variables
  PROVE  /\ Made(h, NewMoved(h, new, n, c), new, n)
         /\ \A p \in Place \ {new, c} : NewMoved(h, new, n, c).tree[p] = h.tree[p]
         /\ NewMoved(h, new, n, c).tree[c] = Nothing
<1> DEFINE g == NewMoved(h, new, n, c)
           made == [name |-> n, payload |-> Compound]
           from(p) == IF p = new THEN c ELSE p
<1>1. new \in Address /\ new \notin Live(h) /\ new \in Place /\ c \in Place /\ new # c
  BY AddressAssumption DEF Available, Place
<1>2. /\ g.tag = [h.tag EXCEPT ![new] = made]
      /\ g.tree = [[h.tree EXCEPT ![c] = Nothing] EXCEPT ![new] = h.tree[c]]
      /\ g = [tag |-> g.tag, tree |-> g.tree]
  <2>1. h = [tag |-> h.tag, tree |-> h.tree]
    BY HeapIs
  <2>2. WithTree(h, c, Nothing) = [tag |-> h.tag, tree |-> [h.tree EXCEPT ![c] = Nothing]]
    BY <2>1 DEF WithTree
  <2> QED
    BY <2>2 DEF NewMoved, NewCompound
<1>3. made \in Tag /\ made.name = n
  BY DEF Tag
<1> HIDE DEF g, made
<1>4. g.tag[new] = made /\ \A a \in Address \ {new} : g.tag[a] = h.tag[a]
  BY <1>1, <1>2, HeapIs
<1>5. /\ g.tree[new] = h.tree[c] /\ g.tree[c] = Nothing
      /\ \A p \in Place \ {new, c} : g.tree[p] = h.tree[p]
  BY <1>1, <1>2, HeapIs
<1>6. g \in Heap
  <2>1. h.tag \in [Address -> Tag \cup {Free}] /\ h.tree \in [Place -> Tree]
    BY HeapIs
  <2>2. h.tree[c] \in Tree /\ Nothing \in Tree
    BY <1>1, <2>1, TreeIs
  <2>3. g.tag \in [Address -> Tag \cup {Free}] /\ g.tree \in [Place -> Tree]
    BY <1>2, <1>3, <2>1, <2>2
  <2> QED
    BY <1>2, <2>3 DEF Heap
<1>7. Live(g) = Live(h) \cup {new}
  BY <1>1, <1>3, <1>4, TagIsNotFree DEF Live
<1>8. /\ \A p \in Place : \A m \in DOMAIN g.tree[p] :
           p # c /\ m \in DOMAIN h.tree[from(p)] /\ g.tree[p][m] = h.tree[from(p)][m]
      /\ \A p \in Place : from(p) \in Place
      /\ \A p, q \in Place \ {c} : from(p) = from(q) => p = q
  BY <1>1, <1>5, TreeIs
<1> HIDE DEF from
<1>9. \A p \in Place : \A m \in DOMAIN h.tree[p] :
        /\ h.tree[p][m] # new /\ h.tree[p][m] \in Live(h)
        /\ h.tag[h.tree[p][m]].name = m /\ p \in Variables \cup Live(h)
  BY <1>1 DEF Owned, Sound
<1>10. Sound(g)
  <2> SUFFICES ASSUME NEW p \in Place, NEW m \in DOMAIN g.tree[p]
               PROVE  /\ g.tree[p][m] \in Live(g) /\ g.tag[g.tree[p][m]].name = m
                      /\ p \in Variables \cup Live(g)
    BY DEF Sound
  <2>1. /\ g.tree[p][m] \in Live(h) \ {new} /\ h.tag[g.tree[p][m]].name = m
        /\ from(p) \in Variables \cup Live(h)
    BY <1>8, <1>9
  <2> QED
    BY <2>1, <1>4, <1>7 DEF Live, from
<1>11. Single(g)
  BY <1>8 DEF Single, Owned
<1>12. Root(g, new)
  BY <1>7, <1>8, <1>9 DEF Root
<1> QED
  BY <1>3, <1>4, <1>5, <1>6, <1>7, <1>10, <1>11, <1>12 DEF Made, Owned, g

-----------------------------------------------------------------------------
(* Cloning.                                                                *)

\* Where the clones are and what they are.
LEMMA ClonesAre ==
  ASSUME NEW h, Owned(h), NEW p \in Place, NEW taken, NEW copy \in Clones(h, p, taken)
  PROVE  /\ copy \in [Below(h, p) -> Available(h) \ taken]
         /\ \A a, b \in Below(h, p) : copy[a] = copy[b] => a = b
         /\ Cloned(h, copy) = [tag |-> Cloned(h, copy).tag, tree |-> Cloned(h, copy).tree]
         /\ Cloned(h, copy).tag \in [Address -> Tag \cup {Free}]
         /\ Cloned(h, copy).tree \in [Place -> Tree]
         /\ \A b \in Below(h, p) : /\ Cloned(h, copy).tag[copy[b]] = h.tag[b]
                                  /\ Cloned(h, copy).tree[copy[b]] = Copies(copy, h.tree[b])
         /\ \A a \in Address \ Range(copy) : Cloned(h, copy).tag[a] = h.tag[a]
         /\ \A q \in Place \ Range(copy) : Cloned(h, copy).tree[q] = h.tree[q]
<1> DEFINE B == Below(h, p)
           R == Range(copy)
           original == Inverse(copy, DOMAIN copy, R)
           g == Cloned(h, copy)
<1>1. copy \in [B -> Available(h) \ taken] /\ \A a, b \in B : copy[a] = copy[b] => a = b
  BY DEF Clones, Injection, IsInjective
<1>2. R \subseteq Address /\ \A b \in B : copy[b] \in R
  BY <1>1 DEF Range, Available
<1>3. \A b \in B : original[copy[b]] = b
  BY <1>1, <1>2 DEF Inverse
<1>4. \A a \in R : original[a] \in B /\ copy[original[a]] = a
  BY <1>1, <1>3 DEF Range
<1>5. /\ g.tag = [a \in Address |-> IF a \in R THEN h.tag[original[a]] ELSE h.tag[a]]
      /\ g.tree = [q \in Place |-> IF q \in R THEN Copies(copy, h.tree[original[q]]) ELSE h.tree[q]]
      /\ g = [tag |-> g.tag, tree |-> g.tree]
  BY DEF Cloned
<1>6. \A b \in B : b \in Address /\ b \in Place
  BY DEF Below, Place
<1>7. \A b \in B : Copies(copy, h.tree[b]) \in Tree
  <2> SUFFICES ASSUME NEW b \in B PROVE Copies(copy, h.tree[b]) \in Tree
    OBVIOUS
  <2>1. \A n \in DOMAIN h.tree[b] : h.tree[b][n] \in B
    BY BelowIs
  <2>2. DOMAIN h.tree[b] \in SUBSET Name
    BY <1>6, HeapIs
  <2>3. Copies(copy, h.tree[b]) \in [DOMAIN h.tree[b] -> Address]
    BY <1>1, <1>2, <2>1 DEF Copies
  <2> QED
    BY <2>2, <2>3, TreeIs
<1> HIDE DEF B, R, original, g
<1>8. g.tag \in [Address -> Tag \cup {Free}]
  <2>1. h.tag \in [Address -> Tag \cup {Free}]
    BY HeapIs
  <2> QED
    BY <1>4, <1>5, <1>6, <2>1
<1>9. g.tree \in [Place -> Tree]
  <2>1. h.tree \in [Place -> Tree]
    BY HeapIs
  <2> QED
    BY <1>4, <1>5, <1>7, <2>1
<1>10. \A b \in B : g.tag[copy[b]] = h.tag[b] /\ g.tree[copy[b]] = Copies(copy, h.tree[b])
  BY <1>2, <1>3, <1>5 DEF Place
<1>11. /\ \A a \in Address \ R : g.tag[a] = h.tag[a]
       /\ \A q \in Place \ R : g.tree[q] = h.tree[q]
  BY <1>5
<1> QED
  BY <1>1, <1>5, <1>8, <1>9, <1>10, <1>11 DEF B, R, g

\* Clones own clones as their originals own, beside everything there was.
LEMMA ClonedOwned ==
  ASSUME NEW h, Owned(h), NEW p \in Place, NEW taken, NEW copy \in Clones(h, p, taken)
  PROVE  /\ Owned(Cloned(h, copy))
         /\ Live(Cloned(h, copy)) = Live(h) \cup Range(copy)
         /\ \A q \in Place : \A n \in DOMAIN Cloned(h, copy).tree[q] :
              \/ /\ q \notin Range(copy) /\ n \in DOMAIN h.tree[q]
                 /\ Cloned(h, copy).tree[q][n] = h.tree[q][n] /\ h.tree[q][n] \in Live(h)
              \/ \E b \in Below(h, p) :
                   /\ q = copy[b] /\ n \in DOMAIN h.tree[b] /\ h.tree[b][n] \in Below(h, p)
                   /\ Cloned(h, copy).tree[q][n] = copy[h.tree[b][n]]
<1> DEFINE B == Below(h, p)
           R == Range(copy)
           g == Cloned(h, copy)
<1>1. /\ copy \in [B -> Available(h) \ taken]
      /\ \A a, b \in B : copy[a] = copy[b] => a = b
      /\ g = [tag |-> g.tag, tree |-> g.tree]
      /\ g.tag \in [Address -> Tag \cup {Free}]
      /\ g.tree \in [Place -> Tree]
      /\ \A b \in B : g.tag[copy[b]] = h.tag[b] /\ g.tree[copy[b]] = Copies(copy, h.tree[b])
      /\ \A a \in Address \ R : g.tag[a] = h.tag[a]
      /\ \A q \in Place \ R : g.tree[q] = h.tree[q]
  BY ClonesAre
<1>2. /\ \A a \in R : a \in Address /\ a \notin Live(h) /\ \E b \in B : a = copy[b]
      /\ \A b \in B : copy[b] \in R
  BY <1>1 DEF Range, Available
<1>3. B \subseteq Live(h) /\ \A b \in B : \A n \in DOMAIN h.tree[b] : h.tree[b][n] \in B
  BY BelowIs
<1> HIDE DEF B, R, g
<1>4. Live(g) = Live(h) \cup R
  BY <1>1, <1>2, <1>3 DEF Live
<1>5. ASSUME NEW q \in Place, NEW n \in DOMAIN g.tree[q]
      PROVE  \/ /\ q \notin R /\ n \in DOMAIN h.tree[q] /\ g.tree[q][n] = h.tree[q][n]
                /\ h.tree[q][n] \in Live(h)
             \/ \E b \in B : /\ q = copy[b] /\ n \in DOMAIN h.tree[b] /\ h.tree[b][n] \in B
                             /\ g.tree[q][n] = copy[h.tree[b][n]]
  <2>1. CASE q \notin R
    BY <1>1, <1>5, <2>1 DEF Owned, Sound
  <2>2. CASE q \in R
    <3>1. PICK b \in B : q = copy[b]
      BY <1>2, <2>2
    <3>2. g.tree[q] = [m \in DOMAIN h.tree[b] |-> copy[h.tree[b][m]]]
      BY <1>1, <3>1 DEF Copies
    <3> QED
      BY <1>3, <1>5, <3>1, <3>2
  <2> QED
    BY <2>1, <2>2
<1>6. Sound(g)
  <2> SUFFICES ASSUME NEW q \in Place, NEW n \in DOMAIN g.tree[q]
               PROVE  /\ g.tree[q][n] \in Live(g) /\ g.tag[g.tree[q][n]].name = n
                      /\ q \in Variables \cup Live(g)
    BY DEF Sound
  <2>1. CASE /\ q \notin R /\ n \in DOMAIN h.tree[q] /\ g.tree[q][n] = h.tree[q][n]
             /\ h.tree[q][n] \in Live(h)
    <3>1. h.tag[h.tree[q][n]].name = n /\ q \in Variables \cup Live(h)
      BY <2>1 DEF Owned, Sound
    <3>2. h.tree[q][n] \in Address \ R
      BY <1>2, <2>1 DEF Live
    <3> QED
      BY <1>1, <1>4, <2>1, <3>1, <3>2
  <2>2. ASSUME NEW b \in B, q = copy[b], n \in DOMAIN h.tree[b], h.tree[b][n] \in B,
               g.tree[q][n] = copy[h.tree[b][n]]
        PROVE  /\ g.tree[q][n] \in Live(g) /\ g.tag[g.tree[q][n]].name = n
               /\ q \in Variables \cup Live(g)
    <3>1. b \in Place
      BY <1>3 DEF Place, Live
    <3>2. h.tag[h.tree[b][n]].name = n
      BY <2>2, <3>1 DEF Owned, Sound
    <3> QED
      BY <1>1, <1>2, <1>4, <2>2, <3>2
  <2> QED
    BY <1>5, <2>1, <2>2
<1>7. Single(g)
  <2> SUFFICES ASSUME NEW q \in Place, NEW r \in Place, NEW m \in DOMAIN g.tree[q],
                      NEW n \in DOMAIN g.tree[r], g.tree[q][m] = g.tree[r][n]
               PROVE  q = r /\ m = n
    BY DEF Single
  <2>1. CASE g.tree[q][m] \in Live(h)
    <3>1. /\ m \in DOMAIN h.tree[q] /\ g.tree[q][m] = h.tree[q][m]
          /\ n \in DOMAIN h.tree[r] /\ g.tree[r][n] = h.tree[r][n]
      BY <1>2, <1>5, <2>1
    <3>2. h.tree[q][m] = h.tree[r][n]
      BY <3>1
    <3>3. Single(h)
      BY DEF Owned
    <3> QED
      BY <3>1, <3>2, <3>3 DEF Single
  <2>2. CASE g.tree[q][m] \notin Live(h)
    <3>1. PICK b \in B : /\ q = copy[b] /\ m \in DOMAIN h.tree[b] /\ h.tree[b][m] \in B
                         /\ g.tree[q][m] = copy[h.tree[b][m]]
      BY <1>5, <2>2
    <3>2. PICK d \in B : /\ r = copy[d] /\ n \in DOMAIN h.tree[d] /\ h.tree[d][n] \in B
                         /\ g.tree[r][n] = copy[h.tree[d][n]]
      BY <1>5, <2>2
    <3>3. h.tree[b][m] = h.tree[d][n]
      BY <1>1, <3>1, <3>2
    <3>4. b \in Place /\ d \in Place
      BY <1>3 DEF Place, Live
    <3> QED
      BY <3>1, <3>2, <3>3, <3>4 DEF Owned, Single
  <2> QED
    BY <2>1, <2>2
<1>8. g \in Heap
  BY <1>1 DEF Heap
<1> QED
  BY <1>4, <1>5, <1>6, <1>7, <1>8 DEF Owned, B, R, g

\* The clones of what a compound itself owns are nobody's yet.
LEMMA TopsAreRoots ==
  ASSUME NEW h, Owned(h), NEW p \in Place, p \notin Below(h, p), NEW taken,
         NEW copy \in Clones(h, p, taken), NEW n \in DOMAIN h.tree[p]
  PROVE  /\ n \in Name
         /\ Copies(copy, h.tree[p])[n] = copy[h.tree[p][n]]
         /\ copy[h.tree[p][n]] \in Address \ Live(h)
         /\ Root(Cloned(h, copy), copy[h.tree[p][n]])
         /\ Cloned(h, copy).tag[copy[h.tree[p][n]]].name = n
<1> DEFINE B == Below(h, p)
           g == Cloned(h, copy)
           x == h.tree[p][n]
<1>1. x \in B /\ n \in Name
  BY BelowIs, HeapIs
<1>2. /\ copy \in [B -> Available(h) \ taken]
      /\ \A a, b \in B : copy[a] = copy[b] => a = b
      /\ g.tag[copy[x]] = h.tag[x]
  BY <1>1, ClonesAre
<1>3. copy[x] \in Address \ Live(h) /\ copy[x] \in Range(copy)
  BY <1>1, <1>2 DEF Available, Range
<1>4. copy[x] \in Live(g)
  BY <1>3, ClonedOwned
<1>5. ASSUME NEW q \in Place, NEW m \in DOMAIN g.tree[q], g.tree[q][m] = copy[x]
      PROVE  FALSE
  <2>1. PICK b \in B : m \in DOMAIN h.tree[b] /\ h.tree[b][m] \in B /\ copy[x] = copy[h.tree[b][m]]
    BY <1>3, <1>5, ClonedOwned
  <2>2. h.tree[b][m] = x
    BY <1>1, <1>2, <2>1
  <2>3. b \in Place /\ Single(h)
    BY DEF Below, Place, Owned
  <2>4. b = p
    BY <2>1, <2>2, <2>3 DEF Single
  <2> QED
    BY <2>4
<1>6. h.tag[x].name = n
  BY DEF Owned, Sound
<1> QED
  BY <1>1, <1>2, <1>3, <1>4, <1>5, <1>6 DEF Root, Copies

\* So does one with a copy of a tree, whatever addresses the copy is given.
LEMMA NewCopyMade ==
  ASSUME NEW h, Owned(h), NEW new \in Available(h), NEW n \in Name,
         NEW p \in Place, p \notin Below(h, p), NEW copy \in Clones(h, p, {new})
  PROVE  /\ Made(h, NewCopy(h, new, n, p, copy), new, n)
         /\ \A q \in Variables \cup Live(h) : NewCopy(h, new, n, p, copy).tree[q] = h.tree[q]
<1> DEFINE g == Cloned(h, copy)
           t == Copies(copy, h.tree[p])
           k == NewScalar(g, new, n, Compound)
           top(m) == copy[h.tree[p][m]]
<1>1. new \in Address /\ new \notin Live(h) /\ new \in Place
  BY DEF Available, Place
<1>2. /\ Owned(g) /\ Live(g) = Live(h) \cup Range(copy)
      /\ new \in Available(g)
      /\ \A q \in Variables \cup Live(h) : q \in Place /\ g.tree[q] = h.tree[q]
  <2>1. Owned(g) /\ Live(g) = Live(h) \cup Range(copy)
    BY ClonedOwned
  <2>2. copy \in [Below(h, p) -> Available(h) \ {new}]
    BY ClonesAre
  <2>3. new \notin Range(copy) /\ Range(copy) \subseteq Address \ Live(h)
    BY <2>2 DEF Range, Available
  <2>4. \A q \in Variables \cup Live(h) : q \in Place \ Range(copy)
    BY <2>3, AddressAssumption DEF Place, Live
  <2> QED
    BY <1>1, <2>1, <2>3, <2>4, ClonesAre DEF Available
<1>3. /\ DOMAIN t = DOMAIN h.tree[p] /\ DOMAIN t \subseteq Name
      /\ \A m \in DOMAIN t : /\ t[m] = top(m) /\ Root(g, t[m]) /\ g.tag[t[m]].name = m
      /\ t \in Tree
  <2>1. DOMAIN t = DOMAIN h.tree[p]
    BY DEF Copies
  <2>2. \A m \in DOMAIN h.tree[p] :
          m \in Name /\ t[m] = top(m) /\ Root(g, top(m)) /\ g.tag[top(m)].name = m
    BY TopsAreRoots
  <2>3. t \in [DOMAIN h.tree[p] -> Address]
    BY <2>2 DEF Copies, Root, Live
  <2>4. t \in Tree
    BY <2>2, <2>3, TreeIs
  <2> QED
    BY <2>1, <2>2, <2>4
<1> HIDE DEF t, g
<1>4. /\ Made(g, k, new, n) /\ k.tree = g.tree
      /\ k.tag = [g.tag EXCEPT ![new] = [name |-> n, payload |-> Compound]]
      /\ k = [tag |-> k.tag, tree |-> k.tree]
  <2>1. /\ Made(g, k, new, n) /\ k.tree = g.tree
        /\ k.tag = [g.tag EXCEPT ![new] = [name |-> n, payload |-> Compound]]
    BY <1>2, NewScalarMade
  <2> HIDE DEF k
  <2>2. Owned(k)
    BY <2>1 DEF Made
  <2> QED
    BY <2>1, <2>2, HeapIs
<1> HIDE DEF k
<1>5. g.tree[new] \in Tree /\ DOMAIN g.tree[new] = {}
  BY <1>1, <1>2, HeapIs, AddressAssumption DEF Available
<1>6. \A m \in DOMAIN t : Root(k, t[m]) /\ k.tag[t[m]].name = m /\ t[m] # new
  <2>1. \A m \in DOMAIN t : t[m] # new /\ t[m] \in Live(k)
    BY <1>2, <1>3, <1>4 DEF Root, Available, Made
  <2>2. \A m \in DOMAIN t : k.tag[t[m]] = g.tag[t[m]]
    BY <1>2, <1>3, <1>4, <2>1, HeapIs DEF Root, Live
  <2> QED
    BY <1>3, <1>4, <2>1, <2>2 DEF Root
<1>7. Hung(k, new, t, t)
  <2>1. t = [m \in DOMAIN t |-> t[m]]
    BY <1>3, TreeIs
  <2> QED
    BY <1>3, <1>4, <1>5, <1>6, <2>1 DEF Hung
<1>8. NewCopy(h, new, n, p, copy) = WithTree(k, new, t)
  BY <1>4 DEF NewCopy, NewCompound, WithTree, t, g
<1>9. new \in Variables \cup Live(k) /\ Owned(k)
  BY <1>4 DEF Made, Root
<1> DEFINE w == WithTree(k, new, t)
<1>10. /\ Owned(w) /\ w.tag = k.tag /\ w.tree[new] = t
       /\ \A q \in Place \ {new} : w.tree[q] = k.tree[q]
  BY <1>7, <1>9, HungOwned
<1> HIDE DEF w
<1>11. Live(w) = Live(k)
  BY <1>10 DEF Live
<1>12. Root(w, new)
  BY <1>4, <1>6, <1>10, <1>11 DEF Root, Made
<1>13. Made(h, w, new, n)
  BY <1>2, <1>4, <1>10, <1>11, <1>12 DEF Made
<1>14. \A q \in Variables \cup Live(h) : w.tree[q] = h.tree[q]
  BY <1>1, <1>2, <1>4, <1>10, AddressAssumption
<1> QED
  BY <1>8, <1>13, <1>14 DEF w

-----------------------------------------------------------------------------
(* Steps.                                                                  *)

Inv == Owned(heap) /\ (ref \in Address => ref \in Live(heap))

There == Variables \cup Live(heap)

\* A compound keeps the tags of names it keeps.
Kept(p) == \A n \in DOMAIN tree[p] \cap DOMAIN tree'[p] : tree'[p][n] = tree[p][n]

\* An owned heap makes an owned state, whichever reference is handed out.
LEMMA BecomesInv ==
  ASSUME NEW h, Owned(h), NEW r, Becomes(h, r)
  PROVE  Inv' /\ tree' = h.tree
<1>1. tag' = h.tag /\ tree' = h.tree
  BY DEF Becomes
<1>2. heap' = h
  BY <1>1, HeapIs DEF heap
<1>3. ref' \in Address => h.tag[ref'] # Free
  BY AddressAssumption DEF Becomes
<1> QED
  BY <1>1, <1>2, <1>3 DEF Inv, Owned, Heap, Sound, Single, Live

\* The places a program can name.
LEMMA ReachableThere ==
  ASSUME Inv, NEW q \in Reachable
  PROVE  q \in There /\ q \in Place /\ q \notin Below(heap, q)
<1>1. q \in Variables \cup UNION {Below(heap, c) : c \in Variables}
  BY DEF Reachable
<1> QED
  BY <1>1, NoCycle DEF Inv, There

\* A new tag inserted, whatever it is made of.
LEMMA InsertMade ==
  ASSUME Inv, NEW p \in There, NEW n \in Name, NEW new, NEW h, Made(heap, h, new, n),
         h.tree[p] = tree[p], \A q \in There : h.tree[q] \in {tree[q], Nothing},
         NEW leaks \in BOOLEAN, NEW r, Becomes(Inserted(h, p, n, new, leaks), r)
  PROVE  Inv' /\ \A q \in There : Kept(q)
<1> DEFINE g == Inserted(h, p, n, new, leaks)
<1>1. Owned(h) /\ Root(h, new) /\ h.tag[new].name = n /\ p \in Variables \cup Live(h)
  BY DEF Made, There
<1>2. /\ Owned(g)
      /\ \A q \in Place \ {p} : g.tree[q] \in {h.tree[q], Nothing}
      /\ \A m \in DOMAIN h.tree[p] \cap DOMAIN g.tree[p] : g.tree[p][m] = h.tree[p][m]
  BY <1>1, InsertedOwned
<1> HIDE DEF g
<1>3. Inv' /\ tree' = g.tree
  BY <1>2, BecomesInv DEF g
<1>4. \A q \in There \ {p} : g.tree[q] \in {tree[q], Nothing}
  BY <1>2 DEF There, Place, Live
<1>5. \A q \in There : Kept(q)
  BY <1>2, <1>3, <1>4, TreeIs DEF Kept
<1> QED
  BY <1>3, <1>5

\* Each of the five insertions preserves Inv and keeps what lived before.
LEMMA InsertInv ==
  ASSUME Inv, NEW p \in Reachable, NEW n \in Name,
         InsertTag(p, n) \/ InsertTagCopied(p, n) \/ InsertTagMoved(p, n)
           \/ InsertValue(p, n) \/ InsertValueMoved(p, n)
  PROVE  Inv' /\ \A q \in There : Kept(q)
<1>1. p \in There /\ Owned(heap) /\ heap.tree = tree
  BY ReachableThere DEF Inv, heap
<1>2. \A q \in There : q \in Place
  BY DEF There, Place, Live
<1>3. ASSUME NEW new \in Available(heap), NEW x \in Scalar, NEW leaks \in BOOLEAN, NEW r,
             Becomes(Inserted(NewScalar(heap, new, n, x), p, n, new, leaks), r)
      PROVE  Inv' /\ \A q \in There : Kept(q)
  <2>1. x \in Scalar \cup {Compound}
    OBVIOUS
  <2>2. Made(heap, NewScalar(heap, new, n, x), new, n)
    BY <1>1, <2>1, NewScalarMade
  <2> DEFINE h == NewScalar(heap, new, n, x)
  <2>3. h.tree = tree
    BY DEF NewScalar, heap
  <2>4. Becomes(Inserted(h, p, n, new, leaks), r)
    BY <1>3
  <2> HIDE DEF h
  <2>5. h.tree[p] = tree[p] /\ \A q \in There : h.tree[q] \in {tree[q], Nothing}
    BY <2>3
  <2> QED
    BY <1>1, <2>2, <2>4, <2>5, InsertMade DEF h
<1>4. ASSUME NEW new \in Available(heap), NEW q \in Reachable, NEW copy \in Clones(heap, q, {new}),
             NEW leaks \in BOOLEAN,
             Becomes(Inserted(NewCopy(heap, new, n, q, copy), p, n, new, leaks), new)
      PROVE  Inv' /\ \A s \in There : Kept(s)
  <2>1. q \in Place /\ q \notin Below(heap, q)
    BY ReachableThere
  <2>2. /\ Made(heap, NewCopy(heap, new, n, q, copy), new, n)
        /\ \A s \in There : NewCopy(heap, new, n, q, copy).tree[s] = tree[s]
    BY <1>1, <2>1, NewCopyMade DEF There
  <2> QED
    BY <1>1, <1>4, <2>2, InsertMade
<1>5. ASSUME NEW new \in Available(heap), NEW c \in Variables, Movable(c, p), NEW leaks \in BOOLEAN,
             NEW r, Becomes(Inserted(NewMoved(heap, new, n, c), p, n, new, leaks), r)
      PROVE  Inv' /\ \A q \in There : Kept(q)
  <2>1. /\ Made(heap, NewMoved(heap, new, n, c), new, n)
        /\ \A q \in Place \ {new, c} : NewMoved(heap, new, n, c).tree[q] = tree[q]
        /\ NewMoved(heap, new, n, c).tree[c] = Nothing
    BY <1>1, NewMovedMade
  <2>2. p # c /\ new \notin There
    BY <1>5, AddressAssumption DEF Movable, There, Available
  <2> QED
    BY <1>1, <1>2, <1>5, <2>1, <2>2, InsertMade
<1>6. CASE InsertTag(p, n)
  BY <1>3, <1>6 DEF InsertTag
<1>7. CASE InsertTagCopied(p, n)
  BY <1>4, <1>7 DEF InsertTagCopied
<1>8. CASE InsertTagMoved(p, n)
  BY <1>5, <1>8 DEF InsertTagMoved
<1>9. CASE InsertValue(p, n)
  BY <1>3, <1>9 DEF InsertValue
<1>10. CASE InsertValueMoved(p, n)
  BY <1>5, <1>10 DEF InsertValueMoved
<1> QED
  BY <1>6, <1>7, <1>8, <1>9, <1>10

\* One tag goes, with what is below it.
LEMMA RemoveInv ==
  ASSUME Inv, NEW p \in Reachable, NEW n \in Name, Remove(p, n)
  PROVE  Inv' /\ \A q \in There : Kept(q)
<1> DEFINE a == tree[p][n]
           t == Restrict(tree[p], DOMAIN tree[p] \ {n})
           gone == {a} \cup Below(heap, a)
           h == WithTree(heap, p, t)
           g == Freed(h, gone)
<1>1. p \in Place /\ n \in DOMAIN tree[p] /\ Owned(heap) /\ heap.tree = tree /\ heap.tag = tag
  BY ReachableThere DEF Inv, heap, Remove
<1>2. Becomes(g, ref)
  BY DEF Remove
<1>3. a \in Live(heap) /\ a \in Place
  BY <1>1 DEF Owned, Sound, Live, Place
<1>4. t \in Tree /\ DOMAIN t = DOMAIN tree[p] \ {n} /\ \A m \in DOMAIN t : t[m] = tree[p][m]
  <2>1. tree[p] \in Tree
    BY <1>1, HeapIs
  <2>2. DOMAIN t = DOMAIN tree[p] \ {n} /\ \A m \in DOMAIN t : t[m] = tree[p][m]
    BY DEF Restrict
  <2>3. DOMAIN t \in SUBSET Name /\ t \in [DOMAIN t -> Address]
    BY <2>1, <2>2, TreeIs DEF Restrict
  <2> QED
    BY <2>2, <2>3, TreeIs
<1>5. h = [tag |-> tag, tree |-> [tree EXCEPT ![p] = t]]
  BY DEF WithTree, heap
<1> HIDE DEF h, t
<1>6. h.tag = tag /\ h.tree = [tree EXCEPT ![p] = t]
  BY <1>5
<1>7. h.tree[p] = t /\ \A q \in Place \ {p} : h.tree[q] = tree[q]
  BY <1>1, <1>6, HeapIs
<1>8. h \in Heap
  <2>1. tag \in [Address -> Tag \cup {Free}] /\ tree \in [Place -> Tree]
    BY <1>1, HeapIs
  <2>2. [tree EXCEPT ![p] = t] \in [Place -> Tree]
    BY <1>4, <2>1
  <2> QED
    BY <1>5, <2>1, <2>2 DEF Heap
<1>9. \A q \in Place : \A m \in DOMAIN h.tree[q] :
        m \in DOMAIN tree[q] /\ h.tree[q][m] = tree[q][m] /\ (q = p => m # n)
  BY <1>4, <1>7
<1>10. Live(h) = Live(heap)
  BY <1>1, <1>6 DEF Live
<1>11. Owned(h)
  <2>1. Sound(h)
    BY <1>1, <1>6, <1>9, <1>10 DEF Sound, Owned
  <2>2. Single(h)
    BY <1>1, <1>9 DEF Single, Owned
  <2> QED
    BY <1>8, <2>1, <2>2 DEF Owned
<1>12. Sealed(h, gone)
  <2>1. gone \subseteq Address
    BY <1>3 DEF Below, Live
  <2>2. ASSUME NEW q \in Place \ gone, NEW m \in DOMAIN h.tree[q] PROVE h.tree[q][m] \notin gone
    <3>1. /\ m \in DOMAIN tree[q] /\ h.tree[q][m] = tree[q][m] /\ (q = p => m # n)
          /\ Single(heap)
      BY <1>1, <1>9, <2>2 DEF Owned
    <3>2. tree[q][m] # a
      BY <1>1, <3>1 DEF Single
    <3>3. ASSUME tree[q][m] \in Below(heap, a) PROVE FALSE
      <4>1. PICK o \in gone : \E k \in DOMAIN tree[o] : tree[o][k] = tree[q][m]
        BY <1>1, <1>3, <3>3, BelowIs
      <4>2. o \in Place
        BY <2>1 DEF Place
      <4>3. o = q
        BY <1>1, <3>1, <4>1, <4>2 DEF Single
      <4> QED
        BY <4>3
    <3> QED
      BY <3>1, <3>2, <3>3
  <2> QED
    BY <2>1, <2>2 DEF Sealed
<1> HIDE DEF gone
<1>13. Owned(g) /\ \A q \in Place : g.tree[q] \in {h.tree[q], Nothing}
  BY <1>11, <1>12, FreedOwned
<1> HIDE DEF g
<1>14. Inv' /\ tree' = g.tree
  BY <1>2, <1>13, BecomesInv
<1>15. \A q \in There : Kept(q)
  <2> SUFFICES ASSUME NEW q \in Place PROVE Kept(q)
    BY DEF There, Place, Live
  <2> QED
    BY <1>9, <1>13, <1>14, TreeIs DEF Kept
<1> QED
  BY <1>14, <1>15

\* All below a compound goes.
LEMMA BelowSealed ==
  ASSUME NEW h, Owned(h), NEW p \in Place, NEW q \in Place \ ({p} \cup Below(h, p)),
         NEW n \in DOMAIN h.tree[q]
  PROVE  h.tree[q][n] \notin Below(h, p)
<1> SUFFICES ASSUME h.tree[q][n] \in Below(h, p) PROVE FALSE
  OBVIOUS
<1>1. PICK o \in {p} \cup Below(h, p) : \E m \in DOMAIN h.tree[o] : h.tree[o][m] = h.tree[q][n]
  BY BelowIs
<1>2. o \in Place /\ Single(h)
  BY DEF Below, Place, Owned
<1>3. o = q
  BY <1>1, <1>2 DEF Single
<1> QED
  BY <1>3

\* What a variable held before it is emptied.
LEMMA EmptiedOwned ==
  ASSUME NEW h, Owned(h), NEW c \in Place
  PROVE  /\ Owned(WithTree(h, c, Nothing))
         /\ WithTree(h, c, Nothing).tree = [h.tree EXCEPT ![c] = Nothing]
         /\ Sealed(WithTree(h, c, Nothing), Below(h, c))
<1> DEFINE g == WithTree(h, c, Nothing)
<1>1. g.tag = h.tag /\ g.tree = [h.tree EXCEPT ![c] = Nothing] /\ g = [tag |-> g.tag, tree |-> g.tree]
  <2>1. h = [tag |-> h.tag, tree |-> h.tree]
    BY HeapIs
  <2> QED
    BY <2>1 DEF WithTree
<1> HIDE DEF g
<1>2. h.tag \in [Address -> Tag \cup {Free}] /\ h.tree \in [Place -> Tree]
  BY HeapIs
<1>3. g.tree[c] = Nothing /\ \A q \in Place \ {c} : g.tree[q] = h.tree[q]
  BY <1>1, <1>2
<1>4. \A q \in Place : \A n \in DOMAIN g.tree[q] :
        q # c /\ n \in DOMAIN h.tree[q] /\ g.tree[q][n] = h.tree[q][n]
  BY <1>3, TreeIs
<1>5. g \in Heap
  <2>1. g.tree \in [Place -> Tree]
    BY <1>1, <1>2, TreeIs
  <2> QED
    BY <1>1, <1>2, <2>1 DEF Heap
<1>6. Live(g) = Live(h)
  BY <1>1 DEF Live
<1>7. Sound(g)
  BY <1>1, <1>4, <1>6 DEF Sound, Owned
<1>8. Single(g)
  BY <1>4 DEF Single, Owned
<1>9. Sealed(g, Below(h, c))
  <2>1. Below(h, c) \subseteq Address
    BY DEF Below
  <2> QED
    BY <1>4, <2>1, BelowSealed DEF Sealed
<1> QED
  BY <1>1, <1>5, <1>7, <1>8, <1>9 DEF Owned, g

\* So does the end of a variable.
LEMMA DropInv ==
  ASSUME Inv, NEW c \in Variables, Drop(c)
  PROVE  Inv' /\ \A q \in There : Kept(q)
<1> DEFINE h == WithTree(heap, c, Nothing)
           g == Freed(h, Below(heap, c))
<1>1. Owned(heap) /\ heap.tree = tree /\ c \in Place
  BY DEF Inv, heap, Place
<1>2. Owned(h) /\ h.tree = [tree EXCEPT ![c] = Nothing] /\ Sealed(h, Below(heap, c))
  BY <1>1, EmptiedOwned
<1>3. Becomes(g, ref)
  BY DEF Drop
<1> HIDE DEF h
<1>4. Owned(g) /\ \A q \in Place : g.tree[q] \in {h.tree[q], Nothing}
  BY <1>2, FreedOwned
<1> HIDE DEF g
<1>5. Inv' /\ tree' = g.tree
  BY <1>3, <1>4, BecomesInv
<1>6. \A q \in Place : g.tree[q] \in {tree[q], Nothing}
  <2>1. tree \in [Place -> Tree]
    BY <1>1, HeapIs
  <2> QED
    BY <1>2, <1>4, <2>1
<1>7. \A q \in There : Kept(q)
  BY <1>5, <1>6, TreeIs DEF Kept, There, Place, Live
<1> QED
  BY <1>5, <1>7

\* All that a variable holds goes to p, and what p held is freed.
LEMMA MoveAssignInv ==
  ASSUME Inv, NEW p \in Reachable, NEW c \in Variables, MoveAssign(p, c)
  PROVE  Inv' /\ \A q \in There : Kept(q) \/ tree'[q] = tree[c]
<1> DEFINE B == Below(heap, p)
           from(q) == IF q = p THEN c ELSE q
           h == WithTree(WithTree(heap, p, tree[c]), c, Nothing)
           g == Freed(h, B)
<1>1. /\ Owned(heap) /\ heap.tree = tree /\ heap.tag = tag
      /\ c \in Place /\ p \in Place /\ p \in There /\ p \notin B /\ p # c
      /\ c \notin B /\ p \notin Below(heap, c)
  BY ReachableThere, AddressAssumption DEF Inv, heap, Place, MoveAssign, Movable
<1>2. Becomes(g, ref)
  BY DEF MoveAssign
<1>3. h = [tag |-> tag, tree |-> [[tree EXCEPT ![p] = tree[c]] EXCEPT ![c] = Nothing]]
  <2>1. WithTree(heap, p, tree[c]) = [tag |-> tag, tree |-> [tree EXCEPT ![p] = tree[c]]]
    BY DEF WithTree, heap
  <2>2. \A u : WithTree([tag |-> tag, tree |-> u], c, Nothing)
                = [tag |-> tag, tree |-> [u EXCEPT ![c] = Nothing]]
    BY DEF WithTree
  <2> QED
    BY <2>1, <2>2
<1>4. tag \in [Address -> Tag \cup {Free}] /\ tree \in [Place -> Tree]
  BY <1>1, HeapIs
<1> HIDE DEF h
<1>5. /\ h.tag = tag /\ h.tree[p] = tree[c] /\ h.tree[c] = Nothing
      /\ \A q \in Place \ {p, c} : h.tree[q] = tree[q]
  BY <1>1, <1>3, <1>4
<1>6. /\ \A q \in Place : from(q) \in Place
      /\ \A q \in Place : \A n \in DOMAIN h.tree[q] :
           q # c /\ n \in DOMAIN tree[from(q)] /\ h.tree[q][n] = tree[from(q)][n]
      /\ \A q, r \in Place \ {c} : from(q) = from(r) => q = r
  BY <1>1, <1>5, TreeIs
<1>7. h \in Heap
  <2>1. [[tree EXCEPT ![p] = tree[c]] EXCEPT ![c] = Nothing] \in [Place -> Tree]
    BY <1>1, <1>4, TreeIs
  <2> QED
    BY <1>3, <1>4, <2>1 DEF Heap
<1>8. Live(h) = Live(heap) /\ \A q \in Place : q \in {p, c} \/ from(q) = q
  BY <1>1, <1>5 DEF Live
<1>9. Sound(heap) /\ Single(heap)
  BY <1>1 DEF Owned
<1> HIDE DEF from
<1>10. Sound(h)
  BY <1>1, <1>5, <1>6, <1>8, <1>9 DEF Sound, There
<1>11. Single(h)
  BY <1>1, <1>6, <1>9 DEF Single
<1>12. Sealed(h, B)
  <2>1. B \subseteq Address
    BY DEF Below
  <2>2. ASSUME NEW q \in Place \ B, NEW n \in DOMAIN h.tree[q] PROVE h.tree[q][n] \notin B
    <3>1. from(q) \in Place \ ({p} \cup B)
      BY <1>1, <1>6, <2>2 DEF from
    <3> QED
      BY <1>1, <1>6, <2>2, <3>1, BelowSealed
  <2> QED
    BY <2>1, <2>2 DEF Sealed
<1>13. Owned(g) /\ g.tree = [q \in Place |-> IF q \in B THEN Nothing ELSE h.tree[q]]
  BY <1>7, <1>10, <1>11, <1>12, FreedOwned DEF Owned, Freed
<1> HIDE DEF g
<1>14. Inv' /\ tree' = g.tree
  BY <1>2, <1>13, BecomesInv
<1>15. tree'[p] = tree[c] /\ \A q \in Place \ {p} : tree'[q] \in {tree[q], Nothing}
  BY <1>1, <1>5, <1>13, <1>14
<1>16. \A q \in There : Kept(q) \/ tree'[q] = tree[c]
  BY <1>15, TreeIs DEF Kept, There, Place, Live
<1> QED
  BY <1>14, <1>16

\* The clones a compound is assigned, and those it rejects.
LEMMA AssignedOwned ==
  ASSUME NEW h, Owned(h), NEW p \in Variables \cup Live(h), NEW q \in Place, q \notin Below(h, q),
         NEW copy \in Clones(h, q, {})
  PROVE  /\ Owned(Assigned(h, p, q, copy))
         /\ Sealed(Assigned(h, p, q, copy), Rejected(h, p, q, copy))
         /\ \A r \in Variables \cup Live(h) : \A n \in DOMAIN h.tree[r] :
              /\ n \in DOMAIN Assigned(h, p, q, copy).tree[r]
              /\ Assigned(h, p, q, copy).tree[r][n] = h.tree[r][n]
<1> DEFINE g == Cloned(h, copy)
           top(n) == copy[h.tree[q][n]]
           t == [n \in DOMAIN h.tree[q] \ DOMAIN h.tree[p] |-> top(n)]
           u == [n \in DOMAIN h.tree[p] \cup DOMAIN h.tree[q] |->
                   IF n \in DOMAIN h.tree[p] THEN h.tree[p][n] ELSE top(n)]
           w == Assigned(h, p, q, copy)
           waste == Rejected(h, p, q, copy)
           gone(n) == {top(n)} \cup Below(g, top(n))
<1>1. /\ Owned(g) /\ Live(g) = Live(h) \cup Range(copy)
      /\ \A r \in Variables \cup Live(h) : r \in Place /\ g.tree[r] = h.tree[r]
  <2>1. Owned(g) /\ Live(g) = Live(h) \cup Range(copy)
    BY ClonedOwned
  <2>2. copy \in [Below(h, q) -> Available(h) \ {}]
    BY ClonesAre
  <2>3. Range(copy) \subseteq Address \ Live(h)
    BY <2>2 DEF Range, Available
  <2>4. \A r \in Variables \cup Live(h) : r \in Place \ Range(copy)
    BY <2>3, AddressAssumption DEF Place, Live
  <2> QED
    BY <2>1, <2>4, ClonesAre
<1>2. \A n \in DOMAIN h.tree[q] :
        n \in Name /\ top(n) \in Address /\ Root(g, top(n)) /\ g.tag[top(n)].name = n
  BY TopsAreRoots
<1>3. w = WithTree(g, p, u)
  BY DEF Assigned
<1>4. \A m, n \in DOMAIN h.tree[q] : top(m) = top(n) => m = n
  <2>1. \A n \in DOMAIN h.tree[q] : h.tree[q][n] \in Below(h, q)
    BY BelowIs
  <2>2. \A a, b \in Below(h, q) : copy[a] = copy[b] => a = b
    BY ClonesAre
  <2> QED
    BY <2>1, <2>2 DEF Owned, Single
<1> HIDE DEF g, top, w
<1>5. t \in Tree /\ DOMAIN t = DOMAIN h.tree[q] \ DOMAIN h.tree[p]
  <2>1. DOMAIN h.tree[q] \ DOMAIN h.tree[p] \in SUBSET Name
    BY <1>2
  <2>2. t \in [DOMAIN h.tree[q] \ DOMAIN h.tree[p] -> Address]
    BY <1>2
  <2> QED
    BY <2>1, <2>2, TreeIs
<1>6. Hung(g, p, t, u)
  <2>1. u = [n \in DOMAIN g.tree[p] \cup DOMAIN t |->
               IF n \in DOMAIN t THEN t[n] ELSE g.tree[p][n]]
    BY <1>1, <1>5
  <2>2. \A n \in DOMAIN t : Root(g, t[n]) /\ g.tag[t[n]].name = n
    BY <1>2, <1>5
  <2> QED
    BY <1>1, <1>5, <2>1, <2>2 DEF Hung
<1>7. /\ Owned(w) /\ w.tree[p] = u
      /\ \A r \in Place \ {p} : w.tree[r] = g.tree[r]
      /\ \A n \in DOMAIN g.tree[p] : n \in DOMAIN u /\ u[n] = g.tree[p][n]
  <2> HIDE DEF u
  <2> QED
    BY <1>1, <1>6, <1>3, HungOwned
<1>8. \A r \in Variables \cup Live(h) : \A n \in DOMAIN h.tree[r] :
        n \in DOMAIN w.tree[r] /\ w.tree[r][n] = h.tree[r][n]
  BY <1>1, <1>7
<1>9. waste = UNION {gone(n) : n \in DOMAIN h.tree[q] \cap DOMAIN h.tree[p]}
  BY DEF g, top, Rejected
<1>10. \A r \in Place : \A n \in DOMAIN w.tree[r] :
        \/ n \in DOMAIN g.tree[r] /\ w.tree[r][n] = g.tree[r][n]
        \/ n \in DOMAIN h.tree[q] \ DOMAIN h.tree[p] /\ w.tree[r][n] = top(n)
  BY <1>1, <1>7
<1>11. ASSUME NEW m \in DOMAIN h.tree[q] \cap DOMAIN h.tree[p], NEW r \in Place \ gone(m),
              NEW n \in DOMAIN w.tree[r]
       PROVE  w.tree[r][n] \notin gone(m)
  <2>1. CASE n \in DOMAIN g.tree[r] /\ w.tree[r][n] = g.tree[r][n]
    <3>1. Sealed(g, gone(m))
      BY <1>1, <1>2, RootSealed
    <3> QED
      BY <2>1, <3>1 DEF Sealed
  <2>2. CASE n \in DOMAIN h.tree[q] \ DOMAIN h.tree[p] /\ w.tree[r][n] = top(n)
    <3>1. top(n) # top(m)
      BY <1>4, <2>2
    <3>2. ASSUME top(n) \in Below(g, top(m)) PROVE FALSE
      <4>1. top(m) \in Place
        BY <1>2 DEF Place
      <4>2. PICK o \in gone(m) : \E k \in DOMAIN g.tree[o] : g.tree[o][k] = top(n)
        BY <1>1, <3>2, <4>1, BelowIs
      <4>3. o \in Place
        BY <4>1 DEF Below, Place
      <4> QED
        BY <1>2, <2>2, <4>2, <4>3 DEF Root
    <3> QED
      BY <2>2, <3>1, <3>2
  <2> QED
    BY <1>10, <2>1, <2>2
<1>12. \A m \in DOMAIN h.tree[q] : gone(m) \subseteq Address
  BY <1>2 DEF Below
<1> HIDE DEF gone, waste
<1>13. Sealed(w, waste)
  <2>1. \A x : x \in waste <=> \E m \in DOMAIN h.tree[q] \cap DOMAIN h.tree[p] : x \in gone(m)
    BY <1>9
  <2>2. waste \subseteq Address
    BY <1>12, <2>1
  <2>3. \A r \in Place \ waste : \A n \in DOMAIN w.tree[r] : w.tree[r][n] \notin waste
    BY <1>11, <2>1
  <2> QED
    BY <2>2, <2>3 DEF Sealed
<1> QED
  BY <1>7, <1>8, <1>13 DEF w, waste

\* So does an assignment, whether or not the library leaks what it replaces.
LEMMA AssignInv ==
  ASSUME Inv, NEW p \in Reachable, NEW q \in Reachable, Assign(p, q)
  PROVE  Inv' /\ \A r \in There : Kept(r)
<1>1. /\ p \in There /\ q \in Place /\ q \notin Below(heap, q)
      /\ Owned(heap) /\ heap.tree = tree
  BY ReachableThere DEF Inv, heap
<1>2. PICK copy \in Clones(heap, q, {}), leaks \in BOOLEAN :
        Becomes(IF leaks THEN Assigned(heap, p, q, copy)
                ELSE Freed(Assigned(heap, p, q, copy), Rejected(heap, p, q, copy)), ref)
  BY DEF Assign
<1> DEFINE w == Assigned(heap, p, q, copy)
           waste == Rejected(heap, p, q, copy)
           g == IF leaks THEN w ELSE Freed(w, waste)
<1>3. Becomes(g, ref)
  BY <1>2
<1>4. /\ Owned(w) /\ Sealed(w, waste)
      /\ \A r \in There : \A n \in DOMAIN tree[r] :
           n \in DOMAIN w.tree[r] /\ w.tree[r][n] = tree[r][n]
  <2>1. p \in Variables \cup Live(heap)
    BY <1>1 DEF There
  <2> QED
    BY <1>1, <2>1, AssignedOwned DEF There
<1> HIDE DEF w, waste
<1>5. Owned(g) /\ \A r \in Place : g.tree[r] \in {w.tree[r], Nothing}
  BY <1>4, FreedOwned
<1> HIDE DEF g
<1>6. Inv' /\ tree' = g.tree
  BY <1>3, <1>5, BecomesInv
<1>7. \A r \in There : Kept(r)
  BY <1>4, <1>5, <1>6, TreeIs DEF Kept, There, Place, Live
<1> QED
  BY <1>6, <1>7

\* So does a lookup.
LEMMA GetInv ==
  ASSUME Inv, NEW p \in Reachable, NEW n \in Name, Get(p, n)
  PROVE  Inv' /\ \A q \in There : Kept(q)
<1>1. Owned(heap) /\ heap.tree = tree
  BY DEF Inv, heap
<1>2. Inv' /\ tree' = heap.tree
  BY <1>1, BecomesInv DEF Get
<1> QED
  BY <1>1, <1>2 DEF Kept

\* So does a write through the reference handed out last.
LEMMA WriteInv ==
  ASSUME Inv, Write
  PROVE  Inv' /\ \A q \in There : Kept(q)
<1>1. Owned(heap) /\ heap.tree = tree /\ heap.tag = tag /\ ref \in Live(heap)
  BY DEF Inv, heap, Write
<1>2. PICK x \in Scalar : Becomes([heap EXCEPT !.tag[ref].payload = x], ref)
  BY DEF Write
<1> DEFINE made == [tag[ref] EXCEPT !.payload = x]
           h == [tag |-> [tag EXCEPT ![ref] = made], tree |-> tree]
<1>3. Becomes(h, ref)
  BY <1>2 DEF heap
<1>4. made \in Tag /\ made.name = tag[ref].name
  BY <1>1, HeapIs DEF Tag, Live
<1> HIDE DEF made
<1>5. ref \in Address /\ tag \in [Address -> Tag \cup {Free}] /\ tree \in [Place -> Tree]
  BY <1>1, HeapIs DEF Live
<1>6. /\ h.tree = tree /\ h.tag[ref] = made
      /\ \A a \in Address \ {ref} : h.tag[a] = tag[a]
      /\ h \in Heap
  BY <1>4, <1>5 DEF Heap
<1> HIDE DEF h
<1>7. Live(h) = Live(heap) /\ \A a \in Live(heap) : h.tag[a].name = tag[a].name
  BY <1>1, <1>4, <1>6, TagIsNotFree DEF Live
<1>8. Owned(h)
  <2>1. Sound(h)
    BY <1>1, <1>6, <1>7 DEF Sound, Owned
  <2>2. Single(h)
    BY <1>1, <1>6 DEF Single, Owned
  <2> QED
    BY <1>6, <2>1, <2>2 DEF Owned
<1>9. Inv' /\ tree' = h.tree
  BY <1>3, <1>8, BecomesInv
<1> QED
  BY <1>6, <1>9 DEF Kept

\* Inv holds at first.
LEMMA InitInv == Init => Inv
<1> SUFFICES ASSUME Init PROVE Inv
  OBVIOUS
<1>1. /\ tag = [a \in Address |-> Free] /\ tree = [p \in Place |-> Nothing] /\ ref = NoRef
      /\ heap.tag = tag /\ heap.tree = tree /\ heap = [tag |-> tag, tree |-> tree]
  BY DEF Init, heap
<1>2. \A p \in Place : tree[p] = Nothing /\ DOMAIN tree[p] = {}
  BY <1>1, TreeIs
<1>3. heap \in Heap
  <2>1. tag \in [Address -> Tag \cup {Free}] /\ tree \in [Place -> Tree]
    BY <1>1, TreeIs
  <2> QED
    BY <1>1, <2>1 DEF Heap
<1>4. Sound(heap) /\ Single(heap)
  BY <1>1, <1>2 DEF Sound, Single
<1> QED
  BY <1>1, <1>3, <1>4, AddressAssumption DEF Inv, Owned

\* One step: the invariant, and what it does to the compounds that are there.
LEMMA NextInv ==
  ASSUME Inv, Next
  PROVE  Inv' /\ \A q \in There : Kept(q) \/ \E c \in Variables : tree'[q] = tree[c]
<1>1. ASSUME NEW p \in Reachable, NEW n \in Name,
             InsertTag(p, n) \/ InsertTagCopied(p, n) \/ InsertTagMoved(p, n)
               \/ InsertValue(p, n) \/ InsertValueMoved(p, n)
      PROVE  Inv' /\ \A q \in There : Kept(q)
  BY <1>1, InsertInv
<1>2. ASSUME NEW p \in Reachable, NEW n \in Name, Remove(p, n)
      PROVE  Inv' /\ \A q \in There : Kept(q)
  BY <1>2, RemoveInv
<1>3. ASSUME NEW p \in Reachable, NEW n \in Name, Get(p, n)
      PROVE  Inv' /\ \A q \in There : Kept(q)
  BY <1>3, GetInv
<1>4. ASSUME NEW p \in Reachable, NEW q \in Reachable, Assign(p, q)
      PROVE  Inv' /\ \A r \in There : Kept(r)
  BY <1>4, AssignInv
<1>5. ASSUME NEW p \in Reachable, NEW c \in Variables, MoveAssign(p, c)
      PROVE  Inv' /\ \A q \in There : Kept(q) \/ tree'[q] = tree[c]
  BY <1>5, MoveAssignInv
<1>6. ASSUME NEW c \in Variables, Drop(c)
      PROVE  Inv' /\ \A q \in There : Kept(q)
  BY <1>6, DropInv
<1>7. CASE Write
  BY <1>7, WriteInv
<1> QED
  BY <1>1, <1>2, <1>3, <1>4, <1>5, <1>6, <1>7 DEF Next

\* Every step preserves it.
LEMMA StepInv == Inv /\ [Next]_vars => Inv'
<1>1. ASSUME Inv, Next PROVE Inv'
  BY <1>1, NextInv
<1>2. ASSUME Inv, UNCHANGED vars PROVE Inv'
  BY <1>2 DEF Inv, vars, heap, Owned, Heap, Sound, Single, Live
<1> QED
  BY <1>1, <1>2

-----------------------------------------------------------------------------
(* Theorems.                                                               *)

\* Whatever a program does with its compounds, no tag is freed twice or used
\* after it is freed: each has one owner, and the reference last handed out
\* leads to a tag or is known to be stale.
THEOREM AlwaysOwnedOnce == Spec => []OwnedOnce
<1>1. Inv => OwnedOnce
  <2> SUFFICES ASSUME Inv PROVE OwnedOnce
    OBVIOUS
  <2>1. Sound(heap) /\ Single(heap) /\ heap.tree = tree /\ heap.tag = tag
    BY DEF Inv, Owned, heap
  <2>2. ASSUME NEW s \in Slots
        PROVE  s[1] \in Place /\ s[2] \in DOMAIN tree[s[1]] /\ s = <<s[1], s[2]>>
    BY DEF Slots
  <2>3. \A s \in Slots : /\ tree[s[1]][s[2]] \in Live(heap)
                         /\ tag[tree[s[1]][s[2]]].name = s[2]
                         /\ s[1] \in Variables \cup Live(heap)
    BY <2>1, <2>2 DEF Sound
  <2>4. ASSUME NEW s \in Slots, NEW t \in Slots, tree[s[1]][s[2]] = tree[t[1]][t[2]]
        PROVE  s = t
    <3>1. s[1] = t[1] /\ s[2] = t[2]
      BY <2>1, <2>2, <2>4 DEF Single
    <3> QED
      BY <2>2, <3>1
  <2> QED
    BY <2>3, <2>4 DEF OwnedOnce, Inv
<1> QED
  BY <1>1, InitInv, StepInv, PTL DEF Spec

\* A reference to a tag stays good while its name is in the compound, through
\* every insertion and assignment, unless another compound is moved in.
THEOREM ReferencesStayGood == Spec => AddressesStable
<1> DEFINE Step == \A p \in Reachable \cap Reachable' :
                      \/ \A n \in DOMAIN tree[p] \cap DOMAIN tree'[p] : tree'[p][n] = tree[p][n]
                      \/ \E c \in Variables : tree'[p] = tree[c]
<1>1. Inv /\ [Next]_vars => [Step]_vars
  <2> SUFFICES ASSUME Inv, Next PROVE Step
    OBVIOUS
  <2>1. \A q \in There : Kept(q) \/ \E c \in Variables : tree'[q] = tree[c]
    BY NextInv
  <2>2. \A q \in Reachable : q \in There
    BY ReachableThere
  <2> QED
    BY <2>1, <2>2 DEF Kept
<1> HIDE DEF Step
<1>2. Spec => [][Step]_vars
  BY <1>1, InitInv, StepInv, PTL DEF Spec
<1> QED
  BY <1>2 DEF AddressesStable, Step
=============================================================================
