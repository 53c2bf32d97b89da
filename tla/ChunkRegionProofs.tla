-------------------------- MODULE ChunkRegionProofs --------------------------
(***************************************************************************)
(* Proofs about ChunkRegion, for every side of a region and every file.    *)
(***************************************************************************)
EXTENDS ChunkRegion, TLAPS

HomeSlot(i) == <<i % Side, i \div Side>>

-----------------------------------------------------------------------------
(* The grid.                                                               *)

\* Quotient and remainder.
LEMMA Division ==
  ASSUME NEW n \in Nat \ {0}, NEW i \in Nat
  PROVE  /\ i % n \in 0..(n - 1) /\ i \div n \in Nat
         /\ i = n * (i \div n) + (i % n)
BY SMT

\* They are unique.
LEMMA DivisionUnique ==
  ASSUME NEW n \in Nat \ {0}, NEW q \in Nat, NEW r \in 0..(n - 1)
  PROVE  (n * q + r) \div n = q /\ (n * q + r) % n = r
BY SMT

\* Positions inside the region have an index in the table, and back.
LEMMA Grid ==
  ASSUME NEW n \in Nat \ {0}, NEW q \in 0..(n - 1), NEW r \in 0..(n - 1)
  PROVE  n * q + r \in 0..(n * n - 1)
BY SMT

\* The quotient of an index is inside the region.
LEMMA GridBack ==
  ASSUME NEW n \in Nat \ {0}, NEW i \in 0..(n * n - 1)
  PROVE  i \div n \in 0..(n - 1)
<1> DEFINE q == i \div n  r == i % n
<1>0. n * n \in Nat /\ i \in Nat /\ i < n * n
  BY SMT
<1>1. q \in Nat /\ r \in 0..(n - 1) /\ i = n * q + r
  BY <1>0, Division
<1> HIDE DEF q, r
<1>2. n * q <= i /\ i < n * n
  <2>1. n * q \in Nat
    BY <1>1, SMT
  <2> QED BY <1>0, <1>1, <2>1
<1>3. ASSUME n <= q PROVE FALSE
  <2>1. n * n <= n * q
    BY <1>1, <1>3, SMT
  <2> QED BY <1>0, <1>1, <1>2, <2>1, SMT
<1>4. q \in 0..(n - 1)
  BY <1>1, <1>3
<1> QED BY <1>4 DEF q

\* Different entries have different slots.
LEMMA HomeSlotInjective ==
  ASSUME NEW i \in Entries, NEW j \in Entries, HomeSlot(i) = HomeSlot(j)
  PROVE  i = j
<1>1. i \in Nat /\ j \in Nat /\ Side \in Nat \ {0}
  BY SideAssumption DEF Entries
<1>2. i % Side = j % Side /\ i \div Side = j \div Side
  BY DEF HomeSlot
<1>3. /\ i = Side * (i \div Side) + (i % Side)
      /\ j = Side * (j \div Side) + (j % Side)
  BY <1>1, Division
<1> QED BY <1>2, <1>3

\* Every slot is some entry's.
LEMMA HomeSlotOnto ==
  /\ \A i \in Entries : HomeSlot(i) \in Slots
  /\ \A slot \in Slots : \E i \in Entries : slot = HomeSlot(i)
<1>1. Side \in Nat \ {0}
  BY SideAssumption
<1>2. ASSUME NEW i \in Entries PROVE HomeSlot(i) \in Slots
  <2>1. i \in 0..(Side * Side - 1) /\ i \in Nat
    BY <1>1 DEF Entries
  <2>2. i % Side \in 0..(Side - 1) /\ i \div Side \in 0..(Side - 1)
    BY <1>1, <2>1, Division, GridBack
  <2> QED BY <2>2 DEF HomeSlot, Slots
<1>3. ASSUME NEW slot \in Slots PROVE \E i \in Entries : slot = HomeSlot(i)
  <2>1. PICK x \in 0..(Side - 1), z \in 0..(Side - 1) : slot = <<x, z>>
    BY <1>3 DEF Slots
  <2> DEFINE i == Side * z + x
  <2>2. i \in Entries
    BY <1>1, Grid DEF Entries
  <2>3. z \in Nat
    BY <1>1
  <2>4. i \div Side = z /\ i % Side = x
    BY <1>1, <2>3, DivisionUnique
  <2> QED BY <2>1, <2>2, <2>4 DEF HomeSlot
<1> QED BY <1>2, <1>3

\* The address of out[x][z] for the position of entry i is in the region and
\* the one of the slot of i.
LEMMA HomeCell ==
  ASSUME NEW i \in Entries
  PROVE  LET cell == Cell(Home(i).xPos, Home(i).zPos)
         IN  cell \in Entries /\ <<cell \div Side, cell % Side>> = HomeSlot(i)
<1>1. Side \in Nat \ {0} /\ i \in 0..(Side * Side - 1) /\ i \in Nat
  BY SideAssumption DEF Entries
<1> DEFINE x == i % Side  z == i \div Side
<1>2. x \in 0..(Side - 1) /\ z \in 0..(Side - 1) /\ x \in Nat
  <2>1. x \in 0..(Side - 1)
    BY <1>1, Division
  <2>2. z \in 0..(Side - 1)
    BY <1>1, GridBack
  <2> HIDE DEF x, z
  <2> QED BY <1>1, <2>1, <2>2
<1> HIDE DEF x, z
<1>3. Side * x + z \in Entries
  BY <1>1, <1>2, Grid DEF Entries
<1>4. (Side * x + z) \div Side = x /\ (Side * x + z) % Side = z
  BY <1>1, <1>2, DivisionUnique
<1> QED BY <1>3, <1>4 DEF Cell, Home, HomeSlot, x, z

-----------------------------------------------------------------------------
(* The table of a region at the origin.                                    *)

\* How large a sector number is, as a number.
LEMMA MaxSectorNat == MaxSector \in Nat
BY SMT DEF MaxSector

\* ... and as a bound.
LEMMA MaxSectorValue ==
  ASSUME NEW l \in Nat, l <= MaxSector
  PROVE  l <= 524287
BY SMT DEF MaxSector

\* Three bytes that name a sector a file can have come through the
\* conversion unharmed.
LEMMA SectorIsLocation ==
  ASSUME NEW w \in Word, Location(w) \in 1..MaxSector
  PROVE  Sector(w) = Location(w) /\ ~Unused(w)
<1> DEFINE a == w[1]  b == w[2]  c == w[3]  m == a % 16
           low == c + 256 * b + 65536 * m
<1>1. a \in Nat /\ b \in Nat /\ c \in Nat
  BY DEF Word, Byte
<1>2. Location(w) = 65536 * a + 256 * b + c
  BY SMT DEF Location
<1>3. Sector(w) = IF low < 524288 THEN low ELSE low - 1048576
  BY SMT DEF Sector
<1> HIDE DEF a, b, c
<1>4. Location(w) \in Nat /\ Location(w) >= 1 /\ Location(w) <= 524287
  <2> DEFINE l == Location(w)
  <2>1. l \in 1..MaxSector
    OBVIOUS
  <2> HIDE DEF l
  <2>4. l \in Nat /\ l >= 1 /\ l <= MaxSector
    BY <2>1, MaxSectorNat
  <2>5. l <= 524287
    BY <2>4, MaxSectorValue, SMT
  <2> QED BY <2>4, <2>5, SMT DEF l
<1>5. a <= 7
  BY <1>1, <1>2, <1>4, SMT
<1>6. m = a
  BY <1>1, <1>5, SMT
<1> HIDE DEF m
<1>7. low = Location(w)
  BY <1>1, <1>2, <1>6, SMT
<1> HIDE DEF low
<1>8. Sector(w) = Location(w)
  BY <1>3, <1>4, <1>7, SMT
<1>9. Sector(w) # 0
  BY <1>4, <1>8, SMT
<1> QED BY <1>8, <1>9 DEF Unused

\* Any three bytes make an int.
LEMMA SectorInt == ASSUME NEW w \in Word PROVE Sector(w) \in Int
<1> DEFINE a == w[1]  b == w[2]  c == w[3]  m == a % 16
           low == c + 256 * b + 65536 * m
<1>1. a \in Nat /\ b \in Nat /\ c \in Nat
  BY DEF Word, Byte
<1>2. Sector(w) = IF low < 524288 THEN low ELSE low - 1048576
  BY SMT DEF Sector
<1> HIDE DEF a, b, c
<1>3. m \in Int
  BY <1>1, SMT
<1> HIDE DEF m
<1> QED BY <1>1, <1>2, <1>3, SMT

\* An entry of zeros is skipped.
LEMMA ZeroUnused ==
  ASSUME NEW w \in Word, \A k \in 1..4 : w[k] = 0
  PROVE  Unused(w)
<1>1. w[1] = 0 /\ w[2] = 0 /\ w[3] = 0 /\ w[4] = 0
  OBVIOUS
<1>2. Sector(w) = 0
  BY <1>1, SMT DEF Sector
<1> QED BY <1>1, <1>2 DEF Unused

\* What the loop does at an entry of such a file.
LEMMA EntryOfOrigin ==
  ASSUME TypeOK, RegionAtOrigin, NEW i \in Entries
  PROVE  LET w == file.header[i]
         IN  /\ w \in Word
             /\ Absent(i) <=> Unused(w)
             /\ ~Absent(i) => /\ Sector(w) = Location(w)
                              /\ Sector(w) \in DOMAIN file.chunks
                              /\ Sector(w) \in Int /\ Sector(w) # Empty
                              /\ file.chunks[Sector(w)] = Home(i)
<1> DEFINE w == file.header[i]
<1>1. w \in Word /\ DOMAIN file.chunks \subseteq 1..MaxSector
  BY FilesAssumption DEF TypeOK
<1>2. CASE Absent(i)
  <2>1. Unused(w)
    BY <1>1, <1>2, ZeroUnused DEF Absent
  <2> QED BY <1>1, <1>2, <2>1
<1>3. CASE ~Absent(i)
  <2>1. Location(w) \in DOMAIN file.chunks /\ file.chunks[Location(w)] = Home(i)
    BY <1>3 DEF RegionAtOrigin
  <2>2. Location(w) \in 1..MaxSector
    BY <1>1, <2>1
  <2>3. Sector(w) = Location(w) /\ ~Unused(w)
    BY <1>1, <2>2, SectorIsLocation
  <2>4. Location(w) \in Int /\ Location(w) # Empty
    BY <2>2, SMT DEF Empty
  <2> HIDE DEF w
  <2>5. /\ ~Unused(w) /\ Sector(w) = Location(w) /\ Sector(w) \in DOMAIN file.chunks
        /\ Sector(w) \in Int /\ Sector(w) # Empty /\ file.chunks[Sector(w)] = Home(i)
    BY <2>1, <2>3, <2>4
  <2> QED BY <1>1, <1>3, <2>5 DEF w
<1> QED BY <1>2, <1>3

-----------------------------------------------------------------------------
(* The inductive invariant: the slots of the entries that have been read     *)
(* are filled, the others are empty.                                         *)

Filled ==
  /\ pc \in {"loading", "loaded"}
  /\ pc = "loaded" => entry \notin Entries
  /\ \A i \in Entries :
       region[HomeSlot(i)]
         = IF i < entry /\ ~Absent(i) THEN Location(file.header[i]) ELSE Empty

IInv == TypeOK /\ (RegionAtOrigin => Filled)

\* Nothing has been read.
LEMMA InitHolds == Init => IInv
<1> SUFFICES ASSUME Init PROVE IInv
  OBVIOUS
<1>1. Side * Side \in Nat
  BY SideAssumption, SMT
<1>2. TypeOK
  BY <1>1 DEF Init, TypeOK, Empty
<1>3. ASSUME NEW i \in Entries PROVE region[HomeSlot(i)] = Empty /\ ~(i < entry)
  BY HomeSlotOnto, <1>1 DEF Init, Entries
<1>4. Filled
  BY <1>3 DEF Init, Filled
<1> QED BY <1>2, <1>4 DEF IInv

\* What Load does to such a file's region: it fills the slot of its entry.
LEMMA LoadAtOrigin ==
  ASSUME TypeOK, RegionAtOrigin, Load
  PROVE  /\ ~Absent(entry) /\ entry' = entry + 1 /\ pc' = pc
         /\ region' = [region EXCEPT ![HomeSlot(entry)] = Location(file.header[entry])]
<1> DEFINE w == file.header[entry]  chunk == file.chunks[Sector(w)]
           cell == Cell(chunk.xPos, chunk.zPos)
<1>1. entry \in Entries /\ ~Unused(w)
  BY DEF Load, offsetAndSize
<1>2. ~Absent(entry) /\ Sector(w) = Location(w) /\ chunk = Home(entry)
  BY <1>1, EntryOfOrigin
<1>3. cell \in Entries /\ <<cell \div Side, cell % Side>> = HomeSlot(entry)
  BY <1>1, <1>2, HomeCell
<1>4. IF cell \in Entries
        THEN /\ region' = [region EXCEPT ![<<cell \div Side, cell % Side>>] = Sector(w)]
             /\ entry' = entry + 1
             /\ pc' = pc
        ELSE pc' = "wild" /\ UNCHANGED <<entry, region>>
  BY DEF Load, offsetAndSize
<1> HIDE DEF cell, w
<1>5. /\ region' = [region EXCEPT ![<<cell \div Side, cell % Side>>] = Sector(w)]
      /\ entry' = entry + 1 /\ pc' = pc
  BY <1>3, <1>4
<1> QED BY <1>2, <1>3, <1>5 DEF w

\* Whatever the file, the types are kept.
LEMMA TypePreserved == TypeOK /\ [Next]_vars => TypeOK'
<1> SUFFICES ASSUME TypeOK, [Next]_vars PROVE TypeOK'
  OBVIOUS
<1>1. Side * Side \in Nat
  BY SideAssumption, SMT
<1>2. ASSUME entry \in Entries PROVE entry + 1 \in 0..(Side * Side)
  BY <1>1, <1>2 DEF Entries
<1>3. CASE Skip
  BY <1>2, <1>3 DEF Skip, TypeOK
<1>4. CASE Load
  <2> DEFINE w == file.header[entry]  chunk == file.chunks[Sector(w)]
             cell == Cell(chunk.xPos, chunk.zPos)
  <2>1. /\ entry \in Entries /\ pc = "loading" /\ file' = file
        /\ IF cell \in Entries
             THEN /\ region' = [region EXCEPT ![<<cell \div Side, cell % Side>>] = Sector(w)]
                  /\ entry' = entry + 1
                  /\ pc' = pc
             ELSE pc' = "wild" /\ UNCHANGED <<entry, region>>
    BY <1>4 DEF Load, offsetAndSize
  <2>2. Sector(w) \in Int
    <3>1. w \in Word
      BY <2>1, FilesAssumption DEF TypeOK
    <3> HIDE DEF w
    <3> QED BY <3>1, SectorInt
  <2> HIDE DEF cell, w
  <2> QED BY <1>2, <2>1, <2>2 DEF TypeOK
<1>5. CASE LoadThrows
  BY <1>5 DEF LoadThrows, TypeOK
<1>6. CASE Return
  BY <1>6 DEF Return, TypeOK
<1>7. CASE UNCHANGED vars
  BY <1>7 DEF vars, TypeOK
<1> QED BY <1>3, <1>4, <1>5, <1>6, <1>7 DEF Next

\* A step of such a file's load keeps the slots filled.
LEMMA FilledPreserved ==
  ASSUME TypeOK, RegionAtOrigin, Filled, [Next]_vars
  PROVE  Filled'
<1>1. Side * Side \in Nat /\ entry \in Nat
  BY SideAssumption, SMT DEF TypeOK
<1>2. ASSUME NEW i \in Entries PROVE i \in Nat /\ HomeSlot(i) \in Slots
  BY HomeSlotOnto, <1>1 DEF Entries
<1>3. CASE Skip
  <2>1. /\ entry \in Entries /\ Absent(entry) /\ pc = "loading"
        /\ entry' = entry + 1 /\ UNCHANGED <<file, region, pc>>
    BY <1>3, EntryOfOrigin DEF Skip, offsetAndSize
  <2>2. ASSUME NEW i \in Entries
        PROVE  (i < entry' /\ ~Absent(i)) <=> (i < entry /\ ~Absent(i))
    <3>1. i < entry + 1 <=> i < entry \/ i = entry
      BY <1>1, <1>2
    <3> QED BY <2>1, <3>1
  <2> QED BY <2>1, <2>2 DEF Filled, Absent
<1>4. CASE Load
  <2>1. /\ entry \in Entries /\ ~Absent(entry) /\ pc = "loading" /\ file' = file
        /\ entry' = entry + 1 /\ pc' = pc
        /\ region' = [region EXCEPT ![HomeSlot(entry)] = Location(file.header[entry])]
    BY <1>4, LoadAtOrigin DEF Load
  <2>2. ASSUME NEW i \in Entries
        PROVE  region'[HomeSlot(i)]
                 = IF i < entry' /\ ~Absent(i) THEN Location(file.header[i]) ELSE Empty
    <3>1. CASE i = entry
      <4>1. i < entry'
        BY <1>1, <2>1, <3>1
      <4>2. region'[HomeSlot(entry)] = Location(file.header[entry])
        BY <1>2, <2>1 DEF TypeOK
      <4> QED BY <2>1, <3>1, <4>1, <4>2
    <3>2. CASE i # entry
      <4>1. HomeSlot(i) # HomeSlot(entry)
        BY <2>1, <3>2, HomeSlotInjective
      <4>2. i < entry' <=> i < entry
        BY <1>1, <1>2, <2>1, <3>2
      <4>3. region'[HomeSlot(i)] = region[HomeSlot(i)]
        BY <1>2, <2>1, <4>1 DEF TypeOK
      <4> QED BY <4>2, <4>3 DEF Filled
    <3> QED BY <3>1, <3>2
  <2> QED BY <2>1, <2>2 DEF Filled, Absent
<1>5. CASE LoadThrows
  <2>1. entry \in Entries /\ ~Unused(file.header[entry])
        /\ Sector(file.header[entry]) \notin DOMAIN file.chunks
    BY <1>5 DEF LoadThrows, offsetAndSize
  <2> QED BY <2>1, EntryOfOrigin
<1>6. CASE Return
  BY <1>6 DEF Return, Filled, Absent
<1>7. CASE UNCHANGED vars
  BY <1>7 DEF vars, Filled, Absent
<1> QED BY <1>3, <1>4, <1>5, <1>6, <1>7 DEF Next

\* A file does not change while it is read.
LEMMA OriginStays == [Next]_vars => (RegionAtOrigin' <=> RegionAtOrigin)
BY DEF Next, Skip, Load, LoadThrows, Return, vars, RegionAtOrigin, Absent

\* The slots of the entries read so far are filled, in every load.
THEOREM Invariance == Spec => []IInv
<1>1. IInv /\ [Next]_vars => IInv'
  BY TypePreserved, FilledPreserved, OriginStays DEF IInv
<1> QED BY <1>1, InitHolds, PTL DEF Spec

\* However large the region and whatever its chunks: loaded, each is where
\* PlayerHandler looks for it.
THEOREM ChunksFindHome == Spec => []ChunksAtHome
<1>1. IInv => ChunksAtHome
  <2> SUFFICES ASSUME IInv, RegionAtOrigin, pc = "loaded", NEW i \in Entries
               PROVE  region[<<i % Side, i \div Side>>]
                        = IF Absent(i) THEN Empty ELSE Location(file.header[i])
    BY DEF ChunksAtHome
  <2>1. Filled /\ entry \notin Entries
    BY DEF IInv, Filled
  <2>2. Side * Side \in Nat /\ entry \in 0..(Side * Side)
    <3>1. Side * Side \in Nat
      BY SideAssumption, SMT
    <3> QED BY <3>1 DEF IInv, TypeOK
  <2>3. i < entry
    BY <2>1, <2>2 DEF Entries
  <2> QED BY <2>1, <2>3 DEF Filled, HomeSlot
<1> QED BY <1>1, Invariance, PTL

\* No step of a load takes away or replaces a chunk that is in place.
THEOREM ChunksStay == Spec => KeepsChunks
<1> DEFINE Keeps == RegionAtOrigin =>
                      \A slot \in Slots : region[slot] # Empty => region'[slot] = region[slot]
<1>1. IInv /\ [Next]_vars => [Keeps]_vars
  <2> SUFFICES ASSUME IInv, Next, RegionAtOrigin, NEW slot \in Slots, region[slot] # Empty
               PROVE  region'[slot] = region[slot]
    OBVIOUS
  <2>1. TypeOK /\ Filled
    BY DEF IInv
  <2>2. CASE Load
    <3>1. PICK i \in Entries : slot = HomeSlot(i)
      BY HomeSlotOnto
    <3>2. i < entry
      BY <2>1, <3>1 DEF Filled
    <3>3. entry \in Entries /\ i # entry
      BY <2>1, <2>2, <3>2 DEF Load, TypeOK
    <3>4. HomeSlot(i) # HomeSlot(entry)
      BY <3>3, HomeSlotInjective
    <3>5. region' = [region EXCEPT ![HomeSlot(entry)] = Location(file.header[entry])]
      BY <2>1, <2>2, LoadAtOrigin
    <3> QED BY <2>1, <3>1, <3>4, <3>5 DEF TypeOK
  <2>3. CASE Skip \/ LoadThrows \/ Return
    BY <2>3 DEF Skip, LoadThrows, Return
  <2> QED BY <2>2, <2>3 DEF Next
<1> QED BY <1>1, Invariance, PTL DEF Spec, KeepsChunks
=============================================================================
