------------------------- MODULE ServerPacketProofs -------------------------
(***************************************************************************)
(* What a client finds in the server's packets: the start of every message *)
(* (Framing), for every length of a name and every number of registries    *)
(* and chunks, and the light of every section of a chunk (ChunkPacket),    *)
(* for every number of sections that an int can be shifted by.             *)
(***************************************************************************)
EXTENDS Framing, ChunkPacket, FiniteSetTheorems, TLAPS

Composed == {"LoginSuccess", "Status", "KnownPacks", "Finish", "LoginPlay",
             "GameEvent", "Sync"}

\* Every packet whose fields the server chooses announces what it writes.
LEMMA FixedSizes ==
  ASSUME NEW type \in Composed \ {"LoginSuccess"}, NEW name
  PROVE  Announced(type, name) = Written(type, name)
<1>1. sizeOfVarInt(0) = 1 /\ sizeOfVarInt(1) = 1 /\ sizeOfVarInt(2) = 1
      /\ sizeOfVarInt(16) = 1 /\ sizeOfVarInt(32) = 1 /\ sizeOfVarInt(100) = 1
  BY DEF sizeOfVarInt
<1>2. sizeOfString(StatusLength) = 294 /\ sizeOfString(Namespace) = 10
      /\ sizeOfString(Core) = 5 /\ sizeOfString(Version) = 7
      /\ sizeOfString(Overworld) = 20 /\ sizeOfString(Nether) = 17
  BY DEF sizeOfString, sizeOfVarInt, StatusLength, Namespace, Core, Version,
         Overworld, Nether
<1>3. \A i \in 0..127 : VarIntBytes(i) = 1
  BY DEF VarIntBytes
<1>4. StringBytes(StatusLength) = 294 /\ StringBytes(Namespace) = 10
      /\ StringBytes(Core) = 5 /\ StringBytes(Version) = 7
      /\ StringBytes(Overworld) = 20 /\ StringBytes(Nether) = 17
  BY DEF StringBytes, VarIntBytes, StatusLength, Namespace, Core, Version,
         Overworld, Nether
<1>5. KnownPacksSize = KnownPacksBytes
  BY <1>2, <1>3, <1>4 DEF KnownPacksSize, KnownPacksBytes
<1>6. LoginPlaySize = LoginPlayBytes
  BY <1>1, <1>2, <1>3, <1>4 DEF LoginPlaySize, LoginPlayBytes, Int32, Byte, Long
<1>7. SyncSize = SyncBytes
  BY <1>1, <1>3 DEF SyncSize, SyncBytes, Double, Float, Int32
<1> QED
  BY <1>2, <1>3, <1>4, <1>5, <1>6, <1>7
  DEF Composed, Announced, Written, Byte, Float

\* A login success announces what it writes for the lengths that
\* sizeOfVarInt gets right and for no other.
LEMMA LoginSuccessSizes ==
  ASSUME NEW name \in 0..MaxLength
  PROVE  Announced("LoginSuccess", name) = Written("LoginSuccess", name)
           <=> name \in 0..127 \cup 254..380
<1>1. name \in Nat
  OBVIOUS
<1> DEFINE q == name \div 127
<1>2. q \in Nat /\ 127 * q <= name /\ name < 127 * q + 127
  BY <1>1, SMT
<1>3. sizeOfVarInt(name) = IF name < 127 THEN 1 ELSE q
  BY DEF sizeOfVarInt
<1> HIDE DEF q
<1>4. sizeOfVarInt(name) \in Nat /\ VarIntBytes(name) \in Nat
  BY <1>1, <1>2, <1>3, SMT DEF VarIntBytes
<1>5. sizeOfVarInt(name) = VarIntBytes(name) <=> name \in 0..127 \cup 254..380
  BY <1>1, <1>2, <1>3, SMT DEF VarIntBytes
<1>6. sizeOfVarInt(0) = 1 /\ VarIntBytes(0) = 1 /\ VarIntBytes(2) = 1
  BY DEF sizeOfVarInt, VarIntBytes
<1>7. Announced("LoginSuccess", name) = 16 + (sizeOfVarInt(name) + name) + 1 + 1
  BY <1>6 DEF Announced, LoginSuccessSize, sizeOfString, Uuid
<1>8. Written("LoginSuccess", name) = 1 + 16 + (VarIntBytes(name) + name) + 1
  BY <1>6 DEF Written, LoginSuccessBytes, StringBytes, Uuid
<1> QED
  BY <1>1, <1>4, <1>5, <1>7, <1>8, SMT

-----------------------------------------------------------------------------
AlignedInv == echoed \subseteq NameLengths /\ Aligned

\* Serializing a packet preserves AlignedInv.
LEMMA SerializePreserves ==
  ASSUME AlignedInv, NEW name \in NameLengths, Serialize(name)
  PROVE  AlignedInv'
<1> DEFINE exact == Announced(sent'.type, name) = Written(sent'.type, name)
<1>1. name \in 0..MaxLength
  BY NameLengthsAssumption
<1>2. sent'.type \in Composed
  BY DEF Serialize, Deliver, Message, Single, Msg, Composed
<1>3. CASE sent'.type = "LoginSuccess"
  <2>1. echoed' = echoed \cup {name}
    BY <1>3 DEF Serialize
  <2>2. aligned' <=> aligned /\ exact
    BY DEF Serialize
  <2>3. exact <=> name \in 0..127 \cup 254..380
    BY <1>1, <1>3, LoginSuccessSizes
  <2> QED
    BY <2>1, <2>2, <2>3 DEF AlignedInv, Aligned
<1>4. CASE sent'.type # "LoginSuccess"
  <2>1. echoed' = echoed
    BY <1>4 DEF Serialize
  <2>2. aligned' <=> aligned
    BY <1>2, <1>4, FixedSizes DEF Serialize
  <2> QED
    BY <2>1, <2>2 DEF AlignedInv, Aligned
<1> QED
  BY <1>3, <1>4

\* The announced sizes are right for a client exactly as long as sizeOfVarInt
\* is right for the names of its logins (ServerPackets.h:69, utils.h:88).
THEOREM AlwaysAligned == FramingSpec => []Aligned
<1>1. FramingInit => AlignedInv
  BY DEF FramingInit, AlignedInv, Aligned
<1>2. AlignedInv /\ [FramingNext]_framing => AlignedInv'
  <2> SUFFICES ASSUME AlignedInv, [FramingNext]_framing PROVE AlignedInv'
    OBVIOUS
  <2>1. CASE \E name \in NameLengths : Serialize(name)
    BY <2>1, SerializePreserves
  <2>2. CASE ForwardVector
    BY <2>2 DEF ForwardVector, AlignedInv, Aligned
  <2>3. CASE Close /\ UNCHANGED <<echoed, aligned>>
    BY <2>3 DEF AlignedInv, Aligned
  <2>4. CASE UNCHANGED framing
    BY <2>4 DEF framing, AlignedInv, Aligned
  <2> QED
    BY <2>1, <2>2, <2>3, <2>4 DEF FramingNext
<1>3. AlignedInv => Aligned
  BY DEF AlignedInv
<1> QED
  BY <1>1, <1>2, <1>3, PTL DEF FramingSpec

-----------------------------------------------------------------------------
(* The light of a chunk.                                                   *)

\* The first n light sections, in order.
Upwards(n) == [k \in 1..n |-> k - 1]

\* How many arrays of a light are written.
WrittenArrays(light) ==
  IF pc = light THEN idx
  ELSE IF pc = "done" \/ (pc = "block" /\ light = "sky") THEN sections + 2
  ELSE 0

\* The bits of the w-th long after n marks: those set, or, from the 32nd on, all.
Filled(r) == IF r <= 31 THEN 0..(r - 1) ELSE 0..63
InLong(w, n) == n - 64 * (w - 1)
Word(w, n) == Filled(InLong(w, n))

Longs == (sections + 2) \div 64 + 1
Marked == IF pc = "masks" THEN idx ELSE sections + 2

LightInv ==
  /\ sections \in Nat /\ idx \in Nat
  /\ pc \in {"masks", "sky", "block", "done"}
  /\ idx <= sections + 2
  /\ mask = [m \in Masks |-> [w \in 1..Longs |-> Word(w, Marked)]]
  /\ arrays = [l \in Lights |-> Upwards(WrittenArrays(l))]

\* The loops begin at the lowest section, with nothing marked.
LEMMA LightBegins == LightInit => LightInv
<1> SUFFICES ASSUME LightInit PROVE LightInv
  OBVIOUS
<1>1. sections \in Nat /\ idx = 0 /\ pc = "masks" /\ idx <= sections + 2
  BY SectionsAssumption DEF LightInit
<1>2. Longs \in Nat
  BY <1>1 DEF Longs
<1>3. BitSet(sections + 2) = [w \in 1..Longs |-> Word(w, 0)]
  <2>1. \A w \in 1..Longs : Word(w, 0) = {}
    BY <1>2 DEF Word, Filled, InLong
  <2> QED
    BY <2>1 DEF BitSet, Longs
<1>4. \A l \in Lights : Upwards(WrittenArrays(l)) = <<>>
  BY <1>1 DEF Upwards, WrittenArrays, Lights
<1>5. mask = [m \in Masks |-> BitSet(sections + 2)] /\ arrays = [l \in Lights |-> <<>>]
  BY DEF LightInit
<1> QED
  BY <1>1, <1>3, <1>4, <1>5 DEF LightInv, Marked

\* A mark changes the long it is in as Word says, whatever a shift too wide does.
LEMMA MarkInWord ==
  ASSUME NEW i \in Nat, NEW bits \in IntShifts(i % 64)
  PROVE  Word(i \div 64 + 1, i) \cup bits = Word(i \div 64 + 1, i + 1)
<1> DEFINE q == i \div 64
           j == i % 64
<1>1. q \in Nat /\ j \in 0..63 /\ i = 64 * q + j
  OBVIOUS
<1>2. InLong(q + 1, i) = j /\ InLong(q + 1, i + 1) = j + 1
  BY <1>1 DEF InLong
<1>3. bits \in IntShifts(j)
  OBVIOUS
<1> HIDE DEF q, j
<1>4. Word(q + 1, i) = Filled(j) /\ Word(q + 1, i + 1) = Filled(j + 1)
  BY <1>2, Zenon DEF Word
<1>5. CASE j < 31
  <2>1. bits = {j}
    BY <1>1, <1>3, <1>5 DEF IntShifts, Shifted
  <2>2. Word(q + 1, i) = 0..(j - 1) /\ Word(q + 1, i + 1) = 0..j
    BY <1>1, <1>4, <1>5 DEF Filled
  <2>3. 0..(j - 1) \cup {j} = 0..j
    BY <1>1
  <2> QED
    BY <2>1, <2>2, <2>3 DEF q
<1>6. CASE j = 31
  <2>1. bits = 31..63
    BY <1>3, <1>6 DEF IntShifts, Shifted
  <2>2. Word(q + 1, i) = 0..30 /\ Word(q + 1, i + 1) = 0..63
    BY <1>4, <1>6 DEF Filled
  <2>3. 0..30 \cup 31..63 = 0..63
    OBVIOUS
  <2> QED
    BY <2>1, <2>2, <2>3 DEF q
<1>7. CASE j > 31
  <2>1. bits \subseteq 0..63
    BY <1>1, <1>3, <1>7 DEF IntShifts, Shifted
  <2>2. Word(q + 1, i) = 0..63 /\ Word(q + 1, i + 1) = 0..63
    BY <1>1, <1>4, <1>7 DEF Filled
  <2> QED
    BY <2>1, <2>2 DEF q
<1> QED
  BY <1>1, <1>5, <1>6, <1>7

\* It changes no other long.
LEMMA OtherWords ==
  ASSUME NEW i \in Nat, NEW w \in Nat, w # i \div 64 + 1, w >= 1
  PROVE  Word(w, i) = Word(w, i + 1)
<1> DEFINE q == i \div 64
           j == i % 64
<1>1. q \in Nat /\ j \in 0..63 /\ i = 64 * q + j /\ w # q + 1
  OBVIOUS
<1> HIDE DEF q, j
<1>2. CASE w < q + 1
  <2>1. i - 64 * (w - 1) > 31 /\ i + 1 - 64 * (w - 1) > 31
    BY <1>1, <1>2
  <2> QED
    BY <2>1 DEF Word, Filled, InLong
<1>3. CASE w > q + 1
  <2>1. i - 64 * (w - 1) < 0
    BY <1>1, <1>3
  <2> DEFINE d == i - 64 * (w - 1)
  <2>2. d \in Int /\ d < 0 /\ InLong(w, i) = d /\ InLong(w, i + 1) = d + 1
    BY <2>1 DEF InLong
  <2>3. Word(w, i) = Filled(d) /\ Word(w, i + 1) = Filled(d + 1)
    BY <2>2, Zenon DEF Word
  <2> HIDE DEF d
  <2>4. Filled(d) = {} /\ Filled(d + 1) = {}
    BY <2>2 DEF Filled
  <2> QED
    BY <2>3, <2>4
<1> QED
  BY <1>1, <1>2, <1>3

\* So a mark takes the longs from one LightInv to the next.
LEMMA OneMark ==
  ASSUME NEW size \in Nat, NEW i \in Nat, i \div 64 < size, NEW bits \in IntShifts(i % 64)
  PROVE  WithBits([w \in 1..size |-> Word(w, i)], i, bits) = [w \in 1..size |-> Word(w, i + 1)]
<1> DEFINE m == [w \in 1..size |-> Word(w, i)]
           v == i \div 64 + 1
<1>1. v \in 1..size /\ m[v] = Word(v, i)
  OBVIOUS
<1>2. WithBits(m, i, bits) = [m EXCEPT ![v] = @ \cup bits]
  BY DEF WithBits
<1>3. Word(v, i) \cup bits = Word(v, i + 1)
  BY MarkInWord
<1>4. \A w \in 1..size : w # v => m[w] = Word(w, i + 1)
  BY OtherWords
<1>5. DOMAIN m = 1..size
  OBVIOUS
<1> HIDE DEF v, m
<1>6. \A w \in 1..size : [m EXCEPT ![v] = @ \cup bits][w] = Word(w, i + 1)
  BY <1>1, <1>3, <1>4, <1>5
<1>7. [m EXCEPT ![v] = @ \cup bits] = [w \in 1..size |-> Word(w, i + 1)]
  BY <1>5, <1>6
<1> QED
  BY <1>2, <1>7 DEF m

\* Setting the masks of a section preserves LightInv.
LEMMA SetMasksKeeps == LightInv /\ SetMasks => LightInv'
<1> SUFFICES ASSUME LightInv, SetMasks PROVE LightInv'
  OBVIOUS
<1>1. /\ sections \in Nat /\ idx \in Nat /\ pc = "masks"
      /\ UNCHANGED <<sections, arrays>>
  BY DEF LightInv, SetMasks
<1>2. CASE idx \in LightSections
  <2>1. PICK bits \in IntShifts(idx % 64) :
          mask' = [m \in Masks |-> WithBits(mask[m], idx, bits)]
    BY <1>2 DEF SetMasks
  <2>2. idx' = idx + 1 /\ pc' = pc
    BY <1>2 DEF SetMasks
  <2>3. mask' = [m \in Masks |-> [w \in 1..Longs |-> Word(w, idx + 1)]]
    <3>1. Longs \in Nat /\ idx \div 64 < Longs
      BY <1>1, <1>2 DEF LightSections, Longs
    <3>2. mask = [m \in Masks |-> [w \in 1..Longs |-> Word(w, idx)]]
      BY <1>1 DEF LightInv, Marked
    <3>3. WithBits([w \in 1..Longs |-> Word(w, idx)], idx, bits) = [w \in 1..Longs |-> Word(w, idx + 1)]
      BY <1>1, <2>1, <3>1, OneMark
    <3> QED
      BY <2>1, <3>2, <3>3
  <2>6. Longs' = Longs /\ Marked' = idx + 1
    BY <1>1, <2>2 DEF Longs, Marked
  <2>4. \A l \in Lights : WrittenArrays(l)' = WrittenArrays(l)
    BY <1>1, <2>2 DEF WrittenArrays, Lights
  <2>5. idx' <= sections + 2 /\ idx' \in Nat
    BY <1>1, <1>2, <2>2 DEF LightSections
  <2> QED
    BY <1>1, <2>2, <2>3, <2>4, <2>5, <2>6 DEF LightInv
<1>3. CASE idx \notin LightSections
  <2>1. idx' = 0 /\ pc' = "sky" /\ mask' = mask
    BY <1>3 DEF SetMasks
  <2>2. Marked = sections + 2 /\ 0 <= sections + 2
    BY <1>1, <1>3 DEF LightInv, LightSections, Marked
  <2>3. \A l \in Lights : WrittenArrays(l)' = WrittenArrays(l)
    BY <1>1, <2>1 DEF WrittenArrays, Lights
  <2>4. Longs' = Longs /\ Marked' = Marked
    BY <1>1, <2>1, <2>2 DEF Longs, Marked
  <2> QED
    BY <1>1, <2>1, <2>2, <2>3, <2>4 DEF LightInv
<1> QED
  BY <1>2, <1>3

\* One array more.
LEMMA OneArray == ASSUME NEW n \in Nat PROVE Append(Upwards(n), n) = Upwards(n + 1)
<1>1. Upwards(n) \in Seq(Nat) /\ Len(Upwards(n)) = n
  BY DEF Upwards
<1>2. Append(Upwards(n), n) \in Seq(Nat) /\ Len(Append(Upwards(n), n)) = n + 1
  BY <1>1
<1>3. \A k \in 1..(n + 1) : Append(Upwards(n), n)[k] = k - 1
  BY <1>1 DEF Upwards
<1> QED
  BY <1>2, <1>3 DEF Upwards

\* So does writing the arrays of one kind of light.
LEMMA WriteArraysKeeps ==
  ASSUME LightInv, NEW light \in Lights,
         NEW next, <<light, next>> \in {<<"sky", "block">>, <<"block", "done">>},
         WriteArrays(light, next)
  PROVE  LightInv'
<1>1. /\ sections \in Nat /\ idx \in Nat /\ pc = light
      /\ UNCHANGED <<sections, mask>>
  BY DEF LightInv, WriteArrays
<1>2. /\ pc \in {"sky", "block"} /\ pc' \in {"sky", "block", "done"}
      /\ Longs' = Longs /\ Marked' = Marked
  BY <1>1 DEF WriteArrays, Longs, Marked, Lights
<1>3. CASE idx \in LightSections
  <2>1. /\ arrays' = [arrays EXCEPT ![light] = Append(@, idx)]
        /\ idx' = idx + 1 /\ pc' = pc
    BY <1>3 DEF WriteArrays
  <2>2. WrittenArrays(light) = idx /\ WrittenArrays(light)' = idx + 1
    BY <1>1, <2>1 DEF WrittenArrays
  <2>3. \A l \in Lights \ {light} : WrittenArrays(l)' = WrittenArrays(l)
    BY <1>1, <2>1 DEF WrittenArrays
  <2>4. ASSUME arrays = [l \in Lights |-> Upwards(WrittenArrays(l))]
        PROVE  arrays' = [l \in Lights |-> Upwards(WrittenArrays(l)')]
    BY <1>1, <2>1, <2>2, <2>3, <2>4, OneArray
  <2>5. idx' <= sections + 2 /\ idx' \in Nat
    BY <1>1, <1>3, <2>1 DEF LightSections
  <2>6. (arrays = [l \in Lights |-> Upwards(WrittenArrays(l))])'
    BY <2>4 DEF LightInv, Upwards
  <2> QED
    BY <1>1, <1>2, <2>1, <2>5, <2>6 DEF LightInv
<1>4. CASE idx \notin LightSections
  <2>1. idx' = 0 /\ pc' = next /\ arrays' = arrays
    BY <1>4 DEF WriteArrays
  <2>2. idx = sections + 2 /\ 0 <= sections + 2
    BY <1>1, <1>4 DEF LightInv, LightSections
  <2>3. \A l \in Lights : WrittenArrays(l)' = WrittenArrays(l)
    BY <1>1, <2>1, <2>2 DEF WrittenArrays, Lights
  <2> QED
    BY <1>1, <1>2, <2>1, <2>3 DEF LightInv
<1> QED
  BY <1>3, <1>4

\* The marks are those of the light sections, and up to the end of the last long
\* if more than 31 of them are in it.
LEMMA MarksAre ==
  ASSUME LightInv, pc = "done", NEW light \in Lights
  PROVE  /\ (sections + 2) % 64 <= 31 => Bits(mask[light]) = LightSections
         /\ (sections + 2) % 64 > 31 => sections + 2 \in Bits(mask[light])
<1> DEFINE n == sections + 2
           q == n \div 64
           j == n % 64
<1>1. n \in Nat /\ q \in Nat /\ j \in 0..63 /\ n = 64 * q + j /\ LightSections = 0..(n - 1)
  BY DEF LightInv, LightSections
<1>2. mask[light] = [w \in 1..(q + 1) |-> Word(w, n)]
  BY DEF LightInv, Masks, Lights, Longs, Marked
<1> HIDE DEF n, q, j
<1>3. Bits(mask[light]) = UNION {{64 * (w - 1) + b : b \in Word(w, n)} : w \in 1..(q + 1)}
  <2> DEFINE f == [w \in 1..(q + 1) |-> Word(w, n)]
  <2>1. DOMAIN f = 1..(q + 1) /\ \A w \in 1..(q + 1) : f[w] = Word(w, n)
    OBVIOUS
  <2> HIDE DEF f
  <2>2. Bits(f) = UNION {{64 * (w - 1) + b : b \in Word(w, n)} : w \in 1..(q + 1)}
    BY <2>1 DEF Bits
  <2> QED
    BY <1>2, <2>2 DEF f
<1>4. \A x : x \in Bits(mask[light]) <=>
         \E w \in 1..(q + 1) : \E b \in Word(w, n) : x = 64 * (w - 1) + b
  BY <1>3
<1>5. \A w \in 1..q : Word(w, n) = 0..63
  <2> SUFFICES ASSUME NEW w \in 1..q PROVE n - 64 * (w - 1) > 31
    BY <1>1 DEF Word, Filled, InLong
  <2> QED
    BY <1>1
<1>6. Word(q + 1, n) = Filled(j)
  <2>1. InLong(q + 1, n) = j
    BY <1>1 DEF InLong
  <2> QED
    BY <2>1, Zenon DEF Word
<1>7. ASSUME j <= 31 PROVE Bits(mask[light]) = LightSections
  <2>1. ASSUME NEW x \in Bits(mask[light]) PROVE x \in 0..(n - 1)
    <3>1. PICK w \in 1..(q + 1) : \E b \in Word(w, n) : x = 64 * (w - 1) + b
      BY <1>4, <2>1
    <3>2. PICK b \in Word(w, n) : x = 64 * (w - 1) + b
      BY <3>1
    <3>3. CASE w \in 1..q
      <4>1. b \in 0..63
        BY <1>5, <3>2, <3>3
      <4> QED
        BY <1>1, <3>2, <3>3, <4>1
    <3>4. CASE w = q + 1
      <4>1. b \in 0..(j - 1)
        BY <1>6, <1>7, <3>2, <3>4 DEF Filled
      <4> QED
        BY <1>1, <3>2, <3>4, <4>1
    <3> QED
      BY <1>1, <3>1, <3>3, <3>4
  <2>2. ASSUME NEW x \in 0..(n - 1) PROVE x \in Bits(mask[light])
    <3> DEFINE v == x \div 64
               b == x % 64
    <3>1. v \in Nat /\ b \in 0..63 /\ x = 64 * v + b
      BY <1>1, <2>2
    <3> HIDE DEF v, b
    <3>2. v + 1 \in 1..(q + 1) /\ x = 64 * (v + 1 - 1) + b
      BY <1>1, <2>2, <3>1
    <3>3. b \in Word(v + 1, n)
      <4>1. CASE v + 1 \in 1..q
        BY <1>5, <3>1, <4>1
      <4>2. CASE v = q
        <5>1. b \in 0..(j - 1)
          BY <1>1, <2>2, <3>1, <4>2
        <5> QED
          BY <1>6, <1>7, <4>2, <5>1 DEF Filled
      <4> QED
        BY <1>1, <3>1, <3>2, <4>1, <4>2
    <3> DEFINE w == v + 1
    <3>4. /\ w \in 1..(q + 1) /\ x = 64 * (w - 1) + b
          /\ b \in Word(w, n)
      <4>1. w \in 1..(q + 1) /\ x = 64 * (w - 1) + b
        BY <1>1, <3>1, <3>2
      <4>2. b \in Word(w, n)
        BY <3>3
      <4> QED
        BY <4>1, <4>2
    <3> HIDE DEF w
    <3>5. \E c \in Word(w, n) : x = 64 * (w - 1) + c
      BY <3>4
    <3> QED
      BY <1>4, <3>4, <3>5
  <2> QED
    BY <1>1, <2>1, <2>2
<1>8. ASSUME j > 31 PROVE n \in Bits(mask[light])
  <2> DEFINE w == q + 1
  <2>1. w \in 1..(q + 1) /\ n = 64 * (w - 1) + j
    BY <1>1
  <2>2. Word(w, n) = 0..63
    <3>1. ~(j <= 31)
      BY <1>1, <1>8
    <3> QED
      BY <1>6, <3>1 DEF Filled
  <2> HIDE DEF w
  <2>3. j \in Word(w, n)
    BY <1>1, <2>2
  <2> QED
    BY <1>4, <2>1, <2>3
<1> QED
  BY <1>1, <1>7, <1>8 DEF n, j

\* The client counts the marks up to a section and finds its array; a mark
\* that no section has gives one that does not exist some.
LEMMA RanksAreRight == LightInv => LightFindsHome
<1> DEFINE right == (sections + 2) % 64 <= 31
           home(light) == ClientLight(light) = [s \in LightSections |-> s]
<1> SUFFICES ASSUME LightInv, pc = "done" PROVE (\A light \in Lights : home(light)) <=> right
  BY DEF LightFindsHome
<1>1. sections \in Nat
  BY DEF LightInv
<1>2. ASSUME right, NEW light \in Lights PROVE home(light)
  <2>1. Bits(mask[light]) = LightSections
    BY <1>2, MarksAre
  <2>2. arrays[light] = Upwards(sections + 2)
    BY DEF LightInv, WrittenArrays, Lights
  <2>3. ASSUME NEW s \in LightSections
        PROVE  Cardinality({r \in LightSections : r <= s}) = s + 1
    <3>1. {r \in LightSections : r <= s} = 0..s
      BY <1>1 DEF LightSections
    <3>2. s \in Nat
      BY <1>1 DEF LightSections
    <3>3. Cardinality(0..s) = IF 0 > s THEN 0 ELSE s - 0 + 1
      BY <3>2, FS_Interval
    <3>4. ~(0 > s) /\ s - 0 + 1 = s + 1
      BY <3>2
    <3> QED
      BY <3>1, <3>3, <3>4, Zenon
  <2>4. Len(arrays[light]) = sections + 2
    BY <1>1, <2>2 DEF Upwards
  <2>5. \A s \in LightSections : s + 1 <= Len(arrays[light]) /\ arrays[light][s + 1] = s
    BY <1>1, <2>2, <2>4 DEF Upwards, LightSections
  <2> QED
    BY <2>1, <2>3, <2>5 DEF ClientLight
<1>3. ASSUME ~right, NEW light \in Lights PROVE ~home(light)
  <2>1. (sections + 2) % 64 > 31
    BY <1>1, <1>3
  <2>2. sections + 2 \in Bits(mask[light])
    BY <2>1, MarksAre
  <2>3. DOMAIN ClientLight(light) = Bits(mask[light])
    BY DEF ClientLight
  <2>4. sections + 2 \notin LightSections
    BY <1>1 DEF LightSections
  <2> QED
    BY <2>2, <2>3, <2>4
<1>4. "sky" \in Lights
  BY DEF Lights
<1> HIDE DEF right, home
<1> QED
  BY <1>2, <1>3, <1>4

\* A client gives every section the light that was written for it, and no other
\* section any, exactly for chunks whose last long of marks has at most 31
\* (PlayerHandler::OnConfig, BitSet).
THEOREM LightPaired == LightSpec => []LightFindsHome
<1>1. LightInv /\ [LightNext]_lightVars => LightInv'
  <2> SUFFICES ASSUME LightInv, [LightNext]_lightVars PROVE LightInv'
    OBVIOUS
  <2>1. CASE SetMasks
    BY <2>1, SetMasksKeeps
  <2>2. CASE WriteArrays("sky", "block") \/ WriteArrays("block", "done")
    BY <2>2, WriteArraysKeeps DEF Lights
  <2>3. CASE UNCHANGED lightVars
    BY <2>3 DEF lightVars, LightInv, Longs, Marked, WrittenArrays
  <2> QED
    BY <2>1, <2>2, <2>3 DEF LightNext
<1> QED
  BY <1>1, LightBegins, RanksAreRight, PTL DEF LightSpec
=============================================================================
