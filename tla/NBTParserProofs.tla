--------------------------- MODULE NBTParserProofs ---------------------------
(***************************************************************************)
(* NBT::parse keeps to what the stream announced and always gets on        *)
(* (NBTParser), on every stream, however long, and for every bound on the  *)
(* arrays; and it reads back every document that was written (NBTCodec),   *)
(* however deep, wide and long.                                            *)
(***************************************************************************)
EXTENDS NBTCodec, SequenceTheorems, WellFoundedInduction, TLAPS

IsSequence(s) == s \in Seq(Range(s))

\* An activation that is filling a list has at most as many elements as were
\* announced, all of the type that was.
Fine(frame) ==
  /\ frame = [type |-> frame.type, name |-> frame.name, of |-> frame.of,
              size |-> frame.size, items |-> frame.items, tree |-> frame.tree]
  /\ frame.type \in {LIST, COMPOUND}
  /\ frame.type = LIST =>
       /\ IsSequence(frame.items) /\ frame.size \in Int
       /\ frame.items = <<>> \/ Len(frame.items) <= frame.size
       /\ \A k \in DOMAIN frame.items : frame.items[k].type = frame.of

\* An activation that waits for another called it for an element that it lacks,
\* so there is room for the element when the call returns.
Waiting(i) ==
  stack[i].type = LIST =>
    /\ ~Complete(stack[i])
    /\ stack[i + 1].type = stack[i].of

IInv ==
  /\ ParserTypeOK
  /\ pc = "root" => stream = 0
  /\ IsSequence(stack)
  /\ \A i \in DOMAIN stack : Fine(stack[i])
  /\ \A i \in 1..(Len(stack) - 1) : Waiting(i)

-----------------------------------------------------------------------------
(* Sequences of anything.                                                  *)

\* The elements of a sequence are in its range.
LEMMA RangeSeq ==
  ASSUME NEW S, NEW s \in Seq(S)
  PROVE  s \in Seq(Range(s))
<1>1. Len(s) \in Nat /\ DOMAIN s = 1..Len(s) /\ s \in [1..Len(s) -> S]
  BY LenProperties
<1>2. \A i \in 1..Len(s) : s[i] \in Range(s)
  BY <1>1 DEF Range
<1> QED
  BY <1>1, <1>2

\* Appending to a sequence.
LEMMA Appended ==
  ASSUME NEW s, IsSequence(s), NEW x
  PROVE  /\ IsSequence(Append(s, x)) /\ Len(Append(s, x)) = Len(s) + 1
         /\ Len(s) \in Nat /\ DOMAIN s = 1..Len(s)
         /\ DOMAIN Append(s, x) = 1..(Len(s) + 1)
         /\ \A i \in 1..Len(s) : Append(s, x)[i] = s[i]
         /\ Append(s, x)[Len(s) + 1] = x
<1> DEFINE S == Range(s) \cup {x}
           t == Append(s, x)
<1>1. s \in Seq(S) /\ x \in S
  BY DEF IsSequence
<1> HIDE DEF S
<1>2. /\ t \in Seq(S) /\ Len(t) = Len(s) + 1 /\ Len(s) \in Nat
      /\ DOMAIN t = 1..(Len(s) + 1) /\ DOMAIN s = 1..Len(s)
      /\ \A i \in 1..Len(s) : t[i] = s[i]
      /\ t[Len(s) + 1] = x
  BY <1>1
<1>3. IsSequence(t)
  BY <1>2 DEF IsSequence, Range
<1> QED
  BY <1>2, <1>3

Put(s, n, x) == [s EXCEPT ![n] = x]

\* Taking the last element off, and replacing the one before.
LEMMA Popped ==
  ASSUME NEW s, IsSequence(s), NEW n \in Nat \ {0}, Len(s) = n + 1, NEW x, NEW t,
         t = Put(Front(s), n, x)
  PROVE  /\ IsSequence(t) /\ Len(t) = n
         /\ \A i \in 1..(n - 1) : t[i] = s[i]
         /\ t[n] = x
<1> DEFINE S == Range(s) \cup {x}
           f == Front(s)
<1>1. s \in Seq(S) /\ x \in S
  BY DEF IsSequence
<1> HIDE DEF S
<1>2. \A i \in 1..n : s[i] \in S
  <2> TAKE i \in 1..n
  <2>1. i \in 1..Len(s)
    OBVIOUS
  <2> QED
    BY <1>1, <2>1, ElementOfSeq
<1>3. f = SubSeq(s, 1, n)
  <2>1. Len(s) - 1 = n
    OBVIOUS
  <2> QED
    BY <2>1 DEF Front
<1> HIDE DEF f
<1>4. f \in Seq(S) /\ Len(f) = n /\ \A i \in 1..n : f[i] = s[i]
  <2>1. /\ SubSeq(s, 1, n) \in Seq(S)
        /\ Len(SubSeq(s, 1, n)) = IF 1 <= n THEN n - 1 + 1 ELSE 0
        /\ \A i \in 1..(n - 1 + 1) : SubSeq(s, 1, n)[i] = s[1 + i - 1]
    BY <1>2, SubSeqProperties
  <2> QED
    BY <1>3, <2>1
<1>5. t = [f EXCEPT ![n] = x]
  BY DEF f, Put
<1>6. /\ t \in Seq(S) /\ Len(t) = n
      /\ \A i \in 1..n : t[i] = IF i = n THEN x ELSE f[i]
  <2>1. n \in 1..Len(f)
    BY <1>4
  <2>2. /\ [f EXCEPT ![n] = x] \in Seq(S)
        /\ Len([f EXCEPT ![n] = x]) = Len(f)
        /\ \A j \in 1..Len(f) : [f EXCEPT ![n] = x][j] = IF j = n THEN x ELSE f[j]
    BY <1>1, <1>4, <2>1, ExceptSeq
  <2> QED
    BY <1>4, <1>5, <2>2
<1>7. IsSequence(t)
  BY <1>6, RangeSeq DEF IsSequence
<1>8. \A i \in 1..(n - 1) : t[i] = s[i]
  BY <1>4, <1>6
<1> QED
  BY <1>6, <1>7, <1>8

\* Replacing an element.
LEMMA Replaced ==
  ASSUME NEW s, IsSequence(s), NEW n \in 1..Len(s), NEW x, NEW t, t = Put(s, n, x)
  PROVE  /\ IsSequence(t) /\ Len(t) = Len(s)
         /\ \A i \in 1..Len(s) : t[i] = IF i = n THEN x ELSE s[i]
<1> DEFINE S == Range(s) \cup {x}
<1>1. s \in Seq(S) /\ x \in S
  BY DEF IsSequence
<1> HIDE DEF S
<1>2. /\ t \in Seq(S) /\ Len(t) = Len(s)
      /\ \A i \in 1..Len(s) : t[i] = IF i = n THEN x ELSE s[i]
  BY <1>1, ExceptSeq DEF Put
<1> QED
  BY <1>2, RangeSeq DEF IsSequence

-----------------------------------------------------------------------------
(* Reads.                                                                  *)

\* What is read of a number are bytes, those of the stream or zeros.
LEMMA FilledBytes ==
  ASSUME NEW d \in Seq(Byte), NEW s \in Nat, NEW n \in Nat, NEW k \in 1..n
  PROVE  Filled(d, s, n, 0)[k] \in Byte
<1>1. Filled(d, s, n, 0)[k] = IF s + k <= Len(d) THEN d[s + k] ELSE 0
  BY DEF Filled
<1>2. ASSUME s + k <= Len(d) PROVE d[s + k] \in Byte
  <2>1. s + k \in 1..Len(d)
    BY <1>2, LenProperties
  <2> QED
    BY <2>1, ElementOfSeq
<1>3. 0 \in Byte
  BY DEF Byte
<1> QED
  BY <1>1, <1>2, <1>3

\* The number that four bytes stand for, the first one signed.
Number(p, q, r, u) == 16777216 * p + 65536 * q + 256 * r + u

\* Such a number is an integer.
LEMMA Numbered ==
  ASSUME NEW p \in Int, NEW q \in Int, NEW r \in Int, NEW u \in Int
  PROVE  Number(p, q, r, u) \in Int
  BY SMT DEF Number

\* Sizes are integers.
LEMMA Sizes ==
  ASSUME NEW d \in Seq(Byte), NEW s \in Nat
  PROVE  parseShort(d, s) \in Int /\ parseInt(d, s) \in Int
<1> DEFINE b2 == Filled(d, s, 2, 0)
           b4 == Filled(d, s, 4, 0)
<1>1. b2[1] \in Byte /\ b2[2] \in Byte
  <2>1. 1 \in 1..2 /\ 2 \in 1..2 /\ 2 \in Nat
    OBVIOUS
  <2> QED
    BY <2>1, FilledBytes
<1>2. b4[1] \in Byte /\ b4[2] \in Byte /\ b4[3] \in Byte /\ b4[4] \in Byte
  <2>1. 1 \in 1..4 /\ 2 \in 1..4 /\ 3 \in 1..4 /\ 4 \in 1..4 /\ 4 \in Nat
    OBVIOUS
  <2> QED
    BY <2>1, FilledBytes
<1>3. parseShort(d, s) = 256 * Signed(b2[1]) + b2[2]
  BY DEF parseShort
<1>4. parseInt(d, s) = Number(Signed(b4[1]), b4[2], b4[3], b4[4])
  BY SMT DEF parseInt, Number
<1> HIDE DEF b2, b4
<1>5. \A b \in Byte : b \in Int /\ Signed(b) \in Int
  BY SMT DEF Signed, Byte
<1>6. \A p, q \in Int : 256 * p + q \in Int
  BY SMT
<1>7. parseShort(d, s) \in Int
  BY <1>1, <1>3, <1>5, <1>6, SMT
<1>8. parseInt(d, s) \in Int
  <2>1. /\ Signed(b4[1]) \in Int /\ b4[2] \in Int
        /\ b4[3] \in Int /\ b4[4] \in Int
    BY <1>2, <1>5, Zenon
  <2>2. Number(Signed(b4[1]), b4[2], b4[3], b4[4]) \in Int
    BY <2>1, Numbered, Zenon
  <2> QED
    BY <1>4, <2>2, Zenon
<1> QED
  BY <1>7, <1>8

\* A string that could be read took two bytes at least, one that could not none.
LEMMA StringRead ==
  ASSUME NEW d \in Seq(Byte), NEW s \in Nat
  PROVE  /\ parseString(d, s).after \in Nat
         /\ parseString(d, s).after >= s
         /\ parseString(d, s).ok => parseString(d, s).after >= s + 2
<1>1. parseShort(d, s) \in Int
  BY Sizes
<1> QED
  BY <1>1, SMT DEF parseString, Yields, Throws

\* A payload that could be read took a byte at least.
LEMMA ScalarRead ==
  ASSUME NEW d \in Seq(Byte), NEW s \in Nat, NEW t \in Scalars, parseScalar(d, s, t).ok
  PROVE  parseScalar(d, s, t).after \in Nat /\ parseScalar(d, s, t).after > s
<1>1. CASE t \in Numbers
  <2>1. parseScalar(d, s, t) = Yields(d, s, Width[t], 0)
    BY <1>1 DEF parseScalar
  <2>2. Width[t] \in Nat /\ Width[t] > 0
    BY <1>1 DEF Width, Numbers
  <2> QED
    BY <2>1, <2>2 DEF Yields
<1>2. CASE t = TEXT
  <2>1. parseScalar(d, s, t) = parseString(d, s)
    BY <1>2 DEF parseScalar, Numbers, TEXT
  <2> QED
    BY <2>1, StringRead
<1>3. CASE t \in Arrays
  <2>1. parseScalar(d, s, t) = parseArray(d, s, ElementWidth[t])
    BY <1>3 DEF parseScalar, Numbers, TEXT, Arrays, ElementWidth
  <2>2. ElementWidth[t] \in {1, 4, 8}
    BY <1>3 DEF Arrays, ElementWidth
  <2>3. parseInt(d, s) \in 0..MaxArray
    BY <2>1 DEF parseArray, Throws
  <2>4. parseArray(d, s, ElementWidth[t]).after = s + 4 + parseInt(d, s) * ElementWidth[t]
    BY <2>3 DEF parseArray, Yields
  <2>5. parseInt(d, s) * ElementWidth[t] \in Nat
    BY <2>2, <2>3, MaxArrayAssumption
  <2> HIDE DEF parseInt
  <2> QED
    BY <2>1, <2>4, <2>5
<1> QED
  BY <1>1, <1>2, <1>3 DEF Scalars

\* What an iteration finds: the type the list was announced with, or a header
\* of three bytes at least.
LEMMA HeaderRead ==
  ASSUME IInv, pc = "parsing", Header.ok
  PROVE  /\ Len(stack) \in DOMAIN stack /\ Len(stack) \in Nat \ {0}
         /\ Top = stack[Len(stack)] /\ Fine(Top)
         /\ Header.after \in Nat /\ Header.after >= stream
         /\ Top.type = LIST => Header.type = Top.of
         /\ Top.type = COMPOUND => Header.after > stream
<1>1. data \in Seq(Byte) /\ stream \in Nat /\ stack # <<>>
  BY DEF IInv, ParserTypeOK
<1>2. /\ Len(stack) \in DOMAIN stack /\ Len(stack) \in Nat \ {0}
      /\ Top = stack[Len(stack)]
  BY <1>1 DEF IInv, IsSequence, Top, Last
<1>3. Fine(Top)
  BY <1>2 DEF IInv
<1>4. CASE Top.type = LIST
  <2>1. Header.type = Top.of /\ Header.after = stream
    BY <1>4 DEF Header
  <2> QED
    BY <1>1, <1>2, <1>3, <1>4, <2>1 DEF LIST, COMPOUND
<1>5. CASE Top.type = COMPOUND
  <2>1. Header.after = parseString(data, stream + 1).after
    BY <1>5 DEF Header, LIST, COMPOUND
  <2>2. stream + 1 \in Nat
    BY <1>1
  <2> QED
    BY <1>1, <1>2, <1>3, <1>5, <2>1, <2>2, StringRead DEF LIST, COMPOUND
<1> QED
  BY <1>3, <1>4, <1>5 DEF Fine

-----------------------------------------------------------------------------
(* Activations.                                                            *)

\* The empty sequence.
LEMMA Empty == IsSequence(<<>>) /\ Len(<<>>) = 0
  BY DEF IsSequence

\* An activation starts with nothing in it.
LEMMA Started ==
  ASSUME NEW name, NEW of, NEW size \in Int
  PROVE  Fine(InCompound(name)) /\ Fine(InList(name, of, size))
  BY Empty DEF Fine, InCompound, InList, LIST, COMPOUND

\* What an activation returns is of its type.
LEMMA ValueType ==
  ASSUME NEW frame, Fine(frame)
  PROVE  Value(frame).type = frame.type
  BY DEF Fine, Value, CompoundOf, ListOf, LIST, COMPOUND

\* An activation that is given an element it lacks, of the type it waits for.
LEMMA Grown ==
  ASSUME NEW f, Fine(f), NEW name, NEW v,
         f.type = LIST => ~Complete(f) /\ v.type = f.of,
         NEW g, g = Added(f, name, v)
  PROVE  Fine(g) /\ g.type = f.type
<1>1. CASE f.type = COMPOUND
  <2>1. g = [f EXCEPT !.tree = Stored(f.tree, name, v)]
    BY <1>1 DEF Added
  <2> DEFINE tree == Stored(f.tree, name, v)
  <2> HIDE DEF tree
  <2>2. g = [type |-> f.type, name |-> f.name, of |-> f.of,
             size |-> f.size, items |-> f.items, tree |-> tree]
    BY <2>1 DEF Fine, tree
  <2> QED
    BY <1>1, <2>2 DEF Fine, LIST, COMPOUND
<1>2. CASE f.type = LIST
  <2> DEFINE items == Append(f.items, v)
  <2>1. g = [f EXCEPT !.items = items]
    BY <1>2 DEF Added, LIST, COMPOUND
  <2>2. /\ IsSequence(f.items) /\ f.size \in Int
        /\ \A k \in DOMAIN f.items : f.items[k].type = f.of
    BY <1>2 DEF Fine
  <2>3. /\ IsSequence(items) /\ Len(items) = Len(f.items) + 1
        /\ Len(f.items) \in Nat /\ DOMAIN f.items = 1..Len(f.items)
        /\ DOMAIN items = 1..(Len(f.items) + 1)
        /\ \A i \in 1..Len(f.items) : items[i] = f.items[i]
        /\ items[Len(f.items) + 1] = v
    BY <2>2, Appended
  <2> HIDE DEF items
  <2>4. g = [type |-> f.type, name |-> f.name, of |-> f.of,
             size |-> f.size, items |-> items, tree |-> f.tree]
    BY <2>1 DEF Fine
  <2>5. Len(items) <= f.size
    BY <1>2, <2>2, <2>3 DEF Complete
  <2>6. \A k \in DOMAIN items : items[k].type = f.of
    BY <1>2, <2>2, <2>3
  <2> QED
    BY <1>2, <2>2, <2>3, <2>4, <2>5, <2>6 DEF Fine
<1> QED
  BY <1>1, <1>2 DEF Fine

\* Entering a compound or a list for what the iteration found.
LEMMA Entered ==
  ASSUME IInv, Continues, NEW frame, Fine(frame), frame.type = Header.type,
         stack' = Append(stack, frame)
  PROVE  /\ stack' # <<>> /\ IsSequence(stack')
         /\ \A i \in DOMAIN stack' : Fine(stack'[i])
         /\ \A i \in 1..(Len(stack') - 1) : Waiting(i)'
<1> DEFINE n == Len(stack)
<1>1. /\ IsSequence(stack) /\ n \in Nat \ {0}
      /\ Top = stack[n] /\ Fine(Top)
      /\ Top.type = LIST => Header.type = Top.of
  BY HeaderRead DEF Continues, IInv
<1>2. /\ IsSequence(stack') /\ Len(stack') = n + 1
      /\ DOMAIN stack = 1..n /\ DOMAIN stack' = 1..(n + 1)
      /\ \A i \in 1..n : stack'[i] = stack[i]
      /\ stack'[n + 1] = frame
  BY <1>1, Appended
<1>3. Top.type = LIST => ~Complete(Top)
  BY DEF Continues, AtEnd
<1> HIDE DEF n
<1>4. stack' # <<>>
  BY <1>1, <1>2, Empty
<1>5. \A i \in DOMAIN stack' : Fine(stack'[i])
  <2> TAKE i \in DOMAIN stack'
  <2>1. CASE i \in 1..n
    BY <1>2, <2>1 DEF IInv
  <2>2. CASE i = n + 1
    BY <1>2, <2>2
  <2> QED
    BY <1>1, <1>2, <2>1, <2>2
<1>6. \A i \in 1..(Len(stack') - 1) : Waiting(i)'
  <2> TAKE i \in 1..(Len(stack') - 1)
  <2>1. CASE i \in 1..(n - 1)
    <3>1. Waiting(i)
      BY <2>1 DEF IInv, n
    <3>2. i \in 1..n /\ i + 1 \in 1..n
      BY <1>1, <2>1
    <3>3. stack'[i] = stack[i] /\ stack'[i + 1] = stack[i + 1]
      BY <1>2, <3>2
    <3> QED
      BY <3>1, <3>3 DEF Waiting
  <2>2. CASE i = n
    <3>1. stack'[i] = Top /\ stack'[i + 1] = frame
      BY <1>1, <1>2, <2>2
    <3> QED
      BY <1>1, <1>3, <3>1 DEF Waiting
  <2> QED
    BY <1>1, <1>2, <2>1, <2>2
<1> QED
  BY <1>2, <1>4, <1>5, <1>6

\* Changing the last of the first n activations, the rest having returned.
LEMMA Changed ==
  ASSUME IInv, NEW n \in Nat \ {0}, n <= Len(stack), Len(stack) \in Nat,
         IsSequence(stack'), Len(stack') = n,
         \A i \in 1..(n - 1) : stack'[i] = stack[i],
         Fine(stack'[n]), stack'[n].type = stack[n].type
  PROVE  /\ stack' # <<>>
         /\ \A i \in DOMAIN stack' : Fine(stack'[i])
         /\ \A i \in 1..(Len(stack') - 1) : Waiting(i)'
<1>1. /\ DOMAIN stack = 1..Len(stack) /\ DOMAIN stack' = 1..n
      /\ \A i \in DOMAIN stack : Fine(stack[i])
      /\ \A i \in 1..(Len(stack) - 1) : Waiting(i)
  BY Appended DEF IInv
<1>2. stack' # <<>>
  BY Empty
<1>3. \A i \in DOMAIN stack' : Fine(stack'[i])
  <2> TAKE i \in DOMAIN stack'
  <2>1. CASE i \in 1..(n - 1)
    <3>1. i \in DOMAIN stack
      BY <1>1, <2>1
    <3> QED
      BY <1>1, <2>1, <3>1
  <2>2. CASE i = n
    BY <2>2
  <2> QED
    BY <1>1, <2>1, <2>2
<1>4. \A i \in 1..(Len(stack') - 1) : Waiting(i)'
  <2> TAKE i \in 1..(Len(stack') - 1)
  <2>1. i \in 1..(n - 1) /\ i \in 1..(Len(stack) - 1)
    OBVIOUS
  <2>2. Waiting(i) /\ stack'[i] = stack[i]
    BY <1>1, <2>1
  <2>3. stack'[i + 1].type = stack[i + 1].type
    <3>1. CASE i + 1 = n
      BY <3>1
    <3>2. CASE i + 1 \in 1..(n - 1)
      BY <3>2
    <3> QED
      BY <2>1, <3>1, <3>2
  <2> QED
    BY <2>2, <2>3 DEF Waiting
<1> QED
  BY <1>2, <1>3, <1>4

-----------------------------------------------------------------------------
(* Steps.                                                                  *)

\* No activation changes, as when all are left behind.
LEMMA Same ==
  ASSUME IInv, data' = data, stream' = stream, stack' = stack, pc' \in {"threw", pc}
  PROVE  IInv'
<1>1. \A i \in 1..(Len(stack) - 1) : Waiting(i)'
  BY DEF IInv, Waiting, Complete
<1> QED
  BY <1>1 DEF IInv, ParserTypeOK

\* What a step asks for: more of a good stream, entering one activation at
\* most; nothing for a compound in a list, which it enters; or what is left of
\* the activation it leaves.
Advances == stream <= Len(data) /\ stream' > stream /\ Len(stack') <= Len(stack) + 1
Nests ==
  /\ stream <= Len(data) /\ stream' >= stream /\ Len(stack') = Len(stack) + 1
  /\ stack # <<>> /\ Top.type = LIST /\ Top'.type = COMPOUND
Leaves ==
  /\ Len(stack') = Len(stack) - 1 /\ stack # <<>>
  /\ stream' >= stream /\ (Top.type = LIST \/ stream' > stream)

\* The first header.
LEMMA ParseStep ==
  ASSUME IInv, parse
  PROVE  /\ IInv'
         /\ pc' = "threw" \/ Advances
<1>1. data \in Seq(Byte) /\ stream = 0 /\ stream \in Nat /\ Len(data) \in Nat
  BY LenProperties DEF IInv, ParserTypeOK, parse
<1>2. data' = data /\ pc = "root"
  BY DEF parse
<1>3. CASE pc' = "threw"
  <2>1. stream' = stream /\ stack' = stack
    BY <1>3 DEF parse
  <2> QED
    <3>1. pc' \in {"threw", pc}
      BY <1>3
    <3>2. IInv'
      BY <1>2, <2>1, <3>1, Same
    <3> QED
      BY <1>3, <3>2
<1>4. CASE pc' # "threw"
  <2> DEFINE name == parseString(data, stream + 1)
             frame == InCompound(name.bytes)
  <2>1. /\ name.ok /\ stream' = name.after /\ stack' = <<frame>> /\ pc' = "parsing"
    BY <1>4 DEF parse
  <2>2. stream' \in Nat /\ stream' > stream
    <3>1. stream + 1 \in Nat
      BY <1>1
    <3>2. name.after \in Nat /\ name.after >= stream + 1
      BY <1>1, <3>1, StringRead
    <3> QED
      BY <1>1, <2>1, <3>2
  <2>3. Fine(frame)
    BY Started, 0 \in Int
  <2> HIDE DEF frame
  <2>4. /\ stack' # <<>> /\ IsSequence(stack') /\ Len(stack') = 1
        /\ DOMAIN stack' = {1} /\ stack'[1] = frame
    <3>1. stack' = Append(<<>>, frame)
      BY <2>1
    <3>2. /\ IsSequence(stack') /\ Len(stack') = 0 + 1
          /\ DOMAIN stack' = 1..(0 + 1) /\ stack'[0 + 1] = frame
      BY <3>1, Empty, Appended, Zenon
    <3> QED
      BY <3>2, Empty
  <2>5. IInv'
    BY <1>1, <1>2, <2>1, <2>2, <2>3, <2>4 DEF IInv, ParserTypeOK
  <2>6. Len(stack) \in Nat
    BY Appended DEF IInv
  <2> QED
    BY <1>1, <2>2, <2>4, <2>5, <2>6 DEF Advances
<1> QED
  BY <1>3, <1>4

\* The stack after an Insert.
LEMMA Inserted ==
  ASSUME IInv, Insert
  PROVE  LET n == Len(stack)
             payload == parseScalar(data, Header.after, Header.type)
         IN  /\ n \in Nat \ {0} /\ Top = stack[n]
             /\ IsSequence(stack') /\ Len(stack') = n
             /\ \A i \in 1..(n - 1) : stack'[i] = stack[i]
             /\ stack'[n] = Added(Top, Header.bytes, Scalar(Header.type, payload.bytes))
<1> DEFINE n == Len(stack)
           payload == parseScalar(data, Header.after, Header.type)
           g == Added(stack[n], Header.bytes, Scalar(Header.type, payload.bytes))
<1>1. IsSequence(stack) /\ n \in Nat \ {0} /\ n \in 1..Len(stack) /\ Top = stack[n]
  BY HeaderRead DEF IInv, Insert, Continues
<1>2. stack' = Put(stack, n, g)
  BY DEF Insert, Put
<1> HIDE DEF g
<1>3. /\ IsSequence(stack') /\ Len(stack') = n
      /\ \A i \in 1..Len(stack) : stack'[i] = IF i = n THEN g ELSE stack[i]
  BY <1>1, <1>2, Replaced
<1> QED
  BY <1>1, <1>3 DEF g

\* The stack after a return to a caller.
LEMMA Returned ==
  ASSUME IInv, Return, Len(stack) # 1
  PROVE  LET n == Len(stack) - 1
         IN  /\ n \in Nat \ {0} /\ Len(stack) = n + 1
             /\ Top = stack[n + 1]
             /\ IsSequence(stack') /\ Len(stack') = n
             /\ \A i \in 1..(n - 1) : stack'[i] = stack[i]
             /\ stack'[n] = Added(stack[n], Top.name, Value(Top))
<1> DEFINE n == Len(stack) - 1
           g == Added(stack[n], Top.name, Value(Top))
<1>1. /\ IsSequence(stack) /\ Len(stack) \in Nat /\ Len(stack) # 0
      /\ DOMAIN stack = 1..Len(stack)
  <2>1. stack # <<>> /\ IsSequence(stack)
    BY DEF IInv, ParserTypeOK, Return
  <2>2. Len(stack) \in Nat /\ Len(stack) # 0
    BY <2>1 DEF IsSequence
  <2> QED
    BY <2>1, <2>2, Appended
<1>2. n \in Nat \ {0} /\ Len(stack) = n + 1
  BY <1>1
<1>3. Top = stack[n + 1]
  BY <1>2 DEF Top, Last
<1>4. stack' = Put(Front(stack), n, Added(Front(stack)[n], Top.name, Value(Top)))
  BY DEF Return, Put
<1>5. Front(stack)[n] = stack[n]
  <2>1. \A i \in 1..n : stack[i] \in Range(stack)
    BY <1>1, <1>2 DEF Range
  <2>2. Front(stack) = SubSeq(stack, 1, n)
    BY DEF Front
  <2> HIDE DEF n
  <2>3. \A i \in 1..(n - 1 + 1) : SubSeq(stack, 1, n)[i] = stack[1 + i - 1]
    BY <1>2, <2>1, SubSeqProperties
  <2> QED
    BY <1>2, <2>2, <2>3
<1>6. stack' = Put(Front(stack), n, g)
  BY <1>4, <1>5
<1> HIDE DEF n, g
<1>7. /\ IsSequence(stack') /\ Len(stack') = n
      /\ \A i \in 1..(n - 1) : stack'[i] = stack[i]
      /\ stack'[n] = g
  BY <1>1, <1>2, <1>6, Popped
<1> QED
  BY <1>2, <1>3, <1>7 DEF n, g

\* A number, a string or an array.
LEMMA InsertStep ==
  ASSUME IInv, Insert
  PROVE  IInv' /\ Advances
<1> DEFINE n == Len(stack)
           payload == parseScalar(data, Header.after, Header.type)
           v == Scalar(Header.type, payload.bytes)
           g == Added(Top, Header.bytes, v)
<1>1. /\ data \in Seq(Byte) /\ stream \in Nat /\ Len(data) \in Nat
      /\ pc = "parsing" /\ pc' = "parsing" /\ data' = data /\ Header.ok
      /\ Header.type \in Scalars
      /\ payload.ok /\ stream' = payload.after /\ ~AtEnd
  BY LenProperties DEF IInv, ParserTypeOK, Insert, Continues
<1>2. /\ IsSequence(stack) /\ n \in Nat \ {0} /\ n \in 1..Len(stack)
      /\ Top = stack[n] /\ Fine(stack[n])
      /\ Header.after \in Nat /\ Header.after >= stream
      /\ Top.type = LIST => Header.type = Top.of
  BY <1>1, HeaderRead DEF IInv
<1>3. stream' \in Nat /\ stream' > stream
  BY <1>1, <1>2, ScalarRead
<1>4. stream <= Len(data)
  BY <1>1 DEF AtEnd, Good
<1>5. /\ IsSequence(stack') /\ Len(stack') = n
      /\ \A i \in 1..(n - 1) : stack'[i] = stack[i]
      /\ stack'[n] = g
  BY Inserted
<1>6. v.type = Header.type
  BY DEF Scalar
<1>7. stack[n].type = LIST => ~Complete(stack[n]) /\ v.type = stack[n].of
  BY <1>1, <1>2, <1>6 DEF AtEnd
<1> HIDE DEF v, payload
<1>8. Fine(g) /\ g.type = stack[n].type
  BY <1>2, <1>7, Grown
<1> HIDE DEF g, n
<1>9. /\ stack' # <<>>
      /\ \A i \in DOMAIN stack' : Fine(stack'[i])
      /\ \A i \in 1..(Len(stack') - 1) : Waiting(i)'
  <2>1. n <= Len(stack) /\ Len(stack) \in Nat
    BY <1>2 DEF n
  <2> QED
    BY <1>2, <1>5, <1>8, <2>1, Changed
<1>10. IInv'
  BY <1>1, <1>3, <1>5, <1>9 DEF IInv, ParserTypeOK
<1>11. Len(stack') <= Len(stack) + 1
  BY <1>2, <1>5 DEF n
<1> QED
  BY <1>3, <1>4, <1>10, <1>11 DEF Advances

\* A compound.
LEMMA CompoundStep ==
  ASSUME IInv, CallParseCompound
  PROVE  IInv' /\ (Advances \/ Nests)
<1> DEFINE frame == InCompound(Header.bytes)
<1>1. /\ stream \in Nat /\ Len(data) \in Nat
      /\ pc = "parsing" /\ pc' = "parsing" /\ data' = data
      /\ Continues /\ Header.ok /\ Header.type = COMPOUND /\ ~AtEnd
      /\ stream' = Header.after /\ stack' = Append(stack, frame)
  BY LenProperties
  DEF IInv, ParserTypeOK, CallParseCompound, Continues
<1>2. /\ IsSequence(stack) /\ Fine(Top)
      /\ Header.after \in Nat /\ Header.after >= stream
      /\ Top.type = COMPOUND => Header.after > stream
  BY <1>1, HeaderRead DEF IInv
<1>3. Fine(frame) /\ frame.type = COMPOUND
  BY Started, 0 \in Int DEF InCompound
<1> HIDE DEF frame
<1>4. /\ stack' # <<>> /\ IsSequence(stack')
      /\ \A i \in DOMAIN stack' : Fine(stack'[i])
      /\ \A i \in 1..(Len(stack') - 1) : Waiting(i)'
  BY <1>1, <1>3, Entered
<1>5. IInv'
  BY <1>1, <1>2, <1>4 DEF IInv, ParserTypeOK
<1>6. Last(stack') = frame /\ Len(stack') = Len(stack) + 1 /\ Len(stack) \in Nat
  <2>1. /\ Len(stack') = Len(stack) + 1
        /\ stack'[Len(stack) + 1] = frame
    BY <1>1, <1>2, Appended
  <2>2. Len(stack) \in Nat
    BY <1>2, Appended
  <2> QED
    BY <2>1, <2>2 DEF Last
<1>7. stream <= Len(data)
  BY <1>1 DEF AtEnd, Good
<1>8. stream' >= stream /\ (Top.type = LIST \/ stream' > stream)
  BY <1>1, <1>2 DEF Fine
<1>9. stack # <<>>
  BY <1>1 DEF IInv, ParserTypeOK
<1>10. Top'.type = COMPOUND
  BY <1>3, <1>6 DEF Top
<1> QED
  BY <1>5, <1>6, <1>7, <1>8, <1>9, <1>10 DEF Advances, Nests

\* A list.
LEMMA ListStep ==
  ASSUME IInv, CallParseList
  PROVE  IInv' /\ Advances
<1> DEFINE of == parseTagType(data, Header.after)
           size == parseInt(data, Header.after + 1)
           frame == InList(Header.bytes, of, size)
<1>1. /\ data \in Seq(Byte) /\ stream \in Nat /\ Len(data) \in Nat
      /\ pc = "parsing" /\ pc' = "parsing" /\ data' = data
      /\ Continues /\ Header.ok /\ Header.type = LIST /\ ~AtEnd
      /\ stream' = Header.after + 1 + 4 /\ stack' = Append(stack, frame)
  BY LenProperties
  DEF IInv, ParserTypeOK, CallParseList, Continues
<1>2. Header.after \in Nat /\ Header.after >= stream
  BY <1>1, HeaderRead
<1>3. size \in Int
  <2>1. Header.after + 1 \in Nat
    BY <1>2
  <2> QED
    BY <1>1, <2>1, Sizes
<1> HIDE DEF of, size
<1>4. Fine(frame) /\ frame.type = LIST
  BY <1>3, Started DEF InList
<1> HIDE DEF frame
<1>5. /\ stack' # <<>> /\ IsSequence(stack')
      /\ \A i \in DOMAIN stack' : Fine(stack'[i])
      /\ \A i \in 1..(Len(stack') - 1) : Waiting(i)'
  BY <1>1, <1>4, Entered
<1>6. stream' \in Nat /\ stream' > stream
  BY <1>1, <1>2
<1>7. IInv'
  BY <1>1, <1>5, <1>6 DEF IInv, ParserTypeOK
<1>8. stream <= Len(data)
  BY <1>1 DEF AtEnd, Good
<1>9. Len(stack') <= Len(stack) + 1
  <2>1. IsSequence(stack)
    BY DEF IInv
  <2>2. Len(stack') = Len(stack) + 1 /\ Len(stack) \in Nat
    BY <1>1, <2>1, Appended
  <2> QED
    BY <2>2
<1> QED
  BY <1>6, <1>7, <1>8, <1>9 DEF Advances

\* An activation ends: parse has its result, or the caller its element.
LEMMA ReturnStep ==
  ASSUME IInv, Return
  PROVE  IInv' /\ (pc' = "done" \/ Leaves)
<1>1. /\ data \in Seq(Byte) /\ stream \in Nat /\ stream' \in Nat
      /\ pc = "parsing" /\ data' = data /\ stack # <<>>
  BY DEF IInv, ParserTypeOK, Return
<1>2. /\ IsSequence(stack) /\ Len(stack) \in Nat /\ Len(stack) # 0
      /\ DOMAIN stack = 1..Len(stack)
      /\ \A i \in DOMAIN stack : Fine(stack[i])
      /\ \A i \in 1..(Len(stack) - 1) : Waiting(i)
  <2>1. IsSequence(stack)
    BY DEF IInv
  <2>2. Len(stack) \in Nat /\ Len(stack) # 0
    BY <1>1, <2>1 DEF IsSequence
  <2> QED
    BY <2>1, <2>2, Appended DEF IInv
<1>3. CASE Len(stack) = 1
  <2>1. pc' = "done" /\ stack' = <<>>
    BY <1>3 DEF Return
  <2>2. IsSequence(stack') /\ Len(stack') = 0 /\ DOMAIN stack' = {}
    BY <2>1, Empty
  <2>3. /\ \A i \in DOMAIN stack' : Fine(stack'[i])
        /\ \A i \in 1..(Len(stack') - 1) : Waiting(i)'
    BY <2>2
  <2> QED
    BY <1>1, <2>1, <2>2, <2>3 DEF IInv, ParserTypeOK
<1>4. CASE Len(stack) # 1
  <2> DEFINE n == Len(stack) - 1
             v == Value(Top)
             f == stack[n]
             g == Added(f, Top.name, v)
  <2>1. /\ n \in Nat \ {0} /\ Len(stack) = n + 1 /\ Top = stack[n + 1]
        /\ IsSequence(stack') /\ Len(stack') = n
        /\ \A i \in 1..(n - 1) : stack'[i] = stack[i]
        /\ stack'[n] = g
    BY <1>4, Returned
  <2>2. n \in 1..(Len(stack) - 1) /\ n \in DOMAIN stack /\ n + 1 \in DOMAIN stack
    BY <1>2, <2>1
  <2>3. pc' = "parsing"
    BY <1>1, <1>4 DEF Return
  <2>4. Fine(f) /\ Fine(Top) /\ Waiting(n)
    BY <1>2, <2>1, <2>2
  <2>5. v.type = Top.type
    BY <2>4, ValueType
  <2>6. f.type = LIST => ~Complete(f) /\ v.type = f.of
    BY <2>1, <2>4, <2>5 DEF Waiting
  <2> HIDE DEF n, v, f
  <2>7. Fine(g) /\ g.type = f.type
    BY <2>4, <2>6, Grown
  <2> HIDE DEF g
  <2>8. stack'[n].type = stack[n].type
    BY <2>1, <2>7 DEF f
  <2>9. /\ stack' # <<>>
        /\ \A i \in DOMAIN stack' : Fine(stack'[i])
        /\ \A i \in 1..(Len(stack') - 1) : Waiting(i)'
    BY <1>2, <2>1, <2>7, <2>8, Changed
  <2>10. IInv'
    BY <1>1, <2>1, <2>3, <2>9 DEF IInv, ParserTypeOK
  <2>11. Len(stack') = Len(stack) - 1
    BY <2>1
  <2>12. stream' >= stream /\ (Top.type = LIST \/ stream' > stream)
    BY <1>1, <2>4 DEF Return, Fine
  <2> QED
    BY <1>1, <2>10, <2>11, <2>12 DEF Leaves
<1> QED
  BY <1>3, <1>4

-----------------------------------------------------------------------------
(* The parser.                                                             *)

\* The invariant holds at first, is kept by every step, and always holds.
LEMMA InitInv == Init => IInv
<1> SUFFICES ASSUME Init PROVE IInv
  OBVIOUS
<1>1. IsSequence(stack) /\ Len(stack) = 0 /\ DOMAIN stack = {}
  BY Empty DEF Init, Start
<1> QED
  BY <1>1, StreamsAssumption DEF Init, Start, IInv, ParserTypeOK

\* Every step of the parser preserves IInv.
LEMMA StepInv == IInv /\ [Next]_vars => IInv'
<1> SUFFICES ASSUME IInv, [Next]_vars PROVE IInv'
  OBVIOUS
<1>1. CASE parse
  BY <1>1, ParseStep
<1>2. CASE Insert
  BY <1>2, InsertStep
<1>3. CASE CallParseCompound
  BY <1>3, CompoundStep
<1>4. CASE CallParseList
  BY <1>4, ListStep
<1>5. CASE Return
  BY <1>5, ReturnStep
<1>6. CASE Throw
  BY <1>6, Same DEF Throw
<1>7. CASE UNCHANGED vars
  BY <1>7, Same DEF vars
<1> QED
  BY <1>1, <1>2, <1>3, <1>4, <1>5, <1>6, <1>7 DEF Next

\* So it holds in every state.
LEMMA Invariance == Spec => []IInv
  BY InitInv, StepInv, PTL DEF Spec

\* Types.
THEOREM ParserTyped == Spec => []ParserTypeOK
<1>1. IInv => ParserTypeOK
  BY DEF IInv
<1> QED
  BY <1>1, Invariance, PTL

\* What is announced is kept to in every state of the invariant.
LEMMA InvAnnounced ==
  ASSUME IInv
  PROVE  AsAnnounced
<1> SUFFICES ASSUME NEW i \in DOMAIN stack
             PROVE  /\ stack[i].type = LIST =>
                         /\ stack[i].items = <<>> \/ Len(stack[i].items) <= stack[i].size
                         /\ \A k \in DOMAIN stack[i].items :
                              stack[i].items[k].type = stack[i].of
                    /\ i > 1 /\ stack[i - 1].type = LIST =>
                         stack[i].type = stack[i - 1].of
  BY DEF AsAnnounced
<1>1. Fine(stack[i])
  BY DEF IInv
<1>2. ASSUME i > 1, stack[i - 1].type = LIST PROVE stack[i].type = stack[i - 1].of
  <2>1. Len(stack) \in Nat /\ DOMAIN stack = 1..Len(stack)
    BY Appended DEF IInv
  <2>2. i - 1 \in 1..(Len(stack) - 1) /\ (i - 1) + 1 = i
    BY <1>2, <2>1
  <2>3. Waiting(i - 1)
    BY <2>2 DEF IInv
  <2> QED
    BY <1>2, <2>2, <2>3 DEF Waiting
<1> QED
  BY <1>1, <1>2 DEF Fine

\* A list, and every list that is still waiting for an inner one, holds at most
\* as many elements as the stream announced and only of the announced type; an
\* inner activation is of the type that its caller was told to expect.
THEOREM Announced == Spec => []AsAnnounced
  BY InvAnnounced, Invariance, PTL

\* Every step from a state of the invariant asks, enters or leaves, or ends it.
LEMMA NextGets ==
  ASSUME IInv, Next
  PROVE  IInv' /\ data' = data /\ (pc' \in {"done", "threw"} \/ Advances \/ Nests \/ Leaves)
<1>1. CASE parse
  BY <1>1, ParseStep DEF parse
<1>2. CASE Insert
  BY <1>2, InsertStep DEF Insert
<1>3. CASE CallParseCompound
  BY <1>3, CompoundStep DEF CallParseCompound
<1>4. CASE CallParseList
  BY <1>4, ListStep DEF CallParseList
<1>5. CASE Return
  BY <1>5, ReturnStep DEF Return
<1>6. CASE Throw
  BY <1>6, Same DEF Throw
<1> QED
  BY <1>1, <1>2, <1>3, <1>4, <1>5, <1>6 DEF Next

\* The measure of Left, from what it is made of: l bytes, s of them asked for, n
\* activations, and whether the last one is a list.
Room(l, s) == IF s <= l THEN 4 * (l + 1 - s) ELSE 0
Bonus(l, s, b) == IF s <= l /\ b THEN 2 ELSE 0

\* It falls with all three.
LEMMA RoomFalls ==
  ASSUME NEW l \in Nat, NEW s \in Nat, NEW t \in Nat, NEW n \in Nat, NEW m \in Nat,
         NEW b \in BOOLEAN, NEW c \in BOOLEAN,
         \/ s <= l /\ t > s /\ m <= n + 1
         \/ s <= l /\ t >= s /\ m = n + 1 /\ b /\ ~c
         \/ m = n - 1 /\ t >= s /\ (b \/ t > s)
  PROVE  Room(l, t) + m + Bonus(l, t, c) < Room(l, s) + n + Bonus(l, s, b)
  BY SMTT(60) DEF Room, Bonus

\* Every step from a state of the invariant that does not end it lowers what is
\* left.
LEMMA NextLowers == IInv /\ [Next]_vars => [pc' \in {"done", "threw"} \/ Left' < Left]_vars
<1> SUFFICES ASSUME IInv, Next, pc' \notin {"done", "threw"} PROVE Left' < Left
  OBVIOUS
<1> DEFINE l == Len(data)
           filling == stack # <<>> /\ Top.type = LIST
           fills == stack' # <<>> /\ Top'.type = LIST
<1>1. IInv' /\ data' = data /\ (Advances \/ Nests \/ Leaves)
  BY NextGets
<1>2. /\ l \in Nat /\ stream \in Nat /\ stream' \in Nat
      /\ Len(stack) \in Nat /\ Len(stack') \in Nat
  BY <1>1, LenProperties, Appended DEF IInv, ParserTypeOK
<1>3. Left = Room(l, stream) + Len(stack) + Bonus(l, stream, filling)
  BY DEF Left, Room, Bonus
<1>4. Left' = Room(l, stream') + Len(stack') + Bonus(l, stream', fills)
  BY <1>1 DEF Left, Room, Bonus
<1>5. Nests => ~fills /\ filling
  BY DEF Nests, LIST, COMPOUND
<1>6. Leaves => filling \/ stream' > stream
  BY DEF Leaves
<1> HIDE DEF l, filling, fills
<1>7. \/ stream <= l /\ stream' > stream /\ Len(stack') <= Len(stack) + 1
      \/ stream <= l /\ stream' >= stream /\ Len(stack') = Len(stack) + 1 /\ filling /\ ~fills
      \/ Len(stack') = Len(stack) - 1 /\ stream' >= stream /\ (filling \/ stream' > stream)
  BY <1>1, <1>5, <1>6 DEF Advances, Nests, Leaves, l
<1>8. filling \in BOOLEAN /\ fills \in BOOLEAN
  BY DEF filling, fills
<1> QED
  BY <1>2, <1>3, <1>4, <1>7, <1>8, RoomFalls

\* Every step of the parser ends it or lowers what is left: whatever sizes a
\* stream claims, parse is over within four iterations a byte.
THEOREM GetsOn == Spec => Progresses
  BY NextLowers, Invariance, PTL DEF Spec, Progresses

-----------------------------------------------------------------------------
(* Induction.                                                              *)

\* A set of numbers that has 0 and with every number the next has them all.
LEMMA SetInduction ==
  ASSUME NEW S \in SUBSET Nat, 0 \in S, \A n \in S : n + 1 \in S
  PROVE  S = Nat
<1>1. SUFFICES ASSUME Nat \ S # {} PROVE FALSE
  OBVIOUS
<1> DEFINE R == OpToRel(<, Nat)
<1>2. IsWellFoundedOn(R, Nat)
  BY NatLessThanWellFounded
<1> HIDE DEF R
<1>3. PICK m \in Nat \ S : \A y \in Nat \ S : <<y, m>> \notin R
  BY <1>1, <1>2, WFMin
<1>4. m # 0 /\ m - 1 \in Nat
  BY <1>3
<1>5. <<m - 1, m>> \in R
  BY <1>4 DEF R, OpToRel
<1>6. m - 1 \in S
  BY <1>3, <1>4, <1>5
<1> QED
  BY <1>3, <1>4, <1>6

\* A set of indexes that has the first and with every one the next has them all.
LEMMA IndexInduction ==
  ASSUME NEW n \in Nat, NEW G \in SUBSET (1..n),
         \A i \in 1..n : i = 1 \/ i - 1 \in G => i \in G
  PROVE  G = 1..n
<1> DEFINE S == {m \in Nat : m \in G \/ m = 0 \/ m > n}
<1>1. S \in SUBSET Nat /\ 0 \in S /\ \A m \in S : m + 1 \in S
  OBVIOUS
<1> HIDE DEF S
<1>2. S = Nat
  BY <1>1, SetInduction
<1>3. ASSUME NEW m \in 1..n PROVE m \in G
  <2>1. m \in S
    BY <1>2
  <2> QED
    BY <2>1 DEF S
<1> QED
  BY <1>3

-----------------------------------------------------------------------------
(* Concatenations.                                                         *)

\* The recursive function of FlattenSeq, and what defines it.
Flat(parts, f) ==
  f = [i \in 1..Len(parts) |-> IF i = 1 THEN parts[i] ELSE f[i - 1] \o parts[i]]
Flatten(parts) == CHOOSE f : Flat(parts, f)

\* There is such a function, one index at a time.
LEMMA FlattenExists ==
  ASSUME NEW S, NEW parts \in Seq(Seq(S))
  PROVE  \E f : Flat(parts, f)
<1> DEFINE n == Len(parts)
           Upto(f, m) == \A i \in 1..n : i <= m => f[i] = IF i = 1 THEN parts[i] ELSE f[i - 1] \o parts[i]
           Has(m) == \E f : f = [i \in 1..n |-> f[i]] /\ Upto(f, m)
           I == {m \in Nat : Has(m)}
<1>0. n \in Nat
  OBVIOUS
<1> HIDE DEF n
<1>1. 0 \in I
  <2>1. \E f : f = [i \in 1..n |-> f[i]]
    <3> WITNESS [i \in 1..n |-> 0]
    <3> QED OBVIOUS
  <2>2. \A f : Upto(f, 0)
    OBVIOUS
  <2> QED
    BY <2>1, <2>2
<1>2. \A m \in I : m + 1 \in I
  <2> TAKE m \in I
  <2>1. PICK f : f = [i \in 1..n |-> f[i]] /\ Upto(f, m)
    OBVIOUS
  <2> DEFINE g == [i \in 1..n |-> IF i = m + 1 THEN (IF i = 1 THEN parts[i] ELSE f[i - 1] \o parts[i]) ELSE f[i]]
  <2>2. m \in Nat
    OBVIOUS
  <2>3. Upto(g, m + 1)
    <3> SUFFICES ASSUME NEW i \in 1..n, i <= m + 1
                 PROVE  g[i] = IF i = 1 THEN parts[i] ELSE g[i - 1] \o parts[i]
      OBVIOUS
    <3>1. i # 1 => i - 1 \in 1..n /\ g[i - 1] = f[i - 1]
      BY <1>0, <2>2
    <3>2. i = m + 1 => g[i] = IF i = 1 THEN parts[i] ELSE f[i - 1] \o parts[i]
      OBVIOUS
    <3>3. i # m + 1 => g[i] = f[i] /\ i <= m
      BY <1>0, <2>2
    <3> QED
      BY <2>1, <3>1, <3>2, <3>3
  <2>4. g = [i \in 1..n |-> g[i]]
    OBVIOUS
  <2> HIDE DEF g
  <2>5. Has(m + 1)
    <3> WITNESS g
    <3> QED
      BY <2>3, <2>4
  <2> HIDE DEF Has
  <2> QED
    BY <2>2, <2>5
<1>3. n \in I
  <2> HIDE DEF I
  <2>1. I \subseteq Nat
    BY DEF I
  <2> QED
    BY <1>0, <1>1, <1>2, <2>1, SetInduction
<1>4. PICK f : f = [i \in 1..n |-> f[i]] /\ Upto(f, n)
  BY <1>3
<1>5. f = [i \in 1..n |-> IF i = 1 THEN parts[i] ELSE f[i - 1] \o parts[i]]
  <2>1. \A i \in 1..n : f[i] = IF i = 1 THEN parts[i] ELSE f[i - 1] \o parts[i]
    <3> TAKE i \in 1..n
    <3>1. i <= n
      BY <1>0
    <3> QED
      BY <1>4, <3>1, Zenon
  <2>2. f = [i \in 1..n |-> f[i]]
    BY <1>4
  <2> QED
    BY <2>1, <2>2, Zenon
<1> QED
  BY <1>5 DEF Flat, n

\* So FlattenSeq is what its recursion says.
LEMMA FlattenIs ==
  ASSUME NEW S, NEW parts \in Seq(Seq(S)), Len(parts) # 0
  PROVE  Flat(parts, Flatten(parts)) /\ FlattenSeq(parts) = Flatten(parts)[Len(parts)]
<1>1. Flat(parts, Flatten(parts))
  BY FlattenExists DEF Flatten
<1>2. FlattenSeq(parts) = Flatten(parts)[Len(parts)]
  BY DEF FlattenSeq, Flatten, Flat
<1> QED
  BY <1>1, <1>2

\* Where the parts of a concatenation begin.
Joins(parts, off, s) ==
  /\ s \in Seq(Byte)
  /\ off \in [0..Len(parts) -> Nat]
  /\ off[0] = 0 /\ off[Len(parts)] = Len(s)
  /\ \A i \in 1..Len(parts) :
       /\ off[i] = off[i - 1] + Len(parts[i])
       /\ \A k \in 1..Len(parts[i]) : s[off[i - 1] + k] = parts[i][k]

\* Every concatenation has such places.
LEMMA Joined ==
  ASSUME NEW parts \in Seq(Seq(Byte))
  PROVE  \E off : Joins(parts, off, FlattenSeq(parts))
<1> DEFINE n == Len(parts)
           f == Flatten(parts)
           off == [i \in 0..n |-> IF i = 0 THEN 0 ELSE Len(f[i])]
<1>0. n \in Nat /\ \A i \in 1..n : parts[i] \in Seq(Byte)
  OBVIOUS
<1>1. CASE n = 0
  <2>1. parts = <<>> /\ FlattenSeq(parts) = <<>>
    BY <1>1 DEF FlattenSeq
  <2>2. Joins(<<>>, [i \in 0..0 |-> 0], <<>>)
    BY DEF Joins
  <2> QED
    BY <2>1, <2>2
<1>2. CASE n # 0
  <2>1. /\ f = [i \in 1..n |-> IF i = 1 THEN parts[i] ELSE f[i - 1] \o parts[i]]
        /\ FlattenSeq(parts) = f[n]
    BY <1>2, FlattenIs DEF Flat
  <2> HIDE DEF n, f
  <2>2. \A i \in 1..n : f[i] = IF i = 1 THEN parts[i] ELSE f[i - 1] \o parts[i]
    BY <2>1, Zenon
  <2>3. \A i \in 1..n : i = 1 \/ i - 1 \in 1..n
    BY <1>0
  <2>4. \A i \in 1..n : f[i] \in Seq(Byte)
    <3> DEFINE G == {i \in 1..n : f[i] \in Seq(Byte)}
    <3>1. ASSUME NEW i \in 1..n, i = 1 \/ i - 1 \in G PROVE f[i] \in Seq(Byte)
      <4>1. parts[i] \in Seq(Byte)
        BY <1>0
      <4>2. CASE i = 1
        BY <2>2, <4>1, <4>2
      <4>3. CASE i # 1
        <5>1. f[i - 1] \in Seq(Byte) /\ f[i] = f[i - 1] \o parts[i]
          BY <2>2, <3>1, <4>3
        <5> QED
          BY <4>1, <5>1, ConcatProperties
      <4> QED
        BY <4>2, <4>3
    <3>2. G \in SUBSET (1..n) /\ \A i \in 1..n : i = 1 \/ i - 1 \in G => i \in G
      BY <3>1
    <3> HIDE DEF G
    <3>3. G = 1..n
      BY <1>0, <3>2, IndexInduction
    <3> QED
      BY <3>3 DEF G
  <2>5. /\ off \in [0..n -> Nat] /\ off[0] = 0
        /\ \A i \in 1..n : off[i] = Len(f[i])
    BY <1>0, <2>4, LenProperties
  <2> HIDE DEF off
  <2>6. \A i \in 1..n : /\ i - 1 \in 0..n /\ i \in 0..n
                        /\ off[i - 1] \in Nat /\ off[i] \in Nat /\ Len(parts[i]) \in Nat
                        /\ off[i] = off[i - 1] + Len(parts[i])
    <3> TAKE i \in 1..n
    <3>1. parts[i] \in Seq(Byte) /\ Len(parts[i]) \in Nat
      BY <1>0, LenProperties
    <3>2. i - 1 \in 0..n /\ i \in 0..n
      BY <1>0
    <3>3. CASE i = 1
      BY <2>2, <2>5, <3>1, <3>2, <3>3
    <3>4. CASE i # 1
      <4>1. i - 1 \in 1..n
        BY <2>3, <3>4
      <4>2. f[i - 1] \in Seq(Byte) /\ f[i] = f[i - 1] \o parts[i]
        BY <2>2, <2>4, <3>4, <4>1
      <4>3. Len(f[i]) = Len(f[i - 1]) + Len(parts[i])
        BY <3>1, <4>2, ConcatProperties
      <4> QED
        BY <2>5, <3>1, <3>2, <4>1, <4>3
    <3> QED
      BY <3>3, <3>4
  <2> DEFINE Holds(i) == \A j \in 1..n : j <= i => \A k \in 1..Len(parts[j]) :
                           off[j - 1] + k <= off[i] /\ f[i][off[j - 1] + k] = parts[j][k]
  <2>7. \A i \in 1..n : Holds(i)
    <3> DEFINE G == {i \in 1..n : Holds(i)}
    <3>1. ASSUME NEW i \in 1..n, i = 1 \/ i - 1 \in G PROVE Holds(i)
      <4> SUFFICES ASSUME NEW j \in 1..n, j <= i, NEW k \in 1..Len(parts[j])
                   PROVE  off[j - 1] + k <= off[i] /\ f[i][off[j - 1] + k] = parts[j][k]
        OBVIOUS
      <4> HIDE DEF Holds
      <4> DEFINE begin == off[j - 1]
      <4>0. /\ i \in Nat /\ j \in Nat /\ k \in Nat /\ k >= 1
            /\ begin \in Nat /\ k <= Len(parts[j]) /\ off[j] = begin + Len(parts[j])
            /\ Len(parts[j]) \in Nat /\ Len(parts[i]) \in Nat
        BY <1>0, <2>6
      <4>1. CASE i = 1
        <5>1. j = 1 /\ f[i] = parts[i] /\ begin = 0
          BY <2>2, <2>5, <4>1
        <5> QED
          BY <2>5, <4>0, <4>1, <5>1
      <4>2. CASE i # 1
        <5> DEFINE l == Len(f[i - 1])
        <5>1. /\ i - 1 \in 1..n /\ f[i - 1] \in Seq(Byte) /\ parts[i] \in Seq(Byte)
              /\ f[i] = f[i - 1] \o parts[i] /\ Holds(i - 1)
          BY <2>2, <2>3, <2>4, <3>1, <4>2, <1>0
        <5>2. \A p \in 1..(l + Len(parts[i])) :
                f[i][p] = IF p <= l THEN f[i - 1][p] ELSE parts[i][p - l]
          BY <5>1, ConcatProperties
        <5>3. off[i - 1] = l /\ off[i] = l + Len(parts[i]) /\ l \in Nat
          BY <2>5, <2>6, <5>1
        <5> HIDE DEF l, begin
        <5>4. CASE j = i
          <6>1. begin = l
            BY <5>3, <5>4 DEF begin
          <6>2. begin + k \in 1..(l + Len(parts[i])) /\ begin + k <= off[i] /\ ~(begin + k <= l)
            BY <4>0, <5>3, <5>4, <6>1
          <6> DEFINE q == begin + k
          <6>3. f[i][q] = parts[i][q - l]
            <7>1. q \in 1..(l + Len(parts[i])) /\ ~(q <= l)
              BY <6>2
            <7> HIDE DEF q
            <7> QED
              BY <5>2, <7>1
          <6>4. q - l = k
            BY <4>0, <5>3, <6>1
          <6>5. f[i][q] = parts[j][k] /\ q <= off[i]
            <7> HIDE DEF q
            <7>1. f[i][q] = parts[i][k]
              BY <6>3, <6>4
            <7> QED
              BY <5>4, <6>2, <7>1 DEF q
          <6> QED
            BY <6>5 DEF begin
        <5>5. CASE j # i
          <6>1. j <= i - 1
            BY <4>0, <5>5
          <6>2. begin + k <= l /\ f[i - 1][begin + k] = parts[j][k]
            BY <5>1, <5>3, <6>1 DEF Holds, begin
          <6>3. begin + k \in 1..(l + Len(parts[i])) /\ begin + k <= off[i]
            BY <4>0, <5>3, <6>2
          <6> QED
            BY <5>2, <6>2, <6>3 DEF begin
        <5> QED
          BY <5>4, <5>5
      <4> QED
        BY <4>1, <4>2
    <3> HIDE DEF Holds
    <3>2. G \in SUBSET (1..n) /\ \A i \in 1..n : i = 1 \/ i - 1 \in G => i \in G
      BY <3>1
    <3> HIDE DEF G
    <3>3. G = 1..n
      BY <1>0, <3>2, IndexInduction
    <3> QED
      BY <3>3 DEF G
  <2>8. n \in 1..n /\ f[n] \in Seq(Byte)
    BY <1>0, <1>2, <2>4
  <2>9. Joins(parts, off, FlattenSeq(parts))
    <3>1. \A i \in 1..n : \A k \in 1..Len(parts[i]) : f[n][off[i - 1] + k] = parts[i][k]
      BY <1>0, <2>7, <2>8
    <3> HIDE DEF Holds
    <3>2. off[n] = Len(f[n])
      BY <2>5, <2>8
    <3>3. \A i \in 1..n : off[i] = off[i - 1] + Len(parts[i])
      BY <2>6
    <3> DEFINE s == f[n]
    <3>4. s = FlattenSeq(parts) /\ s \in Seq(Byte)
      BY <2>1, <2>8
    <3> HIDE DEF s
    <3> QED
      BY <2>5, <3>1, <3>2, <3>3, <3>4 DEF Joins, n, s
  <2> QED
    BY <2>9
<1> QED
  BY <1>1, <1>2

\* Such places.
Offset(parts) == CHOOSE off : Joins(parts, off, FlattenSeq(parts))

\* The places that are chosen are places.
LEMMA Offsets ==
  ASSUME NEW parts \in Seq(Seq(Byte))
  PROVE  Joins(parts, Offset(parts), FlattenSeq(parts))
  BY Joined, Zenon DEF Offset

-----------------------------------------------------------------------------
(* Documents, level by level.                                              *)

\* The values of a function for the items of a payload.
Items(f, v) == [i \in DOMAIN v.items |-> f[v.items[i]]]

\* What every item has, if whatever all items of a payload have it has too.
LEMMA DepthInduction ==
  ASSUME NEW G \in SUBSET Payloads,
         \A v \in Payloads : (\A i \in DOMAIN v.items : v.items[i] \in G) => v \in G
  PROVE  G = Payloads
<1> DEFINE S == {m \in Nat : \A v \in Payloads : Depth[v] < m => v \in G}
<1>0. /\ Depth \in [Payloads -> Nat]
      /\ \A v \in Payloads : \A i \in DOMAIN v.items :
           v.items[i] \in Payloads /\ Depth[v.items[i]] < Depth[v]
  <2>1. ASSUME NEW v \in Payloads, NEW i \in DOMAIN v.items PROVE v.items[i] \in Payloads
    <3>1. v.items \in Seq(Payloads)
      BY PayloadsAssumption DEF Sound
    <3> QED
      BY <3>1
  <2> QED
    BY <2>1, DepthAssumption
<1>1. 0 \in S
  BY <1>0
<1>2. ASSUME NEW m \in S PROVE m + 1 \in S
  <2> SUFFICES ASSUME NEW v \in Payloads, Depth[v] = m PROVE v \in G
    BY <1>0
  <2>1. \A i \in DOMAIN v.items : v.items[i] \in G
    BY <1>0
  <2> QED
    BY <2>1
<1>3. S = Nat
  <2> HIDE DEF S
  <2>1. S \subseteq Nat
    BY DEF S
  <2> QED
    BY <1>1, <1>2, <2>1, SetInduction
<1>4. ASSUME NEW v \in Payloads PROVE v \in G
  <2>1. Depth[v] + 1 \in S
    BY <1>0, <1>3
  <2> QED
    BY <1>0, <2>1
<1> QED
  BY <1>4

\* The items of a payload.
LEMMA ItemsOf ==
  ASSUME NEW v \in Payloads
  PROVE  /\ Sound(v) /\ v.items \in Seq(Payloads)
         /\ Depth[v] \in Nat
         /\ \A i \in DOMAIN v.items : /\ v.items[i] \in Payloads
                                      /\ Depth[v.items[i]] \in Nat
                                      /\ Depth[v.items[i]] < Depth[v]
<1>1. Sound(v) /\ v.items \in Seq(Payloads)
  BY PayloadsAssumption DEF Sound
<1>2. \A i \in DOMAIN v.items : v.items[i] \in Payloads
  BY <1>1
<1> QED
  BY <1>1, <1>2, DepthAssumption

\* The three functions on payloads that are defined by recursion.
Made(which, v, parts) ==
  IF which = "written" THEN Unnamed(v, parts)
  ELSE IF which = "said" THEN Says(v, parts) ELSE Lengths(v, parts)

\* f keeps to the recursion up to a depth.
Solves(which, f, m) ==
  \A v \in Payloads : Depth[v] < m => f[v] = Made(which, v, Items(f, v))

\* There is a function that keeps to the recursion up to any depth.
LEMMA SolvedUpto ==
  ASSUME NEW which, NEW n \in Nat
  PROVE  \E f : Solves(which, f, n)
<1> DEFINE Has(m) == \E f : Solves(which, f, m)
           S == {m \in Nat : Has(m)}
<1>1. Has(0)
  <2>1. \A f : Solves(which, f, 0)
    BY ItemsOf DEF Solves
  <2> QED
    BY <2>1
<1>2. ASSUME NEW m \in Nat, Has(m) PROVE Has(m + 1)
  <2>1. PICK f : Solves(which, f, m)
    BY <1>2
  <2> DEFINE g == [v \in Payloads |-> IF Depth[v] < m THEN f[v] ELSE Made(which, v, Items(f, v))]
  <2>2. ASSUME NEW v \in Payloads, Depth[v] < m + 1 PROVE g[v] = Made(which, v, Items(g, v))
    <3>1. Items(g, v) = Items(f, v)
      <4>1. \A i \in DOMAIN v.items : g[v.items[i]] = f[v.items[i]]
        <5> TAKE i \in DOMAIN v.items
        <5>1. v.items[i] \in Payloads /\ Depth[v.items[i]] < m
          BY <2>2, ItemsOf
        <5> QED
          BY <5>1
      <4> HIDE DEF g
      <4> QED
        BY <4>1 DEF Items
    <3>2. Depth[v] < m => f[v] = Made(which, v, Items(f, v))
      BY <2>1 DEF Solves
    <3>3. g[v] = Made(which, v, Items(f, v))
      BY <3>2
    <3> HIDE DEF g
    <3> QED
      BY <3>1, <3>3
  <2> HIDE DEF g
  <2>3. Solves(which, g, m + 1)
    BY <2>2 DEF Solves
  <2> QED
    BY <2>3
<1> HIDE DEF Has
<1>3. S = Nat
  <2>1. S \in SUBSET Nat /\ 0 \in S /\ \A m \in S : m + 1 \in S
    BY <1>1, <1>2
  <2> HIDE DEF S
  <2> QED
    BY <2>1, SetInduction
<1>4. n \in S
  BY <1>3
<1> QED
  BY <1>4 DEF Has

\* A solution up to n, and where solutions agree.
Approximation(which, n) == CHOOSE f : Solves(which, f, n)

\* Approximations keep to the recursion and agree wherever they do.
LEMMA Agree ==
  ASSUME NEW which
  PROVE  /\ \A n \in Nat : Solves(which, Approximation(which, n), n)
         /\ \A v \in Payloads, m, n \in Nat : Depth[v] < m /\ Depth[v] < n =>
              Approximation(which, m)[v] = Approximation(which, n)[v]
<1>1. \A n \in Nat : Solves(which, Approximation(which, n), n)
  BY SolvedUpto, Zenon DEF Approximation
<1> DEFINE Alike(v) == \A m, n \in Nat : Depth[v] < m /\ Depth[v] < n =>
                         Approximation(which, m)[v] = Approximation(which, n)[v]
           G == {v \in Payloads : Alike(v)}
<1>2. ASSUME NEW v \in Payloads, \A i \in DOMAIN v.items : v.items[i] \in G PROVE Alike(v)
  <2> SUFFICES ASSUME NEW m \in Nat, NEW n \in Nat, Depth[v] < m, Depth[v] < n
               PROVE  Approximation(which, m)[v] = Approximation(which, n)[v]
    OBVIOUS
  <2>1. \A i \in DOMAIN v.items : Approximation(which, m)[v.items[i]] = Approximation(which, n)[v.items[i]]
    <3> TAKE i \in DOMAIN v.items
    <3>1. Depth[v.items[i]] < m /\ Depth[v.items[i]] < n
      BY ItemsOf
    <3> QED
      BY <1>2, <3>1
  <2>2. Items(Approximation(which, m), v) = Items(Approximation(which, n), v)
    BY <2>1 DEF Items
  <2>3. /\ Approximation(which, m)[v] = Made(which, v, Items(Approximation(which, m), v))
        /\ Approximation(which, n)[v] = Made(which, v, Items(Approximation(which, n), v))
    BY <1>1 DEF Solves
  <2> QED
    BY <2>2, <2>3
<1> HIDE DEF Alike
<1>3. G = Payloads
  <2>1. /\ G \in SUBSET Payloads
        /\ \A v \in Payloads : (\A i \in DOMAIN v.items : v.items[i] \in G) => v \in G
    BY <1>2
  <2> HIDE DEF G
  <2> QED
    BY <2>1, DepthInduction
<1>4. \A v \in Payloads : Alike(v)
  BY <1>3
<1> QED
  BY <1>1, <1>4 DEF Alike

\* Where an approximation agrees with all deeper ones it can stand for them.
LEMMA Solved ==
  ASSUME NEW which
  PROVE  \E f : f = [v \in Payloads |-> Made(which, v, Items(f, v))]
<1> DEFINE g == [v \in Payloads |-> Approximation(which, Depth[v] + 1)[v]]
<1>1. ASSUME NEW v \in Payloads PROVE g[v] = Made(which, v, Items(g, v))
  <2> DEFINE f == Approximation(which, Depth[v] + 1)
  <2>1. Depth[v] \in Nat /\ Depth[v] + 1 \in Nat /\ Depth[v] < Depth[v] + 1
    BY ItemsOf
  <2>2. f[v] = Made(which, v, Items(f, v))
    BY <2>1, Agree DEF Solves
  <2>3. \A i \in DOMAIN v.items : g[v.items[i]] = f[v.items[i]]
    <3> TAKE i \in DOMAIN v.items
    <3> DEFINE w == v.items[i]
    <3>1. w \in Payloads /\ Depth[w] \in Nat /\ Depth[w] < Depth[v]
      BY ItemsOf
    <3> HIDE DEF w
    <3>2. Depth[w] + 1 \in Nat /\ Depth[w] < Depth[w] + 1 /\ Depth[w] < Depth[v] + 1
      BY <2>1, <3>1
    <3>3. Approximation(which, Depth[w] + 1)[w] = Approximation(which, Depth[v] + 1)[w]
      BY <2>1, <3>1, <3>2, Agree
    <3> QED
      BY <3>1, <3>3 DEF w
  <2>4. g[v] = f[v]
    OBVIOUS
  <2> HIDE DEF f, g
  <2>5. Items(g, v) = Items(f, v)
    BY <2>3 DEF Items
  <2> QED
    BY <2>2, <2>4, <2>5
<1>2. g = [v \in Payloads |-> g[v]]
  OBVIOUS
<1> HIDE DEF g
<1>3. g = [v \in Payloads |-> Made(which, v, Items(g, v))]
  BY <1>1, <1>2, Zenon
<1> QED
  BY <1>3

\* What a payload is written as and what it says, by what its items are
\* written as and say.
LEMMA PayloadIs ==
  ASSUME NEW v \in Payloads
  PROVE  Payload[v] = Unnamed(v, Items(Payload, v))
<1>1. \E f : f = [w \in Payloads |-> Unnamed(w, [i \in DOMAIN w.items |-> f[w.items[i]]])]
  <2>1. PICK f : f = [w \in Payloads |-> Made("written", w, Items(f, w))]
    BY Solved
  <2>2. f = [w \in Payloads |-> Unnamed(w, [i \in DOMAIN w.items |-> f[w.items[i]]])]
    BY <2>1 DEF Made, Items
  <2> QED
    BY <2>2
<1>2. Payload = [w \in Payloads |-> Unnamed(w, [i \in DOMAIN w.items |-> Payload[w.items[i]]])]
  BY <1>1, Zenon DEF Payload
<1> QED
  BY <1>2, Zenon DEF Items

\* What a document means is said of its items' meanings.
LEMMA MeaningIs ==
  ASSUME NEW v \in Payloads
  PROVE  Meaning[v] = Says(v, Items(Meaning, v))
<1>1. \E f : f = [w \in Payloads |-> Says(w, [i \in DOMAIN w.items |-> f[w.items[i]]])]
  <2>1. PICK f : f = [w \in Payloads |-> Made("said", w, Items(f, w))]
    BY Solved
  <2>2. f = [w \in Payloads |-> Says(w, [i \in DOMAIN w.items |-> f[w.items[i]]])]
    BY <2>1 DEF Made, Items
  <2> QED
    BY <2>2
<1>2. Meaning = [w \in Payloads |-> Says(w, [i \in DOMAIN w.items |-> Meaning[w.items[i]]])]
  BY <1>1, Zenon DEF Meaning
<1> QED
  BY <1>2, Zenon DEF Items

\* How long the strings of a payload are is its own matter and its items'.
LEMMA StringsIs ==
  ASSUME NEW v \in Payloads
  PROVE  Strings[v] = Lengths(v, Items(Strings, v))
<1>1. \E f : f = [w \in Payloads |-> Lengths(w, [i \in DOMAIN w.items |-> f[w.items[i]]])]
  <2>1. PICK f : f = [w \in Payloads |-> Made("sizes", w, Items(f, w))]
    BY Solved
  <2>2. f = [w \in Payloads |-> Lengths(w, [i \in DOMAIN w.items |-> f[w.items[i]]])]
    BY <2>1 DEF Made, Items
  <2> QED
    BY <2>2
<1>2. Strings = [w \in Payloads |-> Lengths(w, [i \in DOMAIN w.items |-> Strings[w.items[i]]])]
  BY <1>1, Zenon DEF Strings
<1> QED
  BY <1>2, Zenon DEF Items

\* The strings of a payload: its items', its own if it is one, its names.
LEMMA StringsOf ==
  ASSUME NEW v \in Payloads
  PROVE  /\ \A i \in DOMAIN v.items : Strings[v.items[i]] \subseteq Strings[v]
         /\ v.type = TEXT => Len(v.bytes) \in Strings[v]
         /\ v.type = COMPOUND => \A i \in DOMAIN v.names : Len(v.names[i]) \in Strings[v]
         /\ \A n \in Strings[v] :
              \/ \E i \in DOMAIN v.items : n \in Strings[v.items[i]]
              \/ v.type = TEXT /\ n = Len(v.bytes)
              \/ v.type = COMPOUND /\ \E i \in DOMAIN v.names : n = Len(v.names[i])
<1> DEFINE own == IF v.type = TEXT THEN {Len(v.bytes)}
                  ELSE IF v.type = COMPOUND THEN {Len(name) : name \in Range(v.names)}
                  ELSE {}
           parts == Items(Strings, v)
<1>1. Strings[v] = (UNION Range(parts)) \cup own
  BY StringsIs DEF Lengths
<1>2. Range(parts) = {Strings[v.items[i]] : i \in DOMAIN v.items}
  BY DEF Range, Items
<1>3. UNION Range(parts) = {n \in Strings[v] : \E i \in DOMAIN v.items : n \in Strings[v.items[i]]}
  <2> HIDE DEF parts, own
  <2> QED
    BY <1>1, <1>2
<1>4. Range(v.names) = {v.names[i] : i \in DOMAIN v.names}
  BY DEF Range
<1>5. v.type = TEXT => v.type # COMPOUND
  BY DEF TEXT, COMPOUND
<1>6. \A i \in DOMAIN v.items : Strings[v.items[i]] \subseteq Strings[v]
  <2> HIDE DEF parts, own
  <2> QED
    BY <1>1, <1>2
<1>a. PICK all, own1, these : all = Strings[v] /\ own1 = own /\ these = UNION Range(parts)
  OBVIOUS
<1>b. all = these \cup own1 /\ \A n \in these : \E i \in DOMAIN v.items : n \in Strings[v.items[i]]
  <2> HIDE DEF parts, own
  <2> QED
    BY <1>1, <1>3, <1>a, Zenon
<1>7. own \subseteq Strings[v]
  <2> HIDE DEF parts, own
  <2> QED
    BY <1>a, <1>b, Zenon
<1>8. \A n \in Strings[v] : n \in own \/ \E i \in DOMAIN v.items : n \in Strings[v.items[i]]
  <2> HIDE DEF parts, own
  <2> QED
    BY <1>a, <1>b, Zenon
<1>9. v.type = TEXT => own = {Len(v.bytes)}
  OBVIOUS
<1>10. v.type = COMPOUND => own = {Len(v.names[i]) : i \in DOMAIN v.names}
  BY <1>4, <1>5
<1>11. v.type # TEXT /\ v.type # COMPOUND => own = {}
  OBVIOUS
<1> HIDE DEF own
<1> QED
  BY <1>6, <1>7, <1>8, <1>9, <1>10, <1>11

-----------------------------------------------------------------------------
(* Bytes that are in the stream.                                           *)

\* The bytes b are at p in d.
At(d, p, b) ==
  /\ p + Len(b) <= Len(d)
  /\ \A k \in 1..Len(b) : d[p + k] = b[k]

\* What is in the stream in one piece is there in two.
LEMMA AtConcat ==
  ASSUME NEW d \in Seq(Byte), NEW p \in Nat, NEW a \in Seq(Byte), NEW b \in Seq(Byte), At(d, p, a \o b)
  PROVE  At(d, p, a) /\ At(d, p + Len(a), b)
<1> DEFINE m == Len(a)
           n == Len(b)
           c == a \o b
           l == Len(d)
<1>1. /\ m \in Nat /\ n \in Nat /\ l \in Nat /\ Len(c) = m + n
      /\ \A k \in 1..(m + n) : c[k] = IF k <= m THEN a[k] ELSE b[k - m]
  BY ConcatProperties, LenProperties
<1>2. p + Len(c) <= l /\ \A k \in 1..Len(c) : d[p + k] = c[k]
  BY DEF At
<1> HIDE DEF m, n, c, l
<1>3. ASSUME NEW k \in 1..m PROVE d[p + k] = a[k]
  <2>1. k \in 1..(m + n) /\ k <= m
    BY <1>1
  <2> QED
    BY <1>1, <1>2, <2>1
<1>4. ASSUME NEW k \in 1..n PROVE d[p + m + k] = b[k]
  <2> DEFINE j == m + k
  <2>1. j \in 1..(m + n) /\ ~(j <= m) /\ j - m = k /\ p + j = p + m + k
    BY <1>1
  <2> HIDE DEF j
  <2>2. c[j] = b[k] /\ d[p + j] = c[j]
    BY <1>1, <1>2, <2>1
  <2> QED
    BY <2>1, <2>2
<1> QED
  BY <1>1, <1>2, <1>3, <1>4 DEF At, m, n, l

\* And in as many as were joined.
LEMMA AtFlatten ==
  ASSUME NEW d \in Seq(Byte), NEW p \in Nat, NEW parts \in Seq(Seq(Byte)),
         At(d, p, FlattenSeq(parts)), NEW i \in 1..Len(parts)
  PROVE  At(d, p + Offset(parts)[i - 1], parts[i])
<1> DEFINE off == Offset(parts)
           s == FlattenSeq(parts)
           n == Len(parts)
<1>1. /\ off \in [0..n -> Nat] /\ off[n] = Len(s)
      /\ \A j \in 1..n : /\ off[j] = off[j - 1] + Len(parts[j])
                         /\ \A k \in 1..Len(parts[j]) : s[off[j - 1] + k] = parts[j][k]
  BY Offsets DEF Joins
<1> SUFFICES At(d, p + off[i - 1], parts[i])
  OBVIOUS
<1>2. p + Len(s) <= Len(d) /\ \A k \in 1..Len(s) : d[p + k] = s[k]
  BY DEF At
<1>3. n \in Nat /\ Len(s) \in Nat /\ Len(d) \in Nat /\ \A j \in 1..n : Len(parts[j]) \in Nat
  <2>1. \A j \in 1..n : parts[j] \in Seq(Byte)
    OBVIOUS
  <2> QED
    BY <1>1, <2>1, LenProperties
<1> HIDE DEF off, s, n
<1>4. \A j \in 1..n : off[j] <= Len(s) /\ off[j - 1] \in Nat /\ off[j] \in Nat
  <2> DEFINE G == {j \in 1..n : off[n - j + 1] <= Len(s)}
  <2>1. ASSUME NEW j \in 1..n, j = 1 \/ j - 1 \in G PROVE j \in G
    <3>1. CASE j = 1
      BY <1>1, <1>3, <3>1
    <3>2. CASE j # 1
      <4> DEFINE h == n - j + 1
      <4>1. h \in 1..n /\ h + 1 \in 1..n /\ n - (j - 1) + 1 = h + 1 /\ h + 1 - 1 = h
        BY <1>3, <3>2
      <4>2. off[h + 1] <= Len(s)
        BY <2>1, <3>2, <4>1
      <4> HIDE DEF h
      <4>3. off[h + 1] = off[h] + Len(parts[h + 1])
        BY <1>1, <4>1
      <4>4. off[h] <= Len(s)
        <5>1. off[h] \in Nat /\ Len(parts[h + 1]) \in Nat
          BY <1>1, <1>3, <4>1
        <5> QED
          BY <1>3, <4>2, <4>3, <5>1
      <4> QED
        BY <4>4 DEF h
    <3> QED
      BY <3>1, <3>2
  <2>2. G \in SUBSET (1..n)
    OBVIOUS
  <2> HIDE DEF G
  <2>3. G = 1..n
    BY <1>3, <2>1, <2>2, IndexInduction
  <2> TAKE j \in 1..n
  <2>4. n - j + 1 \in G /\ n - (n - j + 1) + 1 = j
    BY <1>3, <2>3
  <2>5. off[j] <= Len(s)
    BY <2>4 DEF G
  <2> QED
    BY <1>1, <1>3, <2>5
<1> DEFINE o == off[i - 1]
           l == Len(parts[i])
<1>5. o \in Nat /\ l \in Nat /\ o + l <= Len(s) /\ \A k \in 1..l : s[o + k] = parts[i][k]
  BY <1>1, <1>3, <1>4 DEF n
<1> HIDE DEF o, l
<1>6. ASSUME NEW k \in 1..l PROVE d[p + o + k] = parts[i][k]
  <2> DEFINE j == o + k
  <2>1. j \in 1..Len(s) /\ p + j = p + o + k
    BY <1>3, <1>5
  <2> HIDE DEF j
  <2>2. d[p + j] = s[j]
    BY <1>2, <2>1
  <2> QED
    BY <1>5, <2>1, <2>2 DEF j
<1> QED
  BY <1>2, <1>3, <1>5, <1>6 DEF At, o, l

-----------------------------------------------------------------------------
(* Sizes and strings.                                                      *)

\* Sizes are bytes that read as the sizes they are of.
LEMMA Size16Bytes ==
  ASSUME NEW n \in Nat
  PROVE  Size16(n) \in Seq(Byte) /\ Len(Size16(n)) = 2
<1>1. (n \div 256) % 256 \in 0..255 /\ n % 256 \in 0..255
  OBVIOUS
<1> QED
  BY <1>1 DEF Size16, Byte

\* Two and two bytes are four.
LEMMA Four ==
  ASSUME NEW a, NEW b, NEW c, NEW e
  PROVE  <<a, b>> \o <<c, e>> = <<a, b, c, e>>
<1> DEFINE S == {a, b, c, e}
           s == <<a, b>>
           t == <<c, e>>
           u == <<a, b, c, e>>
<1>1. s \in Seq(S) /\ Len(s) = 2 /\ s[1] = a /\ s[2] = b
  OBVIOUS
<1>2. t \in Seq(S) /\ Len(t) = 2 /\ t[1] = c /\ t[2] = e
  OBVIOUS
<1>3. u \in Seq(S) /\ Len(u) = 4 /\ u[1] = a /\ u[2] = b /\ u[3] = c /\ u[4] = e
  OBVIOUS
<1> HIDE DEF S, s, t, u
<1>4. /\ s \o t \in Seq(S) /\ Len(s \o t) = Len(s) + Len(t)
      /\ \A i \in 1..(Len(s) + Len(t)) :
           (s \o t)[i] = IF i <= Len(s) THEN s[i] ELSE t[i - Len(s)]
  BY <1>1, <1>2, ConcatProperties, Zenon
<1> DEFINE w == s \o t
<1>5. w = s \o t
  OBVIOUS
<1> HIDE DEF w
<1>6. /\ w \in Seq(S) /\ Len(w) = 4
      /\ \A i \in 1..4 : w[i] = IF i <= 2 THEN s[i] ELSE t[i - 2]
  BY <1>1, <1>2, <1>4, <1>5
<1>7. \A i \in 1..4 : w[i] = u[i]
  BY <1>1, <1>2, <1>3, <1>6
<1>8. Len(w) = Len(u) /\ \A i \in 1..Len(w) : w[i] = u[i]
  BY <1>3, <1>6, <1>7
<1>9. w = u
  BY <1>3, <1>6, <1>8, SeqEqual, Zenon
<1> QED
  BY <1>5, <1>9 DEF s, t, u

\* Sequences of bytes one behind the other are one.
LEMMA Joint ==
  ASSUME NEW s \in Seq(Byte), NEW t \in Seq(Byte)
  PROVE  s \o t \in Seq(Byte) /\ Len(s \o t) = Len(s) + Len(t)
  BY ConcatProperties, Zenon

\* The char of an int.
LEMMA Remainder ==
  ASSUME NEW a \in Int
  PROVE  a % 256 \in Byte
<1>1. a % 256 \in 0..255
  BY SMT
<1> QED
  BY <1>1 DEF Byte

\* A byte is a sequence of one.
LEMMA Single ==
  ASSUME NEW x \in Byte
  PROVE  <<x>> \in Seq(Byte) /\ Len(<<x>>) = 1 /\ <<x>>[1] = x
  OBVIOUS

\* The four bytes of a size.
LEMMA Size32Is ==
  ASSUME NEW n \in Nat
  PROVE  Size32(n) = <<n \div 16777216, (n \div 65536) % 256, (n \div 256) % 256, n % 256>>
<1>1. \A a, b, c, e : <<a, b>> \o <<c, e>> = <<a, b, c, e>>
  BY Four, Zenon
<1> DEFINE a == n \div 16777216
           b == (n \div 65536) % 256
           c == (n \div 256) % 256
           e == n % 256
<1>2. Size32(n) = <<a, b>> \o <<c, e>>
  BY SMT DEF Size32, Size16
<1> HIDE DEF a, b, c, e
<1>3. Size32(n) = <<a, b, c, e>>
  BY <1>1, <1>2, Zenon
<1> QED
  BY <1>3, SMT DEF a, b, c, e

\* They are bytes, as an Int is not negative here.
LEMMA Size32Bytes ==
  ASSUME NEW n \in Nat, n <= MaxInt
  PROVE  Size32(n) \in Seq(Byte) /\ Len(Size32(n)) = 4
<1> DEFINE a == n \div 16777216
           b == (n \div 65536) % 256
           c == (n \div 256) % 256
           e == n % 256
<1>1. a \in 0..255 /\ b \in 0..255
  BY SMT DEF MaxInt
<1>2. c \in 0..255 /\ e \in 0..255
  BY SMT
<1>3. Size32(n) = <<a, b, c, e>>
  BY Size32Is, SMT
<1> HIDE DEF a, b, c, e
<1> QED
  BY <1>1, <1>2, <1>3 DEF Byte

\* Quotients and remainders of a size put together are the size.
LEMMA Assembled ==
  ASSUME NEW n \in Nat, n <= MaxInt
  PROVE  /\ 16777216 * (n \div 16777216) + 65536 * ((n \div 65536) % 256)
              + 256 * ((n \div 256) % 256) + (n % 256) = n
         /\ n \div 16777216 < 128
         /\ n <= MaxShort => (n \div 256) % 256 < 128 /\ 256 * ((n \div 256) % 256) + (n % 256) = n
<1> DEFINE a == n \div 256
           b == a \div 256
           c == b \div 256
<1>1. a \in Nat /\ b \in Nat /\ c \in Nat /\ n = 256 * a + (n % 256) /\ a = 256 * b + (a % 256) /\ b = 256 * c + (b % 256)
  BY SMT
<1>2. n \div 65536 = b /\ n \div 16777216 = c
  BY SMT
<1>3. n % 256 \in 0..255 /\ a % 256 \in 0..255 /\ b % 256 \in 0..255
  BY <1>1, SMT
<1>4. c < 128 /\ (n <= MaxShort => a < 128)
  BY <1>1, SMT DEF MaxInt, MaxShort
<1> HIDE DEF a, b, c
<1>5. 16777216 * c + 65536 * (b % 256) + 256 * (a % 256) + (n % 256) = n
  BY <1>1, <1>3, SMT
<1>6. n <= MaxShort => a % 256 = a
  BY <1>1, <1>3, <1>4, SMT
<1> QED
  BY <1>1, <1>2, <1>3, <1>4, <1>5, <1>6, SMT DEF a

\* Reading the bytes that are there yields them.
LEMMA FilledAt ==
  ASSUME NEW d \in Seq(Byte), NEW p \in Nat, NEW b \in Seq(Byte), At(d, p, b), NEW pad
  PROVE  Filled(d, p, Len(b), pad) = b
<1>1. /\ Len(b) \in Nat /\ Len(d) \in Nat /\ b = [k \in 1..Len(b) |-> b[k]]
  BY LenProperties
<1>2. \A k \in 1..Len(b) : p + k <= Len(d) /\ d[p + k] = b[k]
  BY <1>1 DEF At
<1> DEFINE n == Len(b)
<1> HIDE DEF n
<1>3. [k \in 1..n |-> IF p + k <= Len(d) THEN d[p + k] ELSE pad] = [k \in 1..n |-> b[k]]
  BY <1>2 DEF n
<1> QED
  BY <1>1, <1>3 DEF Filled, n

\* A size on two bytes is read as it was written.
LEMMA ShortAt ==
  ASSUME NEW d \in Seq(Byte), NEW p \in Nat, NEW n \in Nat, n <= MaxShort, At(d, p, Size16(n))
  PROVE  parseShort(d, p) = n
<1>1. Filled(d, p, 2, 0) = Size16(n)
  <2>1. Size16(n) \in Seq(Byte) /\ Len(Size16(n)) = 2
    BY Size16Bytes
  <2> DEFINE b == Size16(n)
  <2>2. At(d, p, b) /\ b \in Seq(Byte)
    BY <2>1
  <2> HIDE DEF b
  <2>3. \A pad : Filled(d, p, Len(b), pad) = b
    BY <2>2, FilledAt
  <2> QED
    BY <2>1, <2>3, Zenon DEF b
<1>2. /\ parseShort(d, p) = 256 * Signed((n \div 256) % 256) + (n % 256)
  BY <1>1 DEF parseShort, Size16
<1>3. n <= MaxInt
  BY DEF MaxInt, MaxShort
<1>4. Signed((n \div 256) % 256) = (n \div 256) % 256
  BY <1>3, Assembled DEF Signed
<1> QED
  BY <1>2, <1>3, <1>4, Assembled

\* A size on four bytes is read as it was written.
LEMMA IntAt ==
  ASSUME NEW d \in Seq(Byte), NEW p \in Nat, NEW n \in Nat, n <= MaxInt, At(d, p, Size32(n))
  PROVE  parseInt(d, p) = n
<1> DEFINE b1 == n \div 16777216
           b2 == (n \div 65536) % 256
           b3 == (n \div 256) % 256
           b4 == n % 256
<1>1. Filled(d, p, 4, 0) = Size32(n)
  <2>1. Size32(n) \in Seq(Byte) /\ Len(Size32(n)) = 4
    BY Size32Bytes
  <2> DEFINE b == Size32(n)
  <2>2. At(d, p, b) /\ b \in Seq(Byte)
    BY <2>1
  <2> HIDE DEF b
  <2>3. \A pad : Filled(d, p, Len(b), pad) = b
    BY <2>2, FilledAt
  <2> QED
    BY <2>1, <2>3, Zenon DEF b
<1>2. Size32(n) = <<b1, b2, b3, b4>>
  BY Size32Is, SMT
<1>3. 16777216 * b1 + 65536 * b2 + 256 * b3 + b4 = n /\ b1 < 128
  BY Assembled, SMT
<1> HIDE DEF b1, b2, b3, b4
<1>4. parseInt(d, p) = 16777216 * Signed(b1) + 65536 * b2 + 256 * b3 + b4
  BY <1>1, <1>2, SMT DEF parseInt
<1>5. Signed(b1) = b1
  BY <1>3 DEF Signed
<1> QED
  BY <1>3, <1>4, <1>5

\* A string is written on two bytes and its own.
LEMMA StringBytes ==
  ASSUME NEW s \in Seq(Byte)
  PROVE  /\ serializeString(s) \in Seq(Byte) /\ Len(serializeString(s)) = 2 + Len(s)
         /\ Len(s) \in Nat
         /\ Size16(Len(s)) \in Seq(Byte) /\ Len(Size16(Len(s))) = 2
<1>1. s \in Seq(Byte) /\ Len(s) \in Nat
  BY LenProperties
<1>2. Size16(Len(s)) \in Seq(Byte) /\ Len(Size16(Len(s))) = 2
  BY <1>1, Size16Bytes
<1> DEFINE a == Size16(Len(s))
<1> HIDE DEF a
<1>3. a \o s \in Seq(Byte) /\ Len(a \o s) = Len(a) + Len(s)
  BY <1>1, <1>2, Joint, Zenon DEF a
<1>4. serializeString(s) = a \o s /\ Len(a) = 2
  BY <1>2, Zenon DEF serializeString, a
<1>5. Len(serializeString(s)) = 2 + Len(s)
  BY <1>1, <1>3, <1>4
<1> QED
  BY <1>1, <1>2, <1>3, <1>4, <1>5, Zenon

\* A string is read as it was written, if a Short can say how long it is.
LEMMA StringAt ==
  ASSUME NEW d \in Seq(Byte), NEW p \in Nat, NEW s \in Seq(Byte), Len(s) <= MaxShort,
         At(d, p, serializeString(s))
  PROVE  parseString(d, p) = [ok |-> TRUE, bytes |-> s, after |-> p + 2 + Len(s)]
<1>1. At(d, p, Size16(Len(s))) /\ At(d, p + 2, s)
  BY StringBytes, AtConcat DEF serializeString
<1>2. parseShort(d, p) = Len(s)
  BY <1>1, StringBytes, ShortAt
<1>3. Filled(d, p + 2, Len(s), 32) = s
  <2>1. p + 2 \in Nat
    OBVIOUS
  <2> QED
    BY <1>1, <2>1, StringBytes, FilledAt
<1>4. ~(parseShort(d, p) < 0)
  <2>1. Len(s) \in Nat
    BY StringBytes
  <2> QED
    BY <1>2, <2>1
<1> QED
  BY <1>2, <1>3, <1>4, Zenon DEF parseString, Yields

\* The size of a longer one is read as a negative number.
LEMMA LongStringAt ==
  ASSUME NEW d \in Seq(Byte), NEW p \in Nat, NEW s \in Seq(Byte), ~(Len(s) <= MaxShort),
         Len(s) <= MaxUnsignedShort, At(d, p, serializeString(s))
  PROVE  ~parseString(d, p).ok
<1> DEFINE n == Len(s)
           q == n \div 256
           r == n % 256
<1>1. At(d, p, Size16(n)) /\ n \in Nat /\ Size16(n) \in Seq(Byte) /\ Len(Size16(n)) = 2
  BY StringBytes, AtConcat DEF serializeString
<1>2. Filled(d, p, 2, 0) = Size16(n)
  <2> DEFINE b == Size16(n)
  <2>1. At(d, p, b) /\ b \in Seq(Byte)
    BY <1>1
  <2> HIDE DEF b
  <2>2. \A pad : Filled(d, p, Len(b), pad) = b
    BY <2>1, FilledAt
  <2> QED
    BY <1>1, <2>2, Zenon DEF b
<1> HIDE DEF n
<1>3. q \in 128..255 /\ r \in 0..255
  <2>1. n > 32767 /\ n <= 65535
    BY <1>1 DEF MaxShort, MaxUnsignedShort, n
  <2> QED
    BY <1>1, <2>1, SMT
<1>4. Size16(n) = <<q % 256, r>>
  BY DEF Size16
<1> HIDE DEF q, r
<1>5. q % 256 = q
  BY <1>3
<1>6. parseShort(d, p) = 256 * Signed(q) + r
  BY <1>2, <1>4, <1>5 DEF parseShort
<1>7. Signed(q) = q - 256
  BY <1>3 DEF Signed
<1>8. parseShort(d, p) < 0
  <2>1. 256 * (q - 256) + r < 0
    BY <1>3
  <2> QED
    BY <1>6, <1>7, <2>1
<1> QED
  BY <1>8 DEF parseString, Throws

-----------------------------------------------------------------------------
(* Tags.                                                                   *)

\* Types of tags, as numbers.
LEMMA Types ==
  /\ Scalars \cup {LIST, COMPOUND} = 1..12
  /\ Numbers = 1..6 /\ Arrays = {7, 11, 12} /\ TEXT = 8 /\ LIST = 9 /\ COMPOUND = 10
  BY DEF Scalars, Numbers, Arrays, ElementWidth, TEXT, LIST, COMPOUND

\* An array is written on four bytes and its own, and its size counts elements.
LEMMA ArrayBytes ==
  ASSUME NEW v \in Payloads, v.type \in Arrays
  PROVE  /\ serializeArray(v.type, v.bytes) \in Seq(Byte)
         /\ Len(serializeArray(v.type, v.bytes)) = 4 + Len(v.bytes)
         /\ v.bytes \in Seq(Byte) /\ Len(v.bytes) \in Nat
         /\ \E n \in 0..MaxArray :
              /\ n <= MaxInt /\ Len(v.bytes) = n * ElementWidth[v.type]
              /\ serializeArray(v.type, v.bytes) = Size32(n) \o v.bytes
<1>1. Sound(v) /\ v.type \in Scalars
  BY ItemsOf, Types DEF Scalars
<1>2. v.bytes \in Seq(Byte) /\ Len(v.bytes) \in Nat
  BY <1>1, LenProperties DEF Sound
<1>3. PICK n \in 0..MaxArray : n <= MaxInt /\ Len(v.bytes) = n * ElementWidth[v.type]
  BY <1>1 DEF Sound
<1>4. n \in Nat
  BY MaxArrayAssumption
<1>5. ElementWidth[v.type] \in {1, 4, 8}
  BY DEF ElementWidth, Arrays
<1>6. Len(v.bytes) \div ElementWidth[v.type] = n
  BY <1>3, <1>4, <1>5
<1>7. serializeArray(v.type, v.bytes) = Size32(n) \o v.bytes
  BY <1>6 DEF serializeArray
<1>8. Size32(n) \in Seq(Byte) /\ Len(Size32(n)) = 4
  BY <1>3, <1>4, Size32Bytes
<1>9. /\ Size32(n) \o v.bytes \in Seq(Byte)
      /\ Len(Size32(n) \o v.bytes) = Len(Size32(n)) + Len(v.bytes)
  BY <1>2, <1>8, Joint, Zenon
<1>10. Len(serializeArray(v.type, v.bytes)) = 4 + Len(v.bytes)
  BY <1>7, <1>8, <1>9, Zenon
<1> QED
  BY <1>2, <1>3, <1>7, <1>9, <1>10, Zenon

\* A string is written as such.
LEMMA TextAt ==
  ASSUME NEW d, NEW p, NEW v \in Payloads, v.type = TEXT, NEW parts
  PROVE  /\ v.bytes \in Seq(Byte) /\ Unnamed(v, parts) = serializeString(v.bytes)
         /\ parseScalar(d, p, v.type) = parseString(d, p)
<1>1. v.bytes \in Seq(Byte) /\ v.type \notin Numbers
  <2>1. Sound(v) /\ v.type \in Scalars
    BY ItemsOf DEF Scalars
  <2> QED
    BY <2>1, Types DEF Sound
<1> QED
  BY <1>1 DEF Unnamed, parseScalar

\* A tag without tags in it is read as what was written, to its last byte, ...
LEMMA ScalarAt ==
  ASSUME NEW d \in Seq(Byte), NEW p \in Nat, NEW v \in Payloads, v.type \in Scalars,
         v.type = TEXT => Len(v.bytes) <= MaxShort,
         NEW parts, At(d, p, Unnamed(v, parts))
  PROVE  parseScalar(d, p, v.type) =
           [ok |-> TRUE, bytes |-> v.bytes, after |-> p + Len(Unnamed(v, parts))]
<1>1. Sound(v) /\ v.bytes \in Seq(Byte)
  BY ItemsOf DEF Sound
<1>2. CASE v.type \in Numbers
  <2>1. Unnamed(v, parts) = v.bytes /\ Len(v.bytes) = Width[v.type]
    BY <1>1, <1>2 DEF Unnamed, Sound
  <2>2. Filled(d, p, Width[v.type], 0) = v.bytes
    BY <1>1, <2>1, FilledAt
  <2> QED
    BY <1>2, <2>1, <2>2 DEF parseScalar, Yields
<1>3. CASE v.type = TEXT
  <2>1. Unnamed(v, parts) = serializeString(v.bytes) /\ v.bytes \in Seq(Byte)
    BY <1>3, TextAt
  <2>2. parseScalar(d, p, v.type) = parseString(d, p)
    BY <1>3, TextAt
  <2>3. parseString(d, p) = [ok |-> TRUE, bytes |-> v.bytes, after |-> p + 2 + Len(v.bytes)]
    BY <1>3, <2>1, StringAt
  <2>4. Len(serializeString(v.bytes)) = 2 + Len(v.bytes) /\ Len(v.bytes) \in Nat
    BY <2>1, StringBytes
  <2>5. p + Len(Unnamed(v, parts)) = p + 2 + Len(v.bytes)
    <3>1. Len(Unnamed(v, parts)) = 2 + Len(v.bytes)
      BY <2>1, <2>4, Zenon
    <3>2. \A m, n \in Nat : m = 2 + n => p + m = p + 2 + n
      OBVIOUS
    <3>3. 2 + Len(v.bytes) \in Nat
      BY <2>4
    <3> QED
      BY <2>4, <3>1, <3>2, <3>3, Zenon
  <2> QED
    BY <2>2, <2>3, <2>5
<1>4. CASE v.type \in Arrays
  <2>0. v.type \notin Numbers /\ v.type # TEXT
    BY <1>4, Types
  <2> DEFINE w == ElementWidth[v.type]
  <2>1. Unnamed(v, parts) = serializeArray(v.type, v.bytes)
    BY <1>4, <2>0 DEF Unnamed
  <2>2. PICK n \in 0..MaxArray :
              /\ n <= MaxInt /\ Len(v.bytes) = n * w
              /\ serializeArray(v.type, v.bytes) = Size32(n) \o v.bytes
    BY <1>4, ArrayBytes
  <2>3. n \in Nat /\ Size32(n) \in Seq(Byte) /\ Len(Size32(n)) = 4
    <3>1. n \in Nat
      BY MaxArrayAssumption
    <3> QED
      BY <2>2, <3>1, Size32Bytes
  <2>4. At(d, p, Size32(n)) /\ At(d, p + 4, v.bytes)
    BY <1>1, <2>1, <2>2, <2>3, AtConcat
  <2>5. parseInt(d, p) = n
    BY <2>2, <2>3, <2>4, IntAt
  <2>6. Filled(d, p + 4, n * w, 0) = v.bytes
    BY <1>1, <2>2, <2>4, FilledAt, p + 4 \in Nat
  <2>7. parseScalar(d, p, v.type) = parseArray(d, p, w)
    BY <2>0 DEF parseScalar
  <2> HIDE DEF w
  <2>8. parseArray(d, p, w) = [ok |-> TRUE, bytes |-> v.bytes, after |-> p + 4 + n * w]
    BY <2>5, <2>6 DEF parseArray, Yields
  <2>9. p + Len(Unnamed(v, parts)) = p + 4 + n * w
    <3>1. Len(Unnamed(v, parts)) = 4 + Len(v.bytes) /\ Len(v.bytes) \in Nat
      BY <1>4, <2>1, ArrayBytes
    <3> QED
      BY <2>2, <3>1
  <2> QED
    BY <2>7, <2>8, <2>9
<1> QED
  BY <1>2, <1>3, <1>4 DEF Scalars

\* ... unless it is too long a string, which is rejected.
LEMMA TextRead ==
  ASSUME NEW d \in Seq(Byte), NEW p \in Nat, NEW v \in Payloads, v.type = TEXT,
         Len(v.bytes) <= MaxUnsignedShort,
         NEW parts, At(d, p, Unnamed(v, parts)), parseScalar(d, p, v.type).ok
  PROVE  Len(v.bytes) <= MaxShort
<1>1. v.bytes \in Seq(Byte) /\ At(d, p, serializeString(v.bytes)) /\ parseString(d, p).ok
  BY TextAt
<1> QED
  BY <1>1, LongStringAt

\* A tag with its name.
LEMMA NamedBytes ==
  ASSUME NEW v \in Payloads, NEW name \in Seq(Byte), NEW b \in Seq(Byte)
  PROVE  /\ Named(v, name, b) \in Seq(Byte)
         /\ Len(Named(v, name, b)) = 3 + Len(name) + Len(b)
         /\ <<v.type>> \in Seq(Byte) /\ v.type \in 1..12
         /\ Len(name) \in Nat /\ Len(b) \in Nat
<1>1. v.type \in 1..12
  BY ItemsOf, Types DEF Sound
<1>2. <<v.type>> \in Seq(Byte) /\ Len(<<v.type>>) = 1
  BY <1>1 DEF Byte
<1>3. /\ serializeString(name) \in Seq(Byte)
      /\ Len(serializeString(name)) = 2 + Len(name) /\ Len(name) \in Nat
  BY StringBytes
<1> DEFINE a == <<v.type>> \o serializeString(name)
<1>4. a \in Seq(Byte) /\ Len(a) = 3 + Len(name)
  <2>1. a \in Seq(Byte) /\ Len(a) = Len(<<v.type>>) + Len(serializeString(name))
    BY <1>2, <1>3, Joint, Zenon
  <2> HIDE DEF a
  <2> QED
    BY <1>2, <1>3, <2>1
<1>5. Named(v, name, b) = a \o b
  BY DEF Named
<1> HIDE DEF a
<1>6. Len(b) \in Nat
  BY LenProperties
<1>7. a \o b \in Seq(Byte) /\ Len(a \o b) = Len(a) + Len(b)
  BY <1>4, Joint, Zenon
<1>8. Len(Named(v, name, b)) = 3 + Len(name) + Len(b)
  BY <1>4, <1>5, <1>7, Zenon
<1> QED
  BY <1>1, <1>2, <1>3, <1>5, <1>6, <1>7, <1>8, Zenon

\* The header of a tag is read as it was written, and its payload follows.
LEMMA NamedAt ==
  ASSUME NEW d \in Seq(Byte), NEW p \in Nat, NEW v \in Payloads, NEW name \in Seq(Byte),
         NEW b \in Seq(Byte), At(d, p, Named(v, name, b))
  PROVE  /\ p < Len(d) /\ parseTagType(d, p) = v.type
         /\ Len(name) <= MaxShort =>
              parseString(d, p + 1) = [ok |-> TRUE, bytes |-> name, after |-> p + 3 + Len(name)]
         /\ ~(Len(name) <= MaxShort) /\ Len(name) <= MaxUnsignedShort => ~parseString(d, p + 1).ok
         /\ At(d, p + 3 + Len(name), b)
<1> DEFINE h == <<v.type>>
           s == serializeString(name)
           a == h \o s
<1>1. /\ h \in Seq(Byte) /\ Len(h) = 1 /\ h[1] = v.type /\ v.type \in 1..12
      /\ Len(name) \in Nat
  BY NamedBytes
<1>2. s \in Seq(Byte) /\ Len(s) = 2 + Len(name)
  BY StringBytes
<1>3. Named(v, name, b) = a \o b
  BY DEF Named
<1> HIDE DEF h, s
<1>4. a \in Seq(Byte) /\ Len(a) = 3 + Len(name)
  <2>1. a \in Seq(Byte) /\ Len(a) = Len(h) + Len(s)
    BY <1>1, <1>2, Joint, Zenon
  <2> HIDE DEF a
  <2> QED
    BY <1>1, <1>2, <2>1
<1> HIDE DEF a
<1>5. At(d, p, a) /\ At(d, p + Len(a), b)
  BY <1>3, <1>4, AtConcat
<1>6. At(d, p, h) /\ At(d, p + 1, s)
  BY <1>1, <1>2, <1>5, AtConcat DEF a
<1>7. p < Len(d) /\ d[p + 1] = v.type
  <2>1. Len(d) \in Nat /\ 1 \in 1..1
    BY LenProperties
  <2> QED
    BY <1>1, <1>6, <2>1 DEF At
<1>8. parseTagType(d, p) = v.type
  BY <1>1, <1>7 DEF parseTagType
<1>9. /\ Len(name) <= MaxShort =>
           parseString(d, p + 1) = [ok |-> TRUE, bytes |-> name, after |-> p + 1 + 2 + Len(name)]
      /\ ~(Len(name) <= MaxShort) /\ Len(name) <= MaxUnsignedShort => ~parseString(d, p + 1).ok
  <2>1. p + 1 \in Nat /\ At(d, p + 1, serializeString(name))
    BY <1>6 DEF s
  <2> QED
    BY <2>1, StringAt, LongStringAt
<1>10. p + 1 + 2 + Len(name) = p + 3 + Len(name) /\ p + Len(a) = p + 3 + Len(name)
  BY <1>1, <1>4
<1> QED
  BY <1>5, <1>7, <1>8, <1>9, <1>10

-----------------------------------------------------------------------------
(* Lists and compounds.                                                    *)

\* The items of a list or of a compound as they are written, one after another.
Written(v, parts) ==
  IF v.type = LIST THEN parts
  ELSE [i \in DOMAIN v.items |-> Named(v.items[i], v.names[i], parts[i])]
Parts(v) == Written(v, Items(Payload, v))

\* Where the next item begins when k of them were read.
Lead(v) == IF v.type = LIST THEN 5 ELSE 0
Begin(v, k) == Lead(v) + Offset(Parts(v))[k]

\* What the items are written as are sequences of bytes, one for each.
LEMMA WrittenBytes ==
  ASSUME NEW v \in Payloads, v.type \in {LIST, COMPOUND},
         NEW parts, parts = [i \in DOMAIN v.items |-> parts[i]],
         \A i \in DOMAIN v.items : parts[i] \in Seq(Byte)
  PROVE  /\ Written(v, parts) \in Seq(Seq(Byte)) /\ Len(Written(v, parts)) = Len(v.items)
         /\ FlattenSeq(Written(v, parts)) \in Seq(Byte)
         /\ Len(v.items) \in Nat /\ DOMAIN v.items = 1..Len(v.items)
<1>1. /\ Sound(v) /\ Len(v.items) \in Nat /\ DOMAIN v.items = 1..Len(v.items)
      /\ \A i \in 1..Len(v.items) : v.items[i] \in Payloads
  BY ItemsOf, LenProperties
<1> DEFINE n == Len(v.items)
           w == Written(v, parts)
<1> HIDE DEF n
<1>2. w = [i \in 1..n |-> w[i]] /\ \A i \in 1..n : w[i] \in Seq(Byte)
  <2>1. CASE v.type = LIST
    <3>1. w = parts
      BY <2>1 DEF Written
    <3> QED
      BY <1>1, <3>1 DEF n
  <2>2. CASE v.type # LIST
    <3>1. w = [i \in 1..n |-> Named(v.items[i], v.names[i], parts[i])]
      BY <1>1, <2>2 DEF Written, n
    <3>2. \A i \in 1..n : v.names[i] \in Seq(Byte)
      <4>1. v.names \in Seq(Seq(Byte)) /\ Len(v.names) = n
        BY <1>1, <2>2 DEF Sound, n
      <4> QED
        BY <4>1
    <3>3. \A i \in 1..n : Named(v.items[i], v.names[i], parts[i]) \in Seq(Byte)
      BY <1>1, <3>2, NamedBytes DEF n
    <3> HIDE DEF w
    <3>4. \A i \in 1..n : w[i] \in Seq(Byte)
      BY <3>1, <3>3
    <3> QED
      BY <3>1, <3>4
  <2> QED
    BY <2>1, <2>2
<1> HIDE DEF w
<1>3. w \in Seq(Seq(Byte)) /\ Len(w) = n
  <2> DEFINE B == Seq(Byte)
  <2>1. n \in Nat /\ \A i \in 1..n : w[i] \in B
    BY <1>1, <1>2 DEF n
  <2> HIDE DEF B
  <2>2. w = [i \in 1..n |-> w[i]]
    BY <1>2
  <2>3. [i \in 1..n |-> w[i]] \in Seq(B) /\ Len([i \in 1..n |-> w[i]]) = n
    BY <2>1
  <2> QED
    BY <2>2, <2>3 DEF B
<1>4. FlattenSeq(w) \in Seq(Byte)
  BY <1>3, Offsets DEF Joins
<1> QED
  BY <1>1, <1>3, <1>4 DEF n, w

\* A payload is written as bytes if its items are.
LEMMA UnnamedBytes ==
  ASSUME NEW v \in Payloads, NEW parts, parts = [i \in DOMAIN v.items |-> parts[i]],
         \A i \in DOMAIN v.items : parts[i] \in Seq(Byte)
  PROVE  Unnamed(v, parts) \in Seq(Byte)
<1>1. Sound(v) /\ v.type \in 1..12
  BY ItemsOf, Types DEF Sound
<1>2. CASE v.type \in Numbers
  BY <1>1, <1>2 DEF Unnamed, Sound, Scalars
<1>3. CASE v.type = TEXT
  <2>1. Unnamed(v, parts) = serializeString(v.bytes) /\ v.bytes \in Seq(Byte)
    BY <1>3, TextAt
  <2> QED
    BY <2>1, StringBytes
<1>4. CASE v.type \in Arrays
  <2>1. Unnamed(v, parts) = serializeArray(v.type, v.bytes)
    BY <1>1, <1>4, Types DEF Unnamed
  <2> QED
    BY <1>4, <2>1, ArrayBytes
<1>5. CASE v.type = LIST
  <2>1. Unnamed(v, parts) = <<v.of % 256>> \o Size32(Len(v.items)) \o FlattenSeq(parts)
    BY <1>5, Types DEF Unnamed
  <2>2. FlattenSeq(parts) \in Seq(Byte) /\ Len(v.items) \in Nat
    BY <1>5, WrittenBytes DEF Written
  <2>3. <<v.of % 256>> \in Seq(Byte) /\ Len(v.items) <= MaxInt
    <3>1. v.of \in Int /\ Len(v.items) <= MaxInt
      BY <1>1, <1>5, Zenon DEF Sound
    <3>2. v.of % 256 \in Byte
      BY <3>1, Remainder, Zenon
    <3> QED
      BY <3>1, <3>2, Single, Zenon
  <2>4. Size32(Len(v.items)) \in Seq(Byte)
    BY <2>2, <2>3, Size32Bytes
  <2>5. <<v.of % 256>> \o Size32(Len(v.items)) \in Seq(Byte)
    BY <2>3, <2>4, Joint, Zenon
  <2> QED
    BY <2>1, <2>2, <2>5, Joint, Zenon
<1>6. CASE v.type = COMPOUND
  <2>1. Unnamed(v, parts) = FlattenSeq(Written(v, parts)) \o <<END>>
    BY <1>6, Types DEF Unnamed, Written
  <2>2. FlattenSeq(Written(v, parts)) \in Seq(Byte)
    BY <1>6, WrittenBytes
  <2>3. <<END>> \in Seq(Byte)
    BY DEF END, Byte
  <2> QED
    BY <2>1, <2>2, <2>3, ConcatProperties
<1> QED
  BY <1>1, <1>2, <1>3, <1>4, <1>5, <1>6, Types

\* Every payload is written as bytes.
LEMMA PayloadBytes ==
  ASSUME NEW v \in Payloads
  PROVE  /\ Payload[v] \in Seq(Byte) /\ Len(Payload[v]) \in Nat
         /\ Payload[v] = Unnamed(v, Items(Payload, v))
<1> DEFINE G == {w \in Payloads : Payload[w] \in Seq(Byte)}
<1>1. ASSUME NEW w \in Payloads, \A i \in DOMAIN w.items : w.items[i] \in G PROVE w \in G
  <2>1. /\ Items(Payload, w) = [i \in DOMAIN w.items |-> Items(Payload, w)[i]]
        /\ \A i \in DOMAIN w.items : Items(Payload, w)[i] \in Seq(Byte)
    BY <1>1 DEF Items
  <2>2. Unnamed(w, Items(Payload, w)) \in Seq(Byte)
    BY <2>1, UnnamedBytes
  <2> QED
    BY <2>2, PayloadIs
<1>2. G \in SUBSET Payloads
  OBVIOUS
<1> HIDE DEF G
<1>3. G = Payloads
  BY <1>1, <1>2, DepthInduction
<1>4. Payload[v] \in Seq(Byte)
  BY <1>3 DEF G
<1> QED
  BY <1>4, PayloadIs, LenProperties

\* Where everything is in the payload of a list or of a compound.
LEMMA Layout ==
  ASSUME NEW d \in Seq(Byte), NEW p \in Nat, NEW v \in Payloads, v.type \in {LIST, COMPOUND},
         At(d, p, Payload[v])
  PROVE  /\ Len(v.items) \in Nat /\ DOMAIN v.items = 1..Len(v.items)
         /\ Begin(v, 0) = Lead(v)
         /\ \A k \in 0..Len(v.items) : Begin(v, k) \in Nat
         /\ \A i \in DOMAIN v.items :
              /\ At(d, p + Begin(v, i - 1), Parts(v)[i])
              /\ Begin(v, i) = Begin(v, i - 1) + Len(Parts(v)[i])
         /\ v.type = COMPOUND =>
              /\ p + Begin(v, Len(v.items)) < Len(d)
              /\ d[p + Begin(v, Len(v.items)) + 1] = END
              /\ Len(Payload[v]) = Begin(v, Len(v.items)) + 1
         /\ v.type = LIST =>
              /\ p < Len(d) /\ d[p + 1] = v.of % 256
              /\ parseInt(d, p + 1) = Len(v.items)
              /\ Len(Payload[v]) = Begin(v, Len(v.items))
<1> DEFINE n == Len(v.items)
           w == Parts(v)
           f == FlattenSeq(w)
           off == Offset(w)
<1>1. /\ n \in Nat /\ DOMAIN v.items = 1..n
      /\ w \in Seq(Seq(Byte)) /\ Len(w) = n /\ f \in Seq(Byte)
  <2>1. /\ Items(Payload, v) = [i \in DOMAIN v.items |-> Items(Payload, v)[i]]
        /\ \A i \in DOMAIN v.items : Items(Payload, v)[i] \in Seq(Byte)
    <3>1. \A i \in DOMAIN v.items : Payload[v.items[i]] \in Seq(Byte)
      BY ItemsOf, PayloadBytes
    <3> QED
      BY <3>1 DEF Items
  <2> QED
    BY <2>1, WrittenBytes DEF Parts
<1>2. /\ off \in [0..n -> Nat] /\ off[0] = 0 /\ off[n] = Len(f)
      /\ \A i \in 1..n : off[i] = off[i - 1] + Len(w[i])
  BY <1>1, Offsets DEF Joins
<1>3. \A q \in Nat : At(d, q, f) => \A i \in 1..n : At(d, q + off[i - 1], w[i])
  BY <1>1, AtFlatten
<1>4. /\ \A k \in 0..n : Begin(v, k) = Lead(v) + off[k] /\ off[k] \in Nat
      /\ Lead(v) \in Nat
  BY <1>2 DEF Begin, Lead
<1>5. Sound(v) /\ Len(d) \in Nat /\ Len(f) \in Nat
  BY <1>1, ItemsOf, LenProperties
<1>6. Payload[v] = Unnamed(v, Items(Payload, v))
  BY PayloadBytes
<1>7. At(d, p + Lead(v), f) =>
        /\ Begin(v, 0) = Lead(v)
        /\ \A k \in 0..n : Begin(v, k) \in Nat
        /\ \A i \in 1..n :
              /\ At(d, p + Begin(v, i - 1), w[i])
              /\ Begin(v, i) = Begin(v, i - 1) + Len(w[i])
  <2> HIDE DEF n, w, f, off
  <2> HAVE At(d, p + Lead(v), f)
  <2>1. Begin(v, 0) = Lead(v)
    BY <1>1, <1>2, <1>4
  <2>2. \A k \in 0..n : Begin(v, k) \in Nat
    BY <1>4
  <2>3. ASSUME NEW i \in 1..n
        PROVE  /\ At(d, p + Begin(v, i - 1), w[i])
               /\ Begin(v, i) = Begin(v, i - 1) + Len(w[i])
    <3>1. i \in 0..n /\ i - 1 \in 0..n /\ Len(w[i]) \in Nat
      <4>1. w[i] \in Seq(Byte)
        BY <1>1
      <4> QED
        BY <1>1, <4>1, LenProperties
    <3>2. At(d, p + Lead(v) + off[i - 1], w[i])
      BY <1>3, <1>4
    <3>3. p + Lead(v) + off[i - 1] = p + Begin(v, i - 1)
      BY <1>4, <3>1
    <3> QED
      BY <1>2, <1>4, <3>1, <3>2, <3>3
  <2> QED
    BY <2>1, <2>2, <2>3
<1>8. CASE v.type = COMPOUND
  <2>0. Lead(v) = 0 /\ v.type # LIST
    BY <1>8, Types DEF Lead
  <2>1. Payload[v] = f \o <<END>>
    BY <1>6, <1>8, Types DEF Unnamed, Parts, Written
  <2>2. <<END>> \in Seq(Byte) /\ Len(<<END>>) = 1 /\ <<END>>[1] = END
    BY DEF END, Byte
  <2>3. At(d, p, f) /\ At(d, p + Len(f), <<END>>) /\ Len(Payload[v]) = Len(f) + 1
    <3> DEFINE e == <<END>>
    <3>1. e \in Seq(Byte) /\ Len(e) = 1 /\ Payload[v] = f \o e
      BY <2>1, <2>2
    <3> HIDE DEF e, f
    <3>2. At(d, p, f \o e)
      BY <3>1
    <3>3. At(d, p, f) /\ At(d, p + Len(f), e)
      BY <1>1, <3>1, <3>2, AtConcat, Zenon
    <3>4. Len(f \o e) = Len(f) + Len(e)
      BY <1>1, <3>1, Joint, Zenon
    <3> QED
      BY <3>1, <3>3, <3>4, Zenon DEF e
  <2>4. p + Len(f) < Len(d) /\ d[p + Len(f) + 1] = END
    <3> DEFINE l == Len(f)
    <3>1. p + l + 1 <= Len(d) /\ d[p + l + 1] = END
      <4> HIDE DEF l
      <4>1. 1 \in 1..1
        OBVIOUS
      <4> QED
        BY <2>2, <2>3, <4>1 DEF At, l
    <3> HIDE DEF l
    <3> QED
      BY <1>5, <3>1 DEF l
  <2>5. Begin(v, n) = Len(f)
    <3>1. n \in 0..n
      BY <1>1
    <3>2. Begin(v, n) = 0 + off[n] /\ off[n] = Len(f)
      BY <1>2, <1>4, <2>0, <3>1, Zenon
    <3>3. off[n] \in Nat
      BY <1>4, <3>1, Zenon
    <3> QED
      BY <3>2, <3>3
  <2>6. p + Lead(v) = p
    BY <2>0
  <2> HIDE DEF n, w, f, off
  <2> QED
    BY <1>1, <1>7, <2>0, <2>3, <2>4, <2>5, <2>6 DEF n, w
<1>9. CASE v.type = LIST
  <2> DEFINE h == <<v.of % 256>>
             s == Size32(n)
             a == h \o s
  <2>0. Lead(v) = 5 /\ v.type # COMPOUND
    BY <1>9, Types DEF Lead
  <2>1. Payload[v] = a \o f
    BY <1>6, <1>9, Types DEF Unnamed, Parts, Written
  <2>2. h \in Seq(Byte) /\ Len(h) = 1 /\ h[1] = v.of % 256 /\ n <= MaxInt
    <3>1. v.of \in Int /\ n <= MaxInt
      BY <1>5, <1>9, Zenon DEF Sound
    <3>2. v.of % 256 \in Byte
      BY <3>1, Remainder, Zenon
    <3> QED
      BY <3>1, <3>2, Single, Zenon
  <2>3. s \in Seq(Byte) /\ Len(s) = 4
    BY <1>1, <2>2, Size32Bytes
  <2> HIDE DEF h, s, f
  <2>4. a \in Seq(Byte) /\ Len(a) = 5
    <3>1. a \in Seq(Byte) /\ Len(a) = Len(h) + Len(s)
      BY <2>2, <2>3, Joint, Zenon
    <3> HIDE DEF a
    <3> QED
      BY <2>2, <2>3, <3>1
  <2> HIDE DEF a
  <2>5. At(d, p, a) /\ At(d, p + 5, f) /\ Len(Payload[v]) = 5 + Len(f)
    <3>1. At(d, p, a) /\ At(d, p + Len(a), f)
      BY <1>1, <2>1, <2>4, AtConcat, Zenon
    <3>2. Len(a \o f) = Len(a) + Len(f)
      BY <1>1, <2>4, Joint, Zenon
    <3> QED
      BY <2>1, <2>4, <3>1, <3>2, Zenon
  <2>6. At(d, p, h) /\ At(d, p + 1, s)
    BY <2>2, <2>3, <2>5, AtConcat DEF a
  <2>7. p < Len(d) /\ d[p + 1] = v.of % 256
    <3>1. 1 \in 1..1
      OBVIOUS
    <3> QED
      BY <1>5, <2>2, <2>6, <3>1 DEF At
  <2>8. parseInt(d, p + 1) = n
    BY <1>1, <2>2, <2>6, IntAt, p + 1 \in Nat DEF s
  <2>9. Begin(v, n) = 5 + Len(f)
    <3>1. n \in 0..n
      BY <1>1
    <3> QED
      BY <1>2, <1>4, <2>0, <3>1, Zenon
  <2>10. p + Lead(v) = p + 5
    BY <2>0
  <2> HIDE DEF n, w, off
  <2> QED
    BY <1>1, <1>7, <2>0, <2>5, <2>7, <2>8, <2>9, <2>10 DEF n, w
<1> QED
  BY <1>8, <1>9

-----------------------------------------------------------------------------
(* Activations and the places in a document that they have reached.        *)

\* The first place where a name is.
LEMMA FirstIs ==
  ASSUME NEW S, NEW names \in Seq(S), NEW k \in DOMAIN names
  PROVE  LET i == First(names, names[k])
         IN  /\ i \in DOMAIN names /\ names[i] = names[k] /\ i <= k
             /\ \A j \in DOMAIN names : names[j] = names[k] => i <= j
<1> DEFINE n == names[k]
           Is(i) == names[i] = n /\ \A j \in 1..(i - 1) : names[j] # n
           l == Len(names)
<1>1. l \in Nat /\ DOMAIN names = 1..l
  BY LenProperties
<1> HIDE DEF l
<1>2. \E i \in DOMAIN names : Is(i)
  <2> SUFFICES ASSUME \A i \in DOMAIN names : ~Is(i) PROVE FALSE
    OBVIOUS
  <2> DEFINE S2 == {m \in Nat : \A j \in 1..l : j <= m => names[j] # n}
  <2>1. 0 \in S2
    BY <1>1
  <2>2. ASSUME NEW m \in S2 PROVE m + 1 \in S2
    <3> SUFFICES ASSUME m + 1 \in 1..l PROVE names[m + 1] # n
      BY <1>1
    <3>1. \A j \in 1..(m + 1 - 1) : names[j] # n
      BY <1>1
    <3> QED
      BY <1>1, <3>1
  <2>3. S2 = Nat
    <3>1. S2 \in SUBSET Nat /\ \A m \in S2 : m + 1 \in S2
      BY <2>2
    <3> HIDE DEF S2
    <3> QED
      BY <2>1, <3>1, SetInduction
  <2>4. k \in S2 /\ k \in 1..l
    BY <1>1, <2>3
  <2> QED
    BY <1>1, <2>4
<1> DEFINE i == First(names, n)
<1>3. i \in DOMAIN names /\ Is(i)
  BY <1>2, Zenon DEF First
<1> HIDE DEF i
<1>4. \A j \in DOMAIN names : names[j] = n => i <= j
  <2> SUFFICES ASSUME NEW j \in DOMAIN names, names[j] = n, ~(i <= j) PROVE FALSE
    OBVIOUS
  <2>1. j \in 1..(i - 1)
    BY <1>1, <1>3
  <2> QED
    BY <1>3, <2>1
<1> QED
  BY <1>1, <1>3, <1>4 DEF i

\* What a compound has in its tree when the first k of its tags were read.
Tree(v, k) == [n \in {v.names[i] : i \in 1..k} |-> Meaning[v.items[First(v.names, n)]]]

\* The strings in an item, and its name, are as long as a Short can say.
Legible(v, i) ==
  /\ \A n \in Strings[v.items[i]] : n <= MaxShort
  /\ v.type = COMPOUND => Len(v.names[i]) <= MaxShort

\* An activation and a place: a payload, where it starts in the stream, and how
\* many of its items were read, which are what the activation holds.
Fits(f, a) ==
  /\ a.node \in Payloads /\ a.node.type = f.type
  /\ a.start \in Nat /\ a.done \in 0..Len(a.node.items)
  /\ At(data, a.start, Payload[a.node])
  /\ Strings[a.node] \subseteq Strings[doc]
  /\ \A i \in 1..a.done : Legible(a.node, i)
  /\ f.type = COMPOUND => f.tree = Tree(a.node, a.done)
  /\ f.type = LIST =>
       /\ f.items = [i \in 1..a.done |-> Meaning[a.node.items[i]]]
       /\ f.size = Len(a.node.items)
       /\ a.node.items # <<>> => f.of = a.node.of

\* Place b, which g is at, is the item that the activation at a waits for.
Below(a, g, b) ==
  /\ a.done + 1 \in DOMAIN a.node.items
  /\ b.node = a.node.items[a.done + 1]
  /\ b.start + Len(Payload[b.node]) = a.start + Begin(a.node, a.done + 1)
  /\ a.node.type = COMPOUND =>
       g.name = a.node.names[a.done + 1] /\ Len(a.node.names[a.done + 1]) <= MaxShort

\* How much of the stream was read when an activation has come to a place.
Reached(a) == a.start + Begin(a.node, a.done)

Place(node, start, done) == [node |-> node, start |-> start, done |-> done]

\* A payload in a compound, or in a list, once its meaning is in the tree.
LEMMA Gained ==
  ASSUME NEW f, Fine(f), NEW a, Fits(f, a), a.done + 1 \in DOMAIN a.node.items,
         NEW name, a.node.type = COMPOUND => name = a.node.names[a.done + 1],
         Legible(a.node, a.done + 1),
         NEW m, m = Meaning[a.node.items[a.done + 1]]
  PROVE  Fits(Added(f, name, m), Place(a.node, a.start, a.done + 1))
<1> DEFINE v == a.node
           k == a.done
           g == Added(f, name, m)
<1>1. /\ v \in Payloads /\ v.type = f.type /\ k \in Nat /\ Sound(v)
      /\ Len(v.items) \in Nat /\ DOMAIN v.items = 1..Len(v.items)
      /\ k + 1 \in 0..Len(v.items) /\ k + 1 \in 1..Len(v.items)
  <2>1. v \in Payloads /\ v.type = f.type /\ k \in 0..Len(v.items)
    BY DEF Fits
  <2>2. Sound(v) /\ Len(v.items) \in Nat /\ DOMAIN v.items = 1..Len(v.items)
    BY <2>1, ItemsOf, LenProperties
  <2> QED
    BY <2>1, <2>2
<1>a. Strings[v] \subseteq Strings[doc] /\ \A i \in 1..(k + 1) : Legible(v, i)
  <2>1. Strings[v] \subseteq Strings[doc] /\ \A i \in 1..k : Legible(v, i)
    BY DEF Fits
  <2>2. \A i \in 1..(k + 1) : i \in 1..k \/ i = k + 1
    BY <1>1
  <2> QED
    BY <2>1, <2>2
<1>2. CASE f.type = COMPOUND
  <2>1. g = [f EXCEPT !.tree = Stored(f.tree, name, m)]
    BY <1>2 DEF Added
  <2>2. g.type = f.type /\ g.tree = Stored(f.tree, name, m)
    BY <2>1 DEF Fine
  <2>3. v.names \in Seq(Seq(Byte)) /\ Len(v.names) = Len(v.items) /\ DOMAIN v.names = 1..Len(v.items)
    BY <1>1, <1>2 DEF Sound
  <2>4. Stored(Tree(v, k), name, m) = Tree(v, k + 1)
    <3> DEFINE D == {v.names[i] : i \in 1..k}
               E == {v.names[i] : i \in 1..(k + 1)}
    <3>1. E = D \cup {name}
      <4>1. 1..(k + 1) = 1..k \cup {k + 1}
        BY <1>1
      <4> QED
        BY <1>1, <1>2, <4>1
    <3>2. name \notin D => First(v.names, name) = k + 1
      <4> SUFFICES ASSUME name \notin D PROVE First(v.names, name) = k + 1
        OBVIOUS
      <4> DEFINE i == First(v.names, name)
      <4>0. name = v.names[k + 1]
        BY <1>1, <1>2
      <4>1. i \in DOMAIN v.names /\ v.names[i] = name /\ i <= k + 1
        BY <1>1, <2>3, <4>0, FirstIs
      <4> HIDE DEF i
      <4>2. i \notin 1..k
        BY <4>1
      <4> QED
        BY <1>1, <2>3, <4>1, <4>2 DEF i
    <3>3. Tree(v, k) = [n \in D |-> Meaning[v.items[First(v.names, n)]]]
      BY DEF Tree
    <3>4. Tree(v, k + 1) = [n \in E |-> Meaning[v.items[First(v.names, n)]]]
      BY DEF Tree
    <3> HIDE DEF D, E
    <3>5. DOMAIN Tree(v, k) = D
      BY <3>3
    <3>6. Stored(Tree(v, k), name, m) = [n \in D \cup {name} |-> IF n \in D THEN Tree(v, k)[n] ELSE m]
      BY <3>5 DEF Stored
    <3>7. \A n \in D \cup {name} :
            (IF n \in D THEN Tree(v, k)[n] ELSE m) = Meaning[v.items[First(v.names, n)]]
      <4> TAKE n \in D \cup {name}
      <4>1. CASE n \in D
        BY <3>3, <4>1
      <4>2. CASE n \notin D
        BY <3>2, <4>2
      <4> QED
        BY <4>1, <4>2
    <3> QED
      BY <3>1, <3>4, <3>6, <3>7, Zenon
  <2>5. f.tree = Tree(v, k)
    BY <1>2 DEF Fits
  <2> QED
    BY <1>1, <1>a, <1>2, <2>2, <2>4, <2>5, Types DEF Fits, Place
<1>3. CASE f.type = LIST
  <2> DEFINE h == f.items
  <2>1. g = [f EXCEPT !.items = Append(h, m)]
    BY <1>3, Types DEF Added
  <2>2. g.type = f.type /\ g.items = Append(h, m) /\ g.size = f.size /\ g.of = f.of
    BY <2>1 DEF Fine
  <2>3. h = [i \in 1..k |-> Meaning[v.items[i]]] /\ IsSequence(h)
    BY <1>3 DEF Fits, Fine
  <2> HIDE DEF h
  <2>4. Len(h) = k
    <3>1. Len(h) \in Nat /\ DOMAIN h = 1..Len(h)
      BY <2>3, Appended
    <3>2. DOMAIN h = 1..k
      BY <2>3
    <3> QED
      BY <1>1, <3>1, <3>2
  <2>5. Append(h, m) = [i \in 1..(k + 1) |-> Meaning[v.items[i]]]
    <3> DEFINE t == Append(h, m)
    <3>0. /\ IsSequence(t) /\ Len(t) = Len(h) + 1 /\ t[Len(h) + 1] = m
          /\ \A i \in 1..Len(h) : t[i] = h[i]
      <4>1. IsSequence(h)
        BY <2>3
      <4> QED
        BY <4>1, Appended
    <3> HIDE DEF t
    <3>1. /\ IsSequence(t) /\ Len(t) = k + 1 /\ t[k + 1] = m
          /\ \A i \in 1..k : t[i] = h[i]
      BY <2>4, <3>0, Zenon
    <3>2. t = [i \in 1..(k + 1) |-> t[i]]
      <4>1. t \in Seq(Range(t)) /\ Len(t) = k + 1
        BY <3>1, Zenon DEF IsSequence
      <4> QED
        BY <4>1
    <3> HIDE DEF t
    <3>3. \A i \in 1..(k + 1) : t[i] = Meaning[v.items[i]]
      <4> TAKE i \in 1..(k + 1)
      <4>1. CASE i = k + 1
        BY <3>1, <4>1
      <4>2. CASE i # k + 1
        <5>1. i \in 1..k
          BY <1>1, <4>2
        <5> QED
          BY <2>3, <3>1, <5>1
      <4> QED
        BY <4>1, <4>2
    <3> QED
      BY <3>2, <3>3, Zenon DEF t
  <2> QED
    BY <1>1, <1>a, <1>3, <2>2, <2>5, Types DEF Fits, Place
<1> QED
  BY <1>2, <1>3 DEF Fine

\* What an activation returns when it has read all of its payload.
LEMMA Finished ==
  ASSUME NEW f, Fine(f), NEW a, Fits(f, a), a.done = Len(a.node.items)
  PROVE  Value(f) = Meaning[a.node]
<1> DEFINE v == a.node
           n == Len(v.items)
<1>1. /\ v \in Payloads /\ v.type = f.type /\ Sound(v) /\ v.items \in Seq(Payloads)
      /\ n \in Nat /\ DOMAIN v.items = 1..n
  BY ItemsOf, LenProperties DEF Fits
<1>2. Meaning[v] = Says(v, Items(Meaning, v))
  BY <1>1, MeaningIs
<1>3. CASE f.type = COMPOUND
  <2>1. v.names \in Seq(Seq(Byte)) /\ Len(v.names) = n /\ DOMAIN v.names = 1..n
    BY <1>1, <1>3 DEF Sound
  <2>2. Range(v.names) = {v.names[i] : i \in 1..n}
    BY <2>1 DEF Range
  <2>3. \A i \in 1..n : First(v.names, v.names[i]) \in DOMAIN v.items
    BY <1>1, <2>1, FirstIs
  <2>4. Tree(v, n) = [m \in Range(v.names) |-> Items(Meaning, v)[First(v.names, m)]]
    <3>1. \A m \in Range(v.names) : Meaning[v.items[First(v.names, m)]] = Items(Meaning, v)[First(v.names, m)]
      <4> TAKE m \in Range(v.names)
      <4>1. First(v.names, m) \in DOMAIN v.items
        BY <2>2, <2>3
      <4> QED
        BY <4>1 DEF Items
    <3> QED
      BY <2>2, <3>1, Zenon DEF Tree
  <2>5. Value(f) = CompoundOf(Tree(v, n))
    BY <1>3 DEF Value, Fits
  <2>6. Says(v, Items(Meaning, v)) = CompoundOf([m \in Range(v.names) |-> Items(Meaning, v)[First(v.names, m)]])
    <3>1. v.type = COMPOUND /\ v.type # LIST
      BY <1>1, <1>3, Types
    <3> QED
      BY <3>1, Zenon DEF Says
  <2> QED
    BY <1>2, <2>4, <2>5, <2>6
<1>4. CASE f.type = LIST
  <2>1. f.items = Items(Meaning, v) /\ (v.items # <<>> => f.of = v.of)
    BY <1>1, <1>4 DEF Fits, Items
  <2>2. f.items = <<>> <=> v.items = <<>>
    <3>1. IsSequence(f.items) /\ DOMAIN f.items = 1..n
      BY <1>1, <1>4, <2>1 DEF Fine, Items
    <3>2. Len(f.items) = n
      BY <1>1, <3>1, Appended
    <3>3. f.items \in Seq(Range(f.items))
      BY <3>1 DEF IsSequence
    <3> QED
      BY <1>1, <3>2, <3>3, EmptySeq
  <2>3. Value(f) = ListOf(IF f.items = <<>> THEN UNKNOWN ELSE f.of, f.items)
    BY <1>4, Types DEF Value
  <2>4. Says(v, Items(Meaning, v)) = ListOf(IF v.items = <<>> THEN UNKNOWN ELSE v.of, Items(Meaning, v))
    BY <1>1, <1>4 DEF Says
  <2> QED
    BY <1>2, <2>1, <2>2, <2>3, <2>4
<1> QED
  BY <1>3, <1>4 DEF Fine

\* When all items of a payload were read no string in it is too long.
LEMMA FinishedLegible ==
  ASSUME NEW f, Fine(f), NEW a, Fits(f, a), a.done = Len(a.node.items)
  PROVE  \A n \in Strings[a.node] : n <= MaxShort
<1> DEFINE v == a.node
<1>1. /\ v \in Payloads /\ v.type \in {LIST, COMPOUND} /\ v.type # TEXT
      /\ DOMAIN v.items = 1..a.done /\ \A i \in 1..a.done : Legible(v, i)
      /\ v.type = COMPOUND => DOMAIN v.names = DOMAIN v.items
  <2>1. v \in Payloads /\ v.type \in {LIST, COMPOUND} /\ \A i \in 1..a.done : Legible(v, i)
    BY DEF Fits, Fine
  <2>2. DOMAIN v.items = 1..a.done /\ Sound(v)
    BY <2>1, ItemsOf, LenProperties
  <2>3. ASSUME v.type = COMPOUND PROVE DOMAIN v.names = DOMAIN v.items
    <3>1. v.names \in Seq(Seq(Byte)) /\ Len(v.names) = a.done
      BY <2>2, <2>3 DEF Sound
    <3> QED
      BY <2>2, <3>1, LenProperties
  <2> QED
    BY <2>1, <2>2, <2>3, Types
<1> HIDE DEF v
<1>2. ASSUME NEW n \in Strings[v] PROVE n <= MaxShort
  <2>1. \/ \E i \in DOMAIN v.items : n \in Strings[v.items[i]]
        \/ v.type = COMPOUND /\ \E i \in DOMAIN v.names : n = Len(v.names[i])
    BY <1>1, StringsOf
  <2> QED
    BY <1>1, <2>1 DEF Legible
<1> QED
  BY <1>2 DEF v

-----------------------------------------------------------------------------
(* Iterations.                                                             *)

\* Every activation fits a place in the document, and what follows the place
\* of the last one is what the stream has next.
Follows(at) ==
  /\ \A i \in DOMAIN stack : Fits(stack[i], at[i])
  /\ \A i \in 1..(Len(stack) - 1) : Below(at[i], stack[i + 1], at[i + 1])
  /\ at[1].node = doc /\ at[1].start + Len(Payload[doc]) = Len(data)
  /\ stream = Reached(at[Len(stack)])

\* The item that an activation reads next.
Coming(a) == a.node.items[a.done + 1]

\* An iteration finds the item that is next, or the end when there is none.
LEMMA Iteration ==
  ASSUME IInv, AtMost(MaxUnsignedShort), pc = "parsing", NEW at, Follows(at),
         NEW a, a = at[Len(stack)]
  PROVE  /\ Len(stack) \in DOMAIN stack /\ Top = stack[Len(stack)] /\ Fits(Top, a) /\ Fine(Top)
         /\ a.done < Len(a.node.items) =>
              /\ ~AtEnd
              /\ a.done + 1 \in DOMAIN a.node.items
              /\ Coming(a) \in Payloads /\ Coming(a).type \in 1..12
              /\ Strings[Coming(a)] \subseteq Strings[doc]
              /\ Header.type = Coming(a).type
              /\ IF Top.type = COMPOUND THEN Header.ok <=> Len(a.node.names[a.done + 1]) <= MaxShort
                                       ELSE Header.ok
              /\ Header.ok =>
                   /\ Top.type = COMPOUND => Header.bytes = a.node.names[a.done + 1]
                   /\ Header.after \in Nat /\ At(data, Header.after, Payload[Coming(a)])
                   /\ Header.after + Len(Payload[Coming(a)]) = a.start + Begin(a.node, a.done + 1)
         /\ a.done = Len(a.node.items) =>
              /\ AtEnd
              /\ a.start + Len(Payload[a.node]) =
                   IF Top.type = COMPOUND THEN stream + 1 ELSE stream
<1> DEFINE v == a.node
           k == a.done
           p == a.start
           n == Len(v.items)
<1>1. data \in Seq(Byte) /\ stream \in Nat /\ stack # <<>> /\ Len(data) \in Nat
  BY LenProperties DEF IInv, ParserTypeOK
<1>2. /\ Len(stack) \in DOMAIN stack /\ Len(stack) \in Nat \ {0}
      /\ Top = stack[Len(stack)]
  BY <1>1 DEF IInv, IsSequence, Top, Last
<1>3. Fine(Top) /\ Fits(Top, a)
  BY <1>2 DEF IInv, Follows
<1>4. stream = p + Begin(v, k)
  BY DEF Follows, Reached
<1>5. /\ v \in Payloads /\ v.type = Top.type /\ v.type \in {LIST, COMPOUND}
      /\ p \in Nat /\ k \in 0..n /\ At(data, p, Payload[v])
  BY <1>3 DEF Fits, Fine
<1>6. /\ n \in Nat /\ DOMAIN v.items = 1..n
      /\ \A j \in 0..n : Begin(v, j) \in Nat
      /\ \A i \in DOMAIN v.items :
              /\ At(data, p + Begin(v, i - 1), Parts(v)[i])
              /\ Begin(v, i) = Begin(v, i - 1) + Len(Parts(v)[i])
      /\ v.type = COMPOUND =>
              /\ p + Begin(v, n) < Len(data)
              /\ data[p + Begin(v, n) + 1] = END
              /\ Len(Payload[v]) = Begin(v, n) + 1
      /\ v.type = LIST => Len(Payload[v]) = Begin(v, n)
  <2> HIDE DEF v, p
  <2>1. /\ Len(v.items) \in Nat /\ DOMAIN v.items = 1..Len(v.items)
        /\ Begin(v, 0) = Lead(v)
        /\ \A j \in 0..Len(v.items) : Begin(v, j) \in Nat
        /\ \A i \in DOMAIN v.items :
             /\ At(data, p + Begin(v, i - 1), Parts(v)[i])
             /\ Begin(v, i) = Begin(v, i - 1) + Len(Parts(v)[i])
        /\ v.type = COMPOUND =>
             /\ p + Begin(v, Len(v.items)) < Len(data)
             /\ data[p + Begin(v, Len(v.items)) + 1] = END
             /\ Len(Payload[v]) = Begin(v, Len(v.items)) + 1
        /\ v.type = LIST =>
             /\ p < Len(data) /\ data[p + 1] = v.of % 256
             /\ parseInt(data, p + 1) = Len(v.items)
             /\ Len(Payload[v]) = Begin(v, Len(v.items))
    BY <1>1, <1>5, Layout
  <2> QED
    BY <2>1, Zenon
<1>7. v.type = LIST =>
        /\ Top.size = n /\ Top.items = [i \in 1..k |-> Meaning[v.items[i]]]
        /\ Len(Top.items) = k /\ (v.items # <<>> => Top.of = v.of)
  <2> HAVE v.type = LIST
  <2>1. /\ Top.size = n /\ Top.items = [i \in 1..k |-> Meaning[v.items[i]]]
        /\ (v.items # <<>> => Top.of = v.of) /\ IsSequence(Top.items)
    BY <1>3, <1>5 DEF Fits, Fine
  <2>2. Len(Top.items) = k
    <3>1. DOMAIN Top.items = 1..k
      BY <2>1
    <3>2. DOMAIN Top.items = 1..Len(Top.items) /\ Len(Top.items) \in Nat
      BY <2>1, Appended
    <3> QED
      BY <1>5, <1>6, <3>1, <3>2
  <2> QED
    BY <2>1, <2>2
<1>8. ASSUME k < n
      PROVE  /\ ~AtEnd
             /\ k + 1 \in DOMAIN v.items
             /\ Coming(a) \in Payloads /\ Coming(a).type \in 1..12
             /\ Strings[Coming(a)] \subseteq Strings[doc]
             /\ Header.type = Coming(a).type
             /\ IF Top.type = COMPOUND THEN Header.ok <=> Len(v.names[k + 1]) <= MaxShort
                                      ELSE Header.ok
             /\ Header.ok =>
                  /\ Top.type = COMPOUND => Header.bytes = v.names[k + 1]
                  /\ Header.after \in Nat /\ At(data, Header.after, Payload[Coming(a)])
                  /\ Header.after + Len(Payload[Coming(a)]) = p + Begin(v, k + 1)
  <2> DEFINE w == Coming(a)
             part == Parts(v)[k + 1]
  <2>0. k \in Nat /\ k + 1 \in 1..n /\ k + 1 - 1 = k /\ k + 1 \in 0..n /\ k \in 0..n
    <3>1. n \in Nat /\ k \in 0..n /\ k < n
      BY <1>5, <1>6, <1>8, Zenon
    <3> HIDE DEF k, n
    <3> QED
      BY <3>1
  <2>1. /\ k + 1 \in DOMAIN v.items
        /\ w \in Payloads /\ w.type \in 1..12 /\ Sound(v)
    <3>1. k + 1 \in DOMAIN v.items
      BY <1>6, <2>0
    <3>2. w \in Payloads /\ Sound(v)
      BY <1>5, <3>1, ItemsOf DEF Coming
    <3>3. Sound(w)
      BY <3>2, ItemsOf
    <3> HIDE DEF w
    <3> QED
      BY <3>1, <3>2, <3>3, Types DEF Sound
  <2>a. /\ Strings[w] \subseteq Strings[v] /\ Strings[v] \subseteq Strings[doc]
        /\ \A n1 \in Strings[doc] : n1 <= MaxUnsignedShort
    <3>1. Strings[w] \subseteq Strings[v]
      BY <1>5, <2>1, StringsOf DEF Coming
    <3>2. Strings[v] \subseteq Strings[doc]
      BY <1>3 DEF Fits
    <3> QED
      BY <3>1, <3>2 DEF AtMost
  <2>2. /\ At(data, stream, part)
        /\ p + Begin(v, k + 1) = stream + Len(part)
        /\ Begin(v, k + 1) = Begin(v, k) + Len(part)
    <3>1. At(data, p + Begin(v, k), part) /\ Begin(v, k + 1) = Begin(v, k) + Len(part)
      <4>1. PICK i \in DOMAIN v.items : i = k + 1 /\ i - 1 = k
        BY <2>0, <2>1
      <4>2. /\ At(data, p + Begin(v, i - 1), Parts(v)[i])
            /\ Begin(v, i) = Begin(v, i - 1) + Len(Parts(v)[i])
        BY <1>6, Zenon
      <4> QED
        BY <4>1, <4>2, Zenon
    <3>2. Begin(v, k) \in Nat /\ Begin(v, k + 1) \in Nat
      BY <1>6, <2>0
    <3> HIDE DEF part
    <3>3. p + Begin(v, k + 1) = stream + Len(part)
      <4> DEFINE l == Len(part)
                 b == Begin(v, k)
                 c == Begin(v, k + 1)
      <4>1. c = b + l /\ stream = p + b /\ b \in Nat /\ c \in Nat
        BY <1>4, <3>1, <3>2
      <4> HIDE DEF l, b, c
      <4>2. l = c - b
        <5>1. l \in Int
          BY LenProperties, <1>5, <1>6, <2>0, <2>1, WrittenBytes DEF part, l
        <5> QED
          BY <4>1, <5>1
      <4>3. p + c = stream + l
        BY <1>5, <4>1, <4>2
      <4> QED
        BY <4>3 DEF l, c
    <3> QED
      BY <1>4, <3>1, <3>3
  <2>3. Payload[w] \in Seq(Byte) /\ Len(Payload[w]) \in Nat
    BY <2>1, PayloadBytes
  <2>4. CASE v.type = COMPOUND
    <3> DEFINE name == v.names[k + 1]
    <3>1. name \in Seq(Byte) /\ Len(name) <= MaxUnsignedShort
      <4>1. v.names \in Seq(Seq(Byte)) /\ Len(v.names) = n
        BY <2>1, <2>4 DEF Sound
      <4>2. k + 1 \in 1..Len(v.names)
        BY <2>0, <4>1
      <4>3. name \in Seq(Byte) /\ k + 1 \in DOMAIN v.names
        <5> HIDE DEF k, v
        <5> QED
          BY <4>1, <4>2
      <4>4. Len(name) \in Strings[v]
        BY <1>5, <2>4, <4>3, StringsOf
      <4> QED
        BY <2>a, <4>3, <4>4
    <3>2. part = Named(w, name, Payload[w])
      BY <2>1, <2>4, Types DEF Parts, Written, Items, Coming
    <3> HIDE DEF name, w, part
    <3>3. /\ stream < Len(data) /\ parseTagType(data, stream) = w.type
          /\ Len(name) <= MaxShort =>
               parseString(data, stream + 1) = [ok |-> TRUE, bytes |-> name, after |-> stream + 3 + Len(name)]
          /\ ~(Len(name) <= MaxShort) => ~parseString(data, stream + 1).ok
          /\ At(data, stream + 3 + Len(name), Payload[w])
      <4>1. /\ data \in Seq(Byte) /\ stream \in Nat /\ w \in Payloads /\ name \in Seq(Byte)
            /\ Payload[w] \in Seq(Byte) /\ At(data, stream, Named(w, name, Payload[w]))
        BY <1>1, <2>1, <2>2, <2>3, <3>1, <3>2
      <4>2. Len(name) <= MaxUnsignedShort
        BY <3>1
      <4>3. PICK b : b = Payload[w]
        OBVIOUS
      <4>4. /\ stream < Len(data) /\ parseTagType(data, stream) = w.type
            /\ Len(name) <= MaxShort =>
                 parseString(data, stream + 1) = [ok |-> TRUE, bytes |-> name, after |-> stream + 3 + Len(name)]
            /\ ~(Len(name) <= MaxShort) /\ Len(name) <= MaxUnsignedShort => ~parseString(data, stream + 1).ok
            /\ At(data, stream + 3 + Len(name), b)
        BY <4>1, <4>3, NamedAt, ZenonT(60)
      <4> QED
        BY <4>2, <4>3, <4>4, Zenon
    <3>4. Len(part) = 3 + Len(name) + Len(Payload[w]) /\ Len(name) \in Nat
      BY <2>1, <2>3, <3>1, <3>2, NamedBytes
    <3>5. Top.type = COMPOUND /\ Top.type # LIST
      BY <1>5, <2>4, Types
    <3>6. /\ Header.type = w.type
          /\ Header.ok <=> Len(name) <= MaxShort
          /\ Header.ok => Header.bytes = name /\ Header.after = stream + 3 + Len(name)
      <4> DEFINE r == parseString(data, stream + 1)
      <4>1. /\ Len(name) <= MaxShort => r.ok = TRUE /\ r.bytes = name /\ r.after = stream + 3 + Len(name)
            /\ ~(Len(name) <= MaxShort) => ~r.ok
        BY <3>3
      <4> HIDE DEF r
      <4>2. /\ Header.type = w.type /\ Header.ok = r.ok
            /\ Header.bytes = r.bytes /\ Header.after = r.after
        BY <3>3, <3>5 DEF Header, r
      <4> QED
        BY <4>1, <4>2
    <3>7. ~AtEnd
      <4>1. Good(data, stream)
        BY <1>1, <3>3 DEF Good
      <4>2. w.type # END
        BY <2>1 DEF END
      <4> QED
        BY <3>3, <3>5, <4>1, <4>2 DEF AtEnd
    <3>8. stream + 3 + Len(name) + Len(Payload[w]) = p + Begin(v, k + 1) /\ stream + 3 + Len(name) \in Nat
      <4> DEFINE l == Len(name)
                 m == Len(Payload[w])
                 e == p + Begin(v, k + 1)
                 q == Len(part)
      <4>1. /\ stream \in Nat /\ l \in Nat /\ m \in Nat
            /\ q = 3 + l + m /\ e = stream + q
        BY <1>1, <2>2, <2>3, <3>4, Zenon
      <4> HIDE DEF l, m, e, q
      <4>2. stream + 3 + l + m = e /\ stream + 3 + l \in Nat
        BY <4>1
      <4> QED
        BY <4>2 DEF l, m, e
    <3> QED
      BY <2>1, <2>a, <3>3, <3>5, <3>6, <3>7, <3>8 DEF w, name
  <2>5. CASE v.type = LIST
    <3>1. part = Payload[w]
      BY <2>1, <2>5 DEF Parts, Written, Items, Coming
    <3>2. v.items # <<>>
      BY <2>0
    <3>3. Top.of = w.type /\ Top.type = LIST
      BY <1>5, <1>7, <2>1, <2>5, <3>2 DEF Sound, Coming
    <3> HIDE DEF w, part
    <3>4. Header = [type |-> w.type, ok |-> TRUE, bytes |-> <<>>, after |-> stream]
      BY <3>3 DEF Header
    <3>5. stream <= Len(data)
      BY <1>1, <2>2, <2>3, <3>1 DEF At
    <3>6. ~AtEnd
      <4>1. Good(data, stream)
        BY <3>5 DEF Good
      <4>2. Top.of # END /\ Top.type # COMPOUND
        BY <2>1, <3>3, Types DEF END
      <4>3. ~Complete(Top)
        BY <1>5, <1>6, <1>7, <1>8, <2>5 DEF Complete
      <4> QED
        BY <4>1, <4>2, <4>3 DEF AtEnd
    <3> QED
      BY <1>1, <2>1, <2>a, <2>2, <3>1, <3>3, <3>4, <3>6, Types DEF w
  <2> QED
    BY <1>5, <2>4, <2>5
<1>9. ASSUME k = n
      PROVE  /\ AtEnd
             /\ p + Len(Payload[v]) = IF Top.type = COMPOUND THEN stream + 1 ELSE stream
  <2>1. Begin(v, n) \in Nat
    BY <1>6
  <2>2. CASE v.type = COMPOUND
    <3>1. parseTagType(data, stream) = END
      BY <1>4, <1>6, <1>9, <2>2 DEF parseTagType, END
    <3>2. p + Len(Payload[v]) = stream + 1
      <4>1. p + (Begin(v, n) + 1) = (p + Begin(v, n)) + 1
        BY <1>5, <2>1
      <4> QED
        BY <1>4, <1>6, <1>9, <2>2, <4>1
    <3> QED
      BY <1>5, <2>2, <3>1, <3>2 DEF AtEnd
  <2>3. CASE v.type = LIST
    <3>1. Complete(Top)
      BY <1>6, <1>7, <1>9, <2>3 DEF Complete
    <3> QED
      BY <1>4, <1>5, <1>6, <1>9, <2>3, <3>1, Types DEF AtEnd
  <2> QED
    BY <1>5, <2>2, <2>3
<1> QED
  BY <1>2, <1>3, <1>8, <1>9

\* A name stays.
LEMMA AddedName ==
  ASSUME NEW f, Fine(f), NEW name, NEW m
  PROVE  Added(f, name, m).name = f.name
  BY DEF Fine, Added

\* The stream and the document do not change, so what fits one fits it then.
LEMMA FitsStill ==
  ASSUME NEW i, NEW a, Fits(stack'[i], a), data' = data, doc' = doc
  PROVE  Fits(stack[i], a)'
  BY Zenon DEF Fits, At

\* What the next state has to be for places to be followed in it.
LEMMA FollowsThen ==
  ASSUME NEW u, data' = data, doc' = doc,
         \A i \in DOMAIN stack' : Fits(stack[i], u[i])',
         \A i \in 1..(Len(stack') - 1) : Below(u[i], stack'[i + 1], u[i + 1]),
         u[1].node = doc, u[1].start + Len(Payload[doc]) = Len(data),
         stream' = Reached(u[Len(stack')])
  PROVE  Follows(u)'
<1>1. (\A i \in DOMAIN stack : Fits(stack[i], u[i]))'
  BY Zenon
<1>2. (\A i \in 1..(Len(stack) - 1) : Below(u[i], stack[i + 1], u[i + 1]))'
  BY Zenon DEF Below
<1>3. (u[1].node = doc /\ u[1].start + Len(Payload[doc]) = Len(data))'
  BY Zenon
<1>4. (stream = Reached(u[Len(stack)]))'
  BY Zenon DEF Reached
<1> QED
  BY <1>1, <1>2, <1>3, <1>4, Zenon DEF Follows

\* And they are followed when nothing changes.
LEMMA FollowsStill ==
  ASSUME NEW at, Follows(at), data' = data, doc' = doc, stack' = stack, stream' = stream
  PROVE  Follows(at)'
<1>1. \A i \in DOMAIN stack' : Fits(stack[i], at[i])'
  <2> TAKE i \in DOMAIN stack'
  <2>1. Fits(stack'[i], at[i])
    BY Zenon DEF Follows
  <2> QED
    BY <2>1, FitsStill
<1> QED
  BY <1>1, FollowsThen, Zenon DEF Follows

\* The last of the first n activations moves on in its payload.
LEMMA MovesOn ==
  ASSUME IInv, NEW at, Follows(at), NEW n \in Nat \ {0}, n <= Len(stack), Len(stack) \in Nat,
         IsSequence(stack'), Len(stack') = n,
         \A i \in 1..(n - 1) : stack'[i] = stack[i],
         stack'[n].name = stack[n].name,
         NEW done, Fits(stack'[n], Place(at[n].node, at[n].start, done)),
         stream' = Reached(Place(at[n].node, at[n].start, done)),
         data' = data, doc' = doc
  PROVE  \E u : Follows(u)'
<1>a. PICK b : b = Place(at[n].node, at[n].start, done)
  OBVIOUS
<1>b. PICK u : u = [i \in 1..n |-> IF i = n THEN b ELSE at[i]]
  OBVIOUS
<1>1. DOMAIN stack' = 1..n /\ DOMAIN stack = 1..Len(stack)
  BY Appended DEF IInv
<1>2. b.node = at[n].node /\ b.start = at[n].start
  BY <1>a DEF Place
<1>3. u[n] = b /\ n \in 1..n /\ \A i \in 1..(n - 1) : u[i] = at[i]
  BY <1>b
<1>4. Fits(stack'[n], b) /\ stream' = Reached(b)
  BY <1>a
<1>5. ASSUME NEW i \in DOMAIN stack' PROVE Fits(stack[i], u[i])'
  <2>1. CASE i = n
    <3>1. Fits(stack'[i], u[i])
      BY <1>3, <1>4, <2>1
    <3> QED
      BY <3>1, FitsStill
  <2>2. CASE i # n
    <3>1. i \in 1..(n - 1) /\ i \in DOMAIN stack
      BY <1>1, <2>2
    <3>2. Fits(stack'[i], u[i])
      BY <1>3, <3>1 DEF Follows
    <3> QED
      BY <3>2, FitsStill
  <2> QED
    BY <2>1, <2>2
<1>6. ASSUME NEW i \in 1..(n - 1) PROVE Below(u[i], stack'[i + 1], u[i + 1])
  <2>1. Below(at[i], stack[i + 1], at[i + 1]) /\ u[i] = at[i]
    <3>1. i \in 1..(Len(stack) - 1)
      OBVIOUS
    <3> QED
      BY <1>3, <3>1 DEF Follows
  <2>2. CASE i + 1 = n
    BY <1>2, <1>3, <2>1, <2>2 DEF Below
  <2>3. CASE i + 1 # n
    <3>1. i + 1 \in 1..(n - 1)
      BY <2>3
    <3> QED
      BY <1>3, <2>1, <3>1
  <2> QED
    BY <2>2, <2>3
<1>7. u[1].node = doc /\ u[1].start + Len(Payload[doc]) = Len(data)
  <2>1. CASE n = 1
    BY <1>2, <1>3, <2>1 DEF Follows
  <2>2. CASE n # 1
    <3>1. 1 \in 1..(n - 1)
      BY <2>2
    <3> QED
      BY <1>3, <3>1 DEF Follows
  <2> QED
    BY <2>1, <2>2
<1>8. Follows(u)'
  <2>1. stream' = Reached(u[Len(stack')])
    BY <1>3, <1>4
  <2> QED
    BY <1>5, <1>6, <1>7, <2>1, FollowsThen
<1> QED
  BY <1>8

\* An activation is called for the next item.
LEMMA Enters ==
  ASSUME IInv, NEW at, Follows(at), Len(stack) \in Nat \ {0},
         NEW g, stack' = Append(stack, g), NEW b, Fits(g, b),
         Below(at[Len(stack)], g, b),
         stream' = Reached(b), data' = data, doc' = doc
  PROVE  \E u : Follows(u)'
<1>a. PICK n : n = Len(stack)
  OBVIOUS
<1>b. PICK u : u = [i \in 1..(n + 1) |-> IF i = n + 1 THEN b ELSE at[i]]
  OBVIOUS
<1>1. /\ IsSequence(stack)
      /\ IsSequence(stack') /\ Len(stack') = n + 1
      /\ DOMAIN stack = 1..n /\ DOMAIN stack' = 1..(n + 1)
      /\ \A i \in 1..n : stack'[i] = stack[i]
      /\ stack'[n + 1] = g
  BY <1>a, Appended DEF IInv
<1>3. n \in Nat \ {0}
  BY <1>a
<1>2. u[n + 1] = b /\ \A i \in 1..n : u[i] = at[i]
  BY <1>b, <1>3
<1>4. ASSUME NEW i \in DOMAIN stack' PROVE Fits(stack[i], u[i])'
  <2>1. CASE i = n + 1
    <3>1. Fits(stack'[i], u[i])
      BY <1>1, <1>2, <2>1
    <3> QED
      BY <3>1, FitsStill
  <2>2. CASE i # n + 1
    <3>1. i \in 1..n
      BY <1>1, <1>3, <2>2
    <3>2. Fits(stack'[i], u[i])
      BY <1>1, <1>2, <3>1 DEF Follows
    <3> QED
      BY <3>2, FitsStill
  <2> QED
    BY <2>1, <2>2
<1>5. ASSUME NEW i \in 1..n PROVE Below(u[i], stack'[i + 1], u[i + 1])
  <2>1. CASE i = n
    BY <1>1, <1>2, <1>a, <2>1
  <2>2. CASE i # n
    <3>1. i \in 1..(n - 1) /\ i + 1 \in 1..n
      BY <1>3, <2>2
    <3>2. Below(at[i], stack[i + 1], at[i + 1])
      BY <1>a, <3>1 DEF Follows
    <3> QED
      BY <1>1, <1>2, <3>1, <3>2
  <2> QED
    BY <2>1, <2>2
<1>6. u[1].node = doc /\ u[1].start + Len(Payload[doc]) = Len(data)
  <2>1. 1 \in 1..n
    BY <1>3
  <2> QED
    BY <1>2, <2>1 DEF Follows
<1>7. (n + 1) - 1 = n
  BY <1>3
<1>8. Follows(u)'
  <2>1. stream' = Reached(u[Len(stack')])
    BY <1>1, <1>2
  <2>2. \A i \in 1..(Len(stack') - 1) : Below(u[i], stack'[i + 1], u[i + 1])
    BY <1>1, <1>5, <1>7
  <2> QED
    BY <1>4, <1>6, <2>1, <2>2, FollowsThen
<1> QED
  BY <1>8

-----------------------------------------------------------------------------
(* Documents that were written.                                            *)

\* Nothing was rejected but a string that is too long; once parse returned, the
\* tree is the document's; until then every activation fits a place in it.
ReadsBack ==
  /\ pc = "threw" => ~AtMost(MaxShort)
  /\ pc = "done" => AtMost(MaxShort) /\ stream = Len(data) /\ result = Meaning[doc]
  /\ pc = "parsing" => Len(Root) <= MaxShort /\ \E at : Follows(at)

\* The stream is a document that can say how long each of its strings is.
Writable == Whole /\ AtMost(MaxUnsignedShort)

\* The inductive invariant.
CodecInv ==
  /\ IInv
  /\ doc = NoDocument \/ doc \in Documents
  /\ Whole => data = Serialize(doc)
  /\ Writable => ReadsBack

\* Before any tag of a compound was read its tree is empty.
LEMMA Untouched == \A v : Tree(v, 0) = NoNames
<1> SUFFICES ASSUME NEW v PROVE Tree(v, 0) = NoNames
  OBVIOUS
<1>1. {v.names[i] : i \in 1..0} = {}
  OBVIOUS
<1>2. Tree(v, 0) = [n \in {} |-> Meaning[v.items[First(v.names, n)]]]
  BY <1>1 DEF Tree
<1> QED
  BY <1>2, Zenon DEF NoNames

\* An activation that has read nothing yet.
LEMMA Fresh ==
  ASSUME data \in Seq(Byte), NEW w \in Payloads, Strings[w] \subseteq Strings[doc], NEW q \in Nat, At(data, q, Payload[w]), NEW name
  PROVE  /\ w.type = COMPOUND =>
              /\ Fits(InCompound(name), Place(w, q, 0))
              /\ Reached(Place(w, q, 0)) = q
         /\ w.type = LIST =>
              /\ Fits(InList(name, parseTagType(data, q), parseInt(data, q + 1)), Place(w, q, 0))
              /\ Reached(Place(w, q, 0)) = q + 1 + 4
<1> DEFINE n == Len(w.items)
<1>0. n \in Nat /\ 0 \in 0..n
  BY ItemsOf, LenProperties
<1>1. ASSUME w.type = COMPOUND
      PROVE  /\ Fits(InCompound(name), Place(w, q, 0))
             /\ Reached(Place(w, q, 0)) = q
  <2>1. Begin(w, 0) = 0
    BY <1>1, Layout, Types DEF Lead
  <2>2. Tree(w, 0) = NoNames
    BY Untouched
  <2> QED
    BY <1>0, <1>1, <2>1, <2>2, Types DEF Fits, Place, InCompound, Reached
<1>2. ASSUME w.type = LIST
      PROVE  /\ Fits(InList(name, parseTagType(data, q), parseInt(data, q + 1)), Place(w, q, 0))
             /\ Reached(Place(w, q, 0)) = q + 1 + 4
  <2>1. Begin(w, 0) = 5 /\ q < Len(data) /\ data[q + 1] = w.of % 256 /\ parseInt(data, q + 1) = n
    <3>1. Begin(w, 0) = Lead(w)
      BY <1>2, Layout
    <3>2. w.type = LIST => q < Len(data) /\ data[q + 1] = w.of % 256 /\ parseInt(data, q + 1) = n
      BY <1>2, Layout
    <3> QED
      BY <1>2, <3>1, <3>2, Zenon DEF Lead
  <2>2. ASSUME w.items # <<>> PROVE parseTagType(data, q) = w.of
    <3>1. /\ Sound(w) /\ w.items \in Seq(Payloads) /\ DOMAIN w.items = 1..n
      BY ItemsOf, LenProperties
    <3>2. 1 \in DOMAIN w.items
      BY <1>0, <2>2, <3>1, EmptySeq
    <3>3. w.of = w.items[1].type /\ w.items[1] \in Payloads
      BY <1>2, <3>1, <3>2, ItemsOf DEF Sound
    <3>4. w.of \in 1..12
      <4>1. Sound(w.items[1])
        BY <3>3, ItemsOf
      <4> QED
        BY <3>3, <4>1, Types DEF Sound
    <3>5. w.of % 256 = w.of /\ w.of < 128
      BY <3>4
    <3> QED
      BY <2>1, <3>5 DEF parseTagType
  <2>3. <<>> = [i \in 1..0 |-> Meaning[w.items[i]]]
    <3>1. 1..0 = {}
      OBVIOUS
    <3> QED
      BY <3>1
  <2>4. Reached(Place(w, q, 0)) = q + 1 + 4
    BY <2>1 DEF Reached, Place
  <2> HIDE DEF n
  <2> QED
    BY <1>0, <1>2, <2>1, <2>2, <2>3, <2>4, Types DEF Fits, Place, InList, n
<1> QED
  BY <1>1, <1>2

\* A whole stream is a document.
LEMMA DocumentIs ==
  ASSUME CodecInv, Writable
  PROVE  /\ doc \in Payloads /\ doc.type = COMPOUND /\ Root \in Seq(Byte)
         /\ Payload[doc] \in Seq(Byte) /\ Len(Payload[doc]) \in Nat
         /\ data \in Seq(Byte) /\ data = Serialize(doc) /\ ReadsBack
<1>1. doc \in Documents
  BY DEF CodecInv, Whole, Writable
<1>2. doc \in Payloads /\ doc.type = COMPOUND /\ Root \in Seq(Byte)
  BY <1>1, DocumentsAssumption
<1> QED
  BY <1>2, PayloadBytes DEF CodecInv, IInv, ParserTypeOK, Writable

\* The first header is the root's.
LEMMA ParseReads ==
  ASSUME CodecInv, Writable, parse, doc' = doc
  PROVE  ReadsBack'
<1>1. /\ doc \in Payloads /\ doc.type = COMPOUND /\ Root \in Seq(Byte)
      /\ Payload[doc] \in Seq(Byte) /\ Len(Payload[doc]) \in Nat
      /\ data \in Seq(Byte) /\ data = Serialize(doc)
  BY DocumentIs
<1>2. stream = 0 /\ data' = data
  BY DEF CodecInv, IInv, parse
<1> DEFINE q == 3 + Len(Root)
<1>3. /\ parseTagType(data, 0) = COMPOUND
      /\ Len(Root) <= MaxShort =>
           parseString(data, 0 + 1) = [ok |-> TRUE, bytes |-> Root, after |-> 0 + q]
      /\ ~(Len(Root) <= MaxShort) => ~parseString(data, 0 + 1).ok
      /\ At(data, 0 + q, Payload[doc])
      /\ Len(data) = q + Len(Payload[doc])
      /\ Len(Root) \in Nat
  <2>1. data = Named(doc, Root, Payload[doc])
    BY <1>1 DEF Serialize
  <2>2. Len(data) = q + Len(Payload[doc]) /\ Len(Root) \in Nat /\ Len(data) \in Nat
    <3>1. Len(Named(doc, Root, Payload[doc])) = 3 + Len(Root) + Len(Payload[doc]) /\ Len(Root) \in Nat
      BY <1>1, NamedBytes, Zenon
    <3>2. Len(data) \in Nat
      BY <1>1, LenProperties
    <3> QED
      BY <2>1, <3>1, <3>2, Zenon
  <2>3. At(data, 0, data)
    BY <2>2 DEF At
  <2>4. /\ parseTagType(data, 0) = doc.type
        /\ Len(Root) <= MaxShort =>
             parseString(data, 0 + 1) = [ok |-> TRUE, bytes |-> Root, after |-> 0 + 3 + Len(Root)]
        /\ ~(Len(Root) <= MaxShort) => ~parseString(data, 0 + 1).ok
        /\ At(data, 0 + 3 + Len(Root), Payload[doc])
    <3> DEFINE z == 0
               b == Payload[doc]
    <3>1. /\ At(data, z, Named(doc, Root, b)) /\ z \in Nat /\ b \in Seq(Byte)
          /\ data \in Seq(Byte) /\ doc \in Payloads /\ Root \in Seq(Byte)
      BY <1>1, <2>1, <2>3
    <3> HIDE DEF z, b
    <3>2. /\ z < Len(data) /\ parseTagType(data, z) = doc.type
          /\ Len(Root) <= MaxShort =>
               parseString(data, z + 1) = [ok |-> TRUE, bytes |-> Root, after |-> z + 3 + Len(Root)]
          /\ ~(Len(Root) <= MaxShort) /\ Len(Root) <= MaxUnsignedShort => ~parseString(data, z + 1).ok
          /\ At(data, z + 3 + Len(Root), b)
      BY <3>1, NamedAt, ZenonT(60)
    <3>3. Len(Root) <= MaxUnsignedShort
      BY DEF Writable, AtMost
    <3> QED
      BY <3>2, <3>3 DEF z, b
  <2>5. 0 + 3 + Len(Root) = 0 + q
    BY <2>2
  <2> QED
    BY <1>1, <2>2, <2>4, <2>5
<1>4. q \in Nat /\ 0 + q = q
  BY <1>3
<1>b. CASE ~(Len(Root) <= MaxShort)
  <2>1. pc' = "threw"
    BY <1>2, <1>3, <1>b DEF parse
  <2>2. ~AtMost(MaxShort)'
    BY <1>b DEF AtMost
  <2> QED
    BY <2>1, <2>2 DEF ReadsBack
<1>c. SUFFICES ASSUME Len(Root) <= MaxShort PROVE ReadsBack'
  BY <1>b
<1> HIDE DEF q
<1> DEFINE g == InCompound(Root)
<1>a. PICK at : at = [i \in 1..1 |-> Place(doc, q, 0)]
  OBVIOUS
<1>5. stream' = q /\ stack' = <<g>> /\ pc' = "parsing"
  BY <1>2, <1>3, <1>4, <1>c DEF parse
<1>6. Fits(g, Place(doc, q, 0)) /\ Reached(Place(doc, q, 0)) = q
  BY <1>1, <1>3, <1>4, Fresh
<1>7. at[1] = Place(doc, q, 0) /\ at[1].node = doc /\ at[1].start = q
  BY <1>a DEF Place
<1> HIDE DEF g
<1>8. Len(stack') = 1 /\ DOMAIN stack' = {1} /\ stack'[1] = g
  BY <1>5
<1>9. ASSUME NEW i \in DOMAIN stack' PROVE Fits(stack[i], at[i])'
  <2>1. Fits(stack'[i], at[i])
    BY <1>6, <1>7, <1>8
  <2> QED
    BY <1>2, <2>1, FitsStill
<1>10. \A i \in 1..(Len(stack') - 1) : Below(at[i], stack'[i + 1], at[i + 1])
  BY <1>8
<1>11. Follows(at)'
  <2>1. stream' = Reached(at[Len(stack')])
    BY <1>5, <1>6, <1>7, <1>8
  <2>2. at[1].node = doc /\ at[1].start + Len(Payload[doc]) = Len(data)
    BY <1>3, <1>7
  <2> QED
    BY <1>2, <1>9, <1>10, <2>1, <2>2, FollowsThen
<1> QED
  BY <1>5, <1>11, <1>c DEF ReadsBack

\* While parsing, the place of the last activation.
LEMMA Placed ==
  ASSUME CodecInv, Writable, pc = "parsing"
  PROVE  AtMost(MaxUnsignedShort) /\ Len(Root) <= MaxShort /\ \E at : Follows(at)
  BY DocumentIs DEF ReadsBack, Writable

\* A number, a string or an array is read as the item it was written for.
LEMMA InsertReads ==
  ASSUME CodecInv, Writable, Insert, doc' = doc
  PROVE  ReadsBack'
<1>0. /\ IInv /\ AtMost(MaxUnsignedShort) /\ pc = "parsing" /\ pc' = "parsing"
      /\ data' = data /\ data \in Seq(Byte) /\ ~AtEnd /\ Header.ok
  BY DEF CodecInv, IInv, ParserTypeOK, Insert, Continues, Writable
<1>1. PICK at : Follows(at)
  BY <1>0, Placed
<1> DEFINE n == Len(stack)
           a == at[n]
           v == a.node
           k == a.done
           w == Coming(a)
           payload == parseScalar(data, Header.after, Header.type)
           g == Added(Top, Header.bytes, Scalar(Header.type, payload.bytes))
<1>2. /\ n \in Nat \ {0} /\ Top = stack[n] /\ n <= Len(stack) /\ Len(stack) \in Nat
      /\ IsSequence(stack') /\ Len(stack') = n
      /\ \A i \in 1..(n - 1) : stack'[i] = stack[i]
      /\ stack'[n] = g
  BY <1>0, Inserted
<1>3. Fits(Top, a) /\ Fine(Top) /\ v \in Payloads /\ k \in 0..Len(v.items) /\ v.type = Top.type
  BY <1>0, <1>1, Iteration DEF Fits
<1>4. k < Len(v.items)
  <2>1. Len(v.items) \in Nat
    BY <1>3, ItemsOf, LenProperties
  <2> QED
    BY <1>0, <1>1, <1>3, <2>1, Iteration
<1>5. /\ k + 1 \in DOMAIN v.items /\ w \in Payloads
      /\ Strings[w] \subseteq Strings[doc]
      /\ Header.type = w.type
      /\ Top.type = COMPOUND => Header.bytes = v.names[k + 1] /\ Len(v.names[k + 1]) <= MaxShort
      /\ Header.after \in Nat /\ At(data, Header.after, Payload[w])
      /\ Header.after + Len(Payload[w]) = a.start + Begin(v, k + 1)
  BY <1>0, <1>1, <1>4, Iteration
<1>a. w.type = TEXT => Len(w.bytes) <= MaxShort
  <2> SUFFICES ASSUME w.type = TEXT PROVE Len(w.bytes) <= MaxShort
    OBVIOUS
  <2>1. Len(w.bytes) <= MaxUnsignedShort
    <3>1. Len(w.bytes) \in Strings[doc]
      BY <1>5, StringsOf
    <3> QED
      BY <1>0, <3>1 DEF AtMost
  <2>2. parseScalar(data, Header.after, w.type).ok
    BY <1>5 DEF Insert
  <2>3. Payload[w] = Unnamed(w, Items(Payload, w))
    BY <1>5, PayloadBytes
  <2> QED
    BY <1>0, <1>5, <2>1, <2>2, <2>3, TextRead
<1>b. Legible(v, k + 1)
  <2>1. w.type \in Scalars /\ w.type # COMPOUND
    BY <1>5, Types DEF Insert, Scalars
  <2>2. DOMAIN w.items = {}
    BY <1>5, <2>1, ItemsOf DEF Sound
  <2>3. \A m \in Strings[w] : m <= MaxShort
    BY <1>5, <1>a, <2>1, <2>2, StringsOf
  <2> QED
    BY <1>3, <1>5, <2>3 DEF Legible, Coming
<1>6. payload = [ok |-> TRUE, bytes |-> w.bytes, after |-> Header.after + Len(Payload[w])]
  <2>1. w.type \in Scalars
    BY <1>5 DEF Insert
  <2>2. Payload[w] = Unnamed(w, Items(Payload, w))
    BY <1>5, PayloadBytes
  <2> QED
    BY <1>0, <1>5, <1>a, <2>1, <2>2, ScalarAt
<1>7. Meaning[w] = Scalar(w.type, w.bytes)
  <2>1. w.type \in Scalars
    BY <1>5 DEF Insert
  <2>2. w.type # LIST /\ w.type # COMPOUND
    BY <2>1, Types DEF Scalars
  <2>3. Meaning[w] = Says(w, Items(Meaning, w))
    BY <1>5, MeaningIs
  <2> QED
    BY <2>2, <2>3 DEF Says
<1>8. g = Added(Top, Header.bytes, Meaning[w])
  BY <1>5, <1>6, <1>7
<1>9. Fits(g, Place(v, a.start, k + 1))
  <2> HIDE DEF g
  <2> QED
    BY <1>3, <1>5, <1>8, <1>b, Gained DEF Coming
<1>10. stream' = Reached(Place(v, a.start, k + 1))
  <2>1. stream' = payload.after
    BY DEF Insert
  <2> QED
    BY <1>5, <1>6, <2>1 DEF Reached, Place
<1>11. stack'[n].name = stack[n].name
  BY <1>2, <1>3, AddedName
<1> HIDE DEF g, n, w
<1>12. \E u : Follows(u)'
  BY <1>0, <1>1, <1>2, <1>9, <1>10, <1>11, MovesOn
<1> QED
  BY <1>0, <1>12, Placed DEF ReadsBack

\* A list or a compound is entered.
LEMMA CallReads ==
  ASSUME CodecInv, Writable, pc = "parsing", ~AtEnd, Header.ok, NEW g,
         stack' = Append(stack, g),
         \/ /\ Header.type = COMPOUND
            /\ stream' = Header.after
            /\ g = InCompound(Header.bytes)
         \/ /\ Header.type = LIST
            /\ stream' = Header.after + 1 + 4
            /\ g = InList(Header.bytes, parseTagType(data, Header.after),
                          parseInt(data, Header.after + 1)),
         pc' = pc, data' = data, doc' = doc
  PROVE  ReadsBack'
<1>0. IInv /\ AtMost(MaxUnsignedShort) /\ data \in Seq(Byte)
  BY DEF CodecInv, IInv, ParserTypeOK, Writable
<1>1. PICK at : Follows(at)
  BY Placed
<1> DEFINE a == at[Len(stack)]
           v == a.node
           k == a.done
           w == Coming(a)
           b == Place(w, Header.after, 0)
<1>3. /\ Fits(Top, a) /\ Fine(Top) /\ v \in Payloads /\ k \in 0..Len(v.items) /\ v.type = Top.type
      /\ Len(stack) \in Nat \ {0}
  BY <1>0, <1>1, Iteration, HeaderRead DEF Fits
<1>4. k < Len(v.items)
  <2>1. Len(v.items) \in Nat
    BY <1>3, ItemsOf, LenProperties
  <2> QED
    BY <1>0, <1>1, <1>3, <2>1, Iteration
<1>5. /\ k + 1 \in DOMAIN v.items /\ w \in Payloads
      /\ Strings[w] \subseteq Strings[doc]
      /\ Header.type = w.type
      /\ Top.type = COMPOUND => Header.bytes = v.names[k + 1] /\ Len(v.names[k + 1]) <= MaxShort
      /\ Header.after \in Nat /\ At(data, Header.after, Payload[w])
      /\ Header.after + Len(Payload[w]) = a.start + Begin(v, k + 1)
  BY <1>0, <1>1, <1>4, Iteration
<1>6. Fits(g, b) /\ stream' = Reached(b) /\ g.name = Header.bytes
  <2>1. CASE Header.type = COMPOUND
    <3>1. stream' = Header.after /\ g = InCompound(Header.bytes)
      BY <2>1, Types
    <3>2. Fits(InCompound(Header.bytes), b) /\ Reached(b) = Header.after
      BY <1>0, <1>5, <2>1, Fresh, Zenon
    <3>3. g.name = Header.bytes
      BY <3>1 DEF InCompound
    <3> QED
      BY <3>1, <3>2, <3>3, Zenon
  <2>2. CASE Header.type = LIST
    <3> DEFINE of == parseTagType(data, Header.after)
               size == parseInt(data, Header.after + 1)
    <3>1. stream' = Header.after + 1 + 4 /\ g = InList(Header.bytes, of, size)
      BY <2>2, Types
    <3>2. Fits(InList(Header.bytes, of, size), b) /\ Reached(b) = Header.after + 1 + 4
      BY <1>0, <1>5, <2>2, Fresh, Zenon
    <3> HIDE DEF of, size
    <3>3. g.name = Header.bytes
      BY <3>1 DEF InList
    <3> QED
      BY <3>1, <3>2, <3>3, Zenon
  <2> QED
    BY <2>1, <2>2
<1>7. b.node = w /\ b.start = Header.after
  BY DEF Place
<1> HIDE DEF b
<1>8. Below(a, g, b)
  BY <1>3, <1>5, <1>6, <1>7 DEF Below, Coming
<1>9. \E u : Follows(u)'
  BY <1>0, <1>1, <1>3, <1>6, <1>8, Enters
<1> QED
  BY <1>9, Placed DEF ReadsBack

\* What an activation returns is the item it was called for.
LEMMA ReturnReads ==
  ASSUME CodecInv, Writable, Return, doc' = doc
  PROVE  ReadsBack'
<1>0. /\ IInv /\ AtMost(MaxUnsignedShort) /\ Len(Root) <= MaxShort
      /\ pc = "parsing" /\ data' = data /\ data \in Seq(Byte) /\ AtEnd
  BY Placed DEF CodecInv, IInv, ParserTypeOK, Return
<1>1. PICK at : Follows(at)
  BY <1>0, Placed
<1> DEFINE l == Len(stack)
           b == at[l]
           w == b.node
<1>2. /\ l \in DOMAIN stack /\ Top = stack[l]
      /\ Fits(Top, b) /\ Fine(Top) /\ w \in Payloads /\ b.done \in 0..Len(w.items)
  BY <1>0, <1>1, Iteration DEF Fits
<1>3. b.done = Len(w.items)
  <2>1. Len(w.items) \in Nat
    BY <1>2, ItemsOf, LenProperties
  <2> QED
    BY <1>0, <1>1, <1>2, <2>1, Iteration
<1>4. Value(Top) = Meaning[w] /\ \A m \in Strings[w] : m <= MaxShort
  BY <1>2, <1>3, Finished, FinishedLegible
<1>5. stream' = b.start + Len(Payload[w])
  <2>1. b.start + Len(Payload[w]) = IF Top.type = COMPOUND THEN stream + 1 ELSE stream
    BY <1>0, <1>1, <1>3, Iteration
  <2> QED
    BY <2>1 DEF Return
<1>6. CASE l = 1
  <2>1. result' = Value(Top) /\ pc' = "done"
    BY <1>6 DEF Return
  <2>2. w = doc /\ b.start + Len(Payload[doc]) = Len(data)
    BY <1>1, <1>6 DEF Follows
  <2>3. AtMost(MaxShort)'
    BY <1>0, <1>4, <2>2 DEF AtMost
  <2> QED
    BY <1>0, <1>4, <1>5, <2>1, <2>2, <2>3 DEF ReadsBack
<1>7. CASE l # 1
  <2> DEFINE n == l - 1
             a == at[n]
             v == a.node
             k == a.done
             f == stack[n]
             g == Added(f, Top.name, Value(Top))
  <2>1. /\ n \in Nat \ {0} /\ l = n + 1
        /\ IsSequence(stack') /\ Len(stack') = n
        /\ \A i \in 1..(n - 1) : stack'[i] = stack[i]
        /\ stack'[n] = g
    BY <1>0, <1>7, Returned
  <2>2. n \in DOMAIN stack /\ n \in 1..(l - 1) /\ n <= l /\ l \in Nat /\ pc' = "parsing"
    <3>1. DOMAIN stack = 1..l /\ l \in Nat
      BY <1>0, Appended DEF IInv
    <3> QED
      BY <1>0, <1>7, <2>1, <3>1 DEF Return
  <2>3. Fine(f) /\ Fits(f, a) /\ Below(a, Top, b)
    <3>1. Below(at[n], stack[n + 1], at[n + 1])
      BY <1>1, <2>2 DEF Follows
    <3>2. stack[n + 1] = Top /\ at[n + 1] = b
      BY <1>2, <2>1
    <3>3. Fine(f) /\ Fits(f, a)
      BY <1>0, <1>1, <2>2 DEF Follows, IInv
    <3> QED
      BY <3>1, <3>2, <3>3
  <2> HIDE DEF n
  <2>4. /\ k + 1 \in DOMAIN v.items
        /\ w = v.items[k + 1]
        /\ b.start + Len(Payload[w]) = a.start + Begin(v, k + 1)
        /\ v.type = COMPOUND => Top.name = v.names[k + 1] /\ Len(v.names[k + 1]) <= MaxShort
    BY <2>3 DEF Below
  <2>5. Fits(g, Place(v, a.start, k + 1))
    <3> DEFINE m == Value(Top)
               name == Top.name
    <3>1. m = Meaning[v.items[k + 1]] /\ (v.type = COMPOUND => name = v.names[k + 1])
      BY <1>4, <2>4
    <3>a. Legible(v, k + 1)
      BY <1>4, <2>4 DEF Legible
    <3> HIDE DEF m, name, f, a
    <3>2. Fits(Added(f, name, m), Place(v, a.start, k + 1))
      BY <2>3, <2>4, <3>1, <3>a, Gained
    <3> QED
      BY <3>2 DEF m, name
  <2>6. stream' = Reached(Place(v, a.start, k + 1))
    BY <1>5, <2>4 DEF Reached, Place
  <2>7. stack'[n].name = stack[n].name
    BY <2>1, <2>3, AddedName
  <2> HIDE DEF g
  <2>8. \E u : Follows(u)'
    BY <1>0, <1>1, <2>1, <2>2, <2>5, <2>6, <2>7, MovesOn
  <2> QED
    BY <1>0, <2>2, <2>8 DEF ReadsBack
<1> QED
  BY <1>6, <1>7

\* Nothing but a string that is too long gives a reason to throw.
LEMMA ThrowReads ==
  ASSUME CodecInv, Writable, Throw, doc' = doc
  PROVE  ReadsBack'
<1>0. /\ IInv /\ AtMost(MaxUnsignedShort) /\ pc = "parsing" /\ data \in Seq(Byte) /\ ~AtEnd
      /\ pc' = "threw"
  BY DEF CodecInv, IInv, ParserTypeOK, Throw, Writable
<1>1. PICK at : Follows(at)
  BY <1>0, Placed
<1>2. ASSUME AtMost(MaxShort) PROVE FALSE
  <2> DEFINE a == at[Len(stack)]
             v == a.node
             w == Coming(a)
  <2>1. Fits(Top, a) /\ v \in Payloads /\ a.done \in 0..Len(v.items) /\ v.type = Top.type
        /\ Strings[v] \subseteq Strings[doc]
    BY <1>0, <1>1, Iteration DEF Fits
  <2>2. a.done < Len(v.items)
    <3>1. Len(v.items) \in Nat
      BY <2>1, ItemsOf, LenProperties
    <3> QED
      BY <1>0, <1>1, <2>1, <3>1, Iteration
  <2>3. /\ a.done + 1 \in DOMAIN v.items /\ w \in Payloads /\ w.type \in 1..12
        /\ Header.type = w.type /\ Strings[w] \subseteq Strings[doc]
        /\ IF Top.type = COMPOUND THEN Header.ok <=> Len(v.names[a.done + 1]) <= MaxShort
                                 ELSE Header.ok
        /\ Header.ok => Header.after \in Nat /\ At(data, Header.after, Payload[w])
    BY <1>0, <1>1, <2>2, Iteration
  <2>4. Header.ok
    <3> SUFFICES ASSUME v.type = COMPOUND PROVE Len(v.names[a.done + 1]) <= MaxShort
      BY <2>1, <2>3
    <3>1. a.done + 1 \in DOMAIN v.names
      <4>1. v.names \in Seq(Seq(Byte)) /\ Len(v.names) = Len(v.items) /\ v.items \in Seq(Payloads)
        BY <2>1, ItemsOf DEF Sound
      <4> QED
        BY <2>3, <4>1, LenProperties
    <3>2. Len(v.names[a.done + 1]) \in Strings[v]
      BY <2>1, <3>1, StringsOf
    <3> QED
      BY <1>2, <2>1, <3>2 DEF AtMost
  <2>5. ASSUME w.type \in Scalars PROVE parseScalar(data, Header.after, Header.type).ok
    <3>1. Payload[w] = Unnamed(w, Items(Payload, w))
      BY <2>3, PayloadBytes
    <3>2. w.type = TEXT => Len(w.bytes) <= MaxShort
      BY <1>2, <2>3, StringsOf DEF AtMost
    <3>3. parseScalar(data, Header.after, w.type) =
            [ok |-> TRUE, bytes |-> w.bytes, after |-> Header.after + Len(Unnamed(w, Items(Payload, w)))]
      BY <1>0, <2>3, <2>4, <2>5, <3>1, <3>2, ScalarAt
    <3> QED
      BY <2>3, <3>3
  <2> HIDE DEF w
  <2> QED
    BY <2>3, <2>4, <2>5, Types DEF Throw
<1>3. ~AtMost(MaxShort)'
  BY <1>2 DEF AtMost
<1> QED
  BY <1>0, <1>3 DEF ReadsBack

\* The invariant holds at first, is kept by every step, and always holds.
LEMMA CodecInitInv == CodecInit => CodecInv
<1> SUFFICES ASSUME CodecInit PROVE CodecInv
  OBVIOUS
<1>1. IsSequence(stack) /\ Len(stack) = 0 /\ DOMAIN stack = {}
  BY Empty DEF CodecInit, Start
<1>2. CASE doc = NoDocument /\ data \in Streams
  BY <1>1, <1>2, StreamsAssumption DEF CodecInit, CodecInv, Start, IInv, ParserTypeOK, Whole, Writable
<1>3. CASE /\ doc \in Documents
           /\ \E cut \in IF doc \in Torn THEN 0..Len(Serialize(doc)) ELSE {Len(Serialize(doc))} :
                data = SubSeq(Serialize(doc), 1, cut)
  <2> DEFINE s == Serialize(doc)
  <2>1. s \in Seq(Byte) /\ Len(s) \in Nat
    <3>1. doc \in Payloads /\ Root \in Seq(Byte)
      BY <1>3, DocumentsAssumption
    <3>2. Payload[doc] \in Seq(Byte)
      BY <3>1, PayloadBytes
    <3> QED
      BY <3>1, <3>2, NamedBytes, LenProperties DEF Serialize
  <2>2. PICK cut \in 0..Len(s) : data = SubSeq(s, 1, cut)
    <3>1. PICK c \in IF doc \in Torn THEN 0..Len(s) ELSE {Len(s)} : data = SubSeq(s, 1, c)
      BY <1>3
    <3> HIDE DEF s
    <3>2. c \in 0..Len(s)
      BY <2>1, <3>1
    <3> QED
      BY <3>1, <3>2
  <2> HIDE DEF s
  <2>3. data \in Seq(Byte) /\ (Len(data) = Len(s) => data = s)
    <3>1. \A i \in 1..cut : s[i] \in Byte
      BY <2>1
    <3>2. /\ data \in Seq(Byte) /\ Len(data) = cut
          /\ \A i \in 1..cut : data[i] = s[i]
      <4>1. /\ SubSeq(s, 1, cut) \in Seq(Byte)
            /\ Len(SubSeq(s, 1, cut)) = IF 1 <= cut THEN cut - 1 + 1 ELSE 0
            /\ \A i \in 1..(cut - 1 + 1) : SubSeq(s, 1, cut)[i] = s[1 + i - 1]
        BY <3>1, SubSeqProperties
      <4> QED
        BY <2>1, <2>2, <4>1
    <3>3. Len(data) = Len(s) => data = s
      BY <2>1, <3>2, SeqEqual
    <3> QED
      BY <3>2, <3>3
  <2>4. pc = "root" /\ stream = 0
    BY DEF CodecInit, Start
  <2>5. IInv
    BY <1>1, <2>3, <2>4 DEF CodecInit, Start, IInv, ParserTypeOK
  <2>6. ReadsBack
    BY <2>4 DEF ReadsBack
  <2> QED
    BY <1>3, <2>3, <2>5, <2>6 DEF CodecInv, Whole, s
<1> QED
  BY <1>2, <1>3 DEF CodecInit

\* Every step over a document's stream preserves CodecInv.
LEMMA CodecStepInv == CodecInv /\ [CodecNext]_codecVars => CodecInv'
<1> SUFFICES ASSUME CodecInv, [CodecNext]_codecVars PROVE CodecInv'
  OBVIOUS
<1>1. doc' = doc /\ data' = data
  BY DEF CodecNext, codecVars, vars, Next, parse, Insert, CallParseCompound, CallParseList, Return, Throw
<1>2. IInv'
  <2>1. [Next]_vars /\ IInv
    BY DEF CodecNext, codecVars, CodecInv
  <2> QED
    BY <2>1, StepInv
<1>3. ASSUME Writable PROVE ReadsBack'
  <2>1. CASE parse
    BY <1>1, <1>3, <2>1, ParseReads
  <2>2. CASE Insert
    BY <1>1, <1>3, <2>2, InsertReads
  <2>3. CASE CallParseCompound
    <3>1. /\ pc = "parsing" /\ ~AtEnd /\ Header.ok /\ Header.type = COMPOUND
          /\ stream' = Header.after /\ stack' = Append(stack, InCompound(Header.bytes))
          /\ pc' = pc
      BY <2>3 DEF CallParseCompound, Continues
    <3> QED
      BY <1>1, <1>3, <3>1, CallReads
  <2>4. CASE CallParseList
    <3> DEFINE g == InList(Header.bytes, parseTagType(data, Header.after), parseInt(data, Header.after + 1))
    <3>1. /\ pc = "parsing" /\ ~AtEnd /\ Header.ok /\ Header.type = LIST
          /\ stream' = Header.after + 1 + 4 /\ stack' = Append(stack, g)
          /\ pc' = pc
      BY <2>4 DEF CallParseList, Continues
    <3>2. g = InList(Header.bytes, parseTagType(data, Header.after), parseInt(data, Header.after + 1))
      OBVIOUS
    <3> HIDE DEF g
    <3> QED
      BY <1>1, <1>3, <3>1, <3>2, CallReads
  <2>5. CASE Return
    BY <1>1, <1>3, <2>5, ReturnReads
  <2>6. CASE Throw
    BY <1>1, <1>3, <2>6, ThrowReads
  <2>7. CASE UNCHANGED vars
    <3>1. ReadsBack /\ UNCHANGED <<data, stream, stack, result, pc, doc>>
      BY <1>1, <1>3, <2>7, DocumentIs DEF vars
    <3>a. AtMost(MaxShort)' <=> AtMost(MaxShort)
      BY <1>1 DEF AtMost
    <3>2. pc = "parsing" => \E at : Follows(at)'
      <4> SUFFICES ASSUME pc = "parsing" PROVE \E at : Follows(at)'
        OBVIOUS
      <4>1. PICK at : Follows(at)
        BY <3>1 DEF ReadsBack
      <4>2. Follows(at)'
        BY <3>1, <4>1, FollowsStill
      <4> QED
        BY <4>2
    <3> QED
      BY <3>1, <3>a, <3>2 DEF ReadsBack
  <2> QED
    BY <2>1, <2>2, <2>3, <2>4, <2>5, <2>6, <2>7 DEF CodecNext, codecVars, Next
<1>4. /\ Whole' => Whole /\ data = Serialize(doc)
      /\ Writable' => Writable
  BY <1>1 DEF Whole, CodecInv, Writable, AtMost
<1> QED
  BY <1>1, <1>2, <1>3, <1>4 DEF CodecInv

\* So it holds in every state.
LEMMA CodecInvariance == CodecSpec => []CodecInv
  BY CodecInitInv, CodecStepInv, PTL DEF CodecSpec

\* What the parser keeps to on any stream it keeps to on these: documents, whole
\* or cut anywhere, and the streams nobody wrote.
THEOREM CodecKeeps == CodecSpec => [](ParserTypeOK /\ AsAnnounced) /\ Progresses
<1>1. CodecInv => IInv
  BY DEF CodecInv
<1>2. CodecInv => ParserTypeOK /\ AsAnnounced
  BY <1>1, InvAnnounced DEF IInv
<1>3. CodecInv /\ [CodecNext]_codecVars => [pc' \in {"done", "threw"} \/ Left' < Left]_vars
  <2> SUFFICES ASSUME CodecInv, [CodecNext]_codecVars
               PROVE  [pc' \in {"done", "threw"} \/ Left' < Left]_vars
    OBVIOUS
  <2>1. [Next]_vars
    BY DEF CodecNext, codecVars
  <2> QED
    BY <1>1, <2>1, NextLowers
<1> QED
  BY <1>2, <1>3, CodecInvariance, PTL DEF CodecSpec, Progresses

\* Every document that is written, whatever numbers, strings, arrays, lists and
\* compounds are in it and however deep, is read to its last byte and yields the
\* tree that it describes if no string or name in it has more than 32767 bytes;
\* if one does, and none more than 65535, it is rejected (nbt.cpp:11, :128).
THEOREM ReadBack == CodecSpec => []RoundTrip
<1>1. CodecInv => RoundTrip
  BY DEF CodecInv, RoundTrip, ReadsBack, Writable
<1> QED
  BY <1>1, CodecInvariance, PTL
=============================================================================
