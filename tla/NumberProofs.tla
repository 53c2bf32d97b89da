----------------------------- MODULE NumberProofs -----------------------------
(***************************************************************************)
(* The two number formats: a VarInt that is written is read back           *)
(* (VarIntWriter), for every int that is not negative, every buffer and    *)
(* every position in it, and a position keeps every coordinate that its    *)
(* field can hold (Position), for fields of any even number of values.     *)
(***************************************************************************)
EXTENDS VarIntWriter, Position, TLAPS, SequenceTheorems

-----------------------------------------------------------------------------
(* The inductive invariant.                                                *)

written == pos - start

\* The bytes around the VarInt are the ones of before.
Around ==
  LET new == Len(buffer) - Len(before)
  IN  /\ new = written + (IF done THEN 1 ELSE 0)
      /\ \A i \in 1..start : buffer[i] = before[i]
      /\ \A i \in (start + 1)..Len(before) : buffer[i + new] = before[i]

\* 2^(7k), and a bound of what is left of an int after k bytes.
Weight(k) == CASE k = 0 -> 1 [] k = 1 -> 128 [] k = 2 -> 16384
               [] k = 3 -> 2097152 [] k = 4 -> 268435456
Limit(k) == CASE k = 0 -> MaxInt [] k = 1 -> 16777215 [] k = 2 -> 131071
              [] k = 3 -> 1023 [] k = 4 -> 7

Digit(i) == SegmentAt(buffer, start + 1, written, i)

\* The bytes written carry the low bits of the input, value has the others.
Halves ==
  /\ written \in 0..4
  /\ value \in 0..Limit(written)
  /\ \A i \in 1..written : Continues(buffer[start + i])
  /\ input = Digit(1) + 128 * Digit(2) + 16384 * Digit(3)
               + 2097152 * Digit(4) + Weight(written) * value
  /\ done => value \in 0..127 /\ buffer[pos + 1] = value

IInv == TypeOK /\ Around /\ Halves

-----------------------------------------------------------------------------
(* Inserting a byte.                                                       *)

\* InsertAt puts the byte behind the first p and moves the others by one.
LEMMA InsertAtResult ==
  ASSUME NEW s \in Seq(Byte), NEW p \in 0..Len(s), NEW byte \in Byte
  PROVE  /\ InsertAt(s, p, byte) \in Seq(Byte)
         /\ Len(InsertAt(s, p, byte)) = Len(s) + 1
         /\ \A i \in 1..p : InsertAt(s, p, byte)[i] = s[i]
         /\ InsertAt(s, p, byte)[p + 1] = byte
         /\ \A i \in (p + 1)..Len(s) : InsertAt(s, p, byte)[i + 1] = s[i]
<1> DEFINE head == SubSeq(s, 1, p)  tail == SubSeq(s, p + 1, Len(s))
           mid == <<byte>>
<1>1. Len(s) \in Nat /\ p \in Nat /\ p <= Len(s)
  OBVIOUS
<1>2. /\ head \in Seq(Byte) /\ Len(head) = p
      /\ \A i \in 1..p : head[i] = s[i]
  BY <1>1, SubSeqProperties
<1>3. /\ tail \in Seq(Byte) /\ Len(tail) = Len(s) - p
      /\ \A i \in 1..(Len(s) - p) : tail[i] = s[p + i]
  BY <1>1, SubSeqProperties
<1>4. mid \in Seq(Byte) /\ Len(mid) = 1 /\ mid[1] = byte
  OBVIOUS
<1> HIDE DEF head, tail, mid
<1>5. /\ head \o mid \in Seq(Byte) /\ Len(head \o mid) = p + 1
      /\ \A i \in 1..p : (head \o mid)[i] = s[i]
      /\ (head \o mid)[p + 1] = byte
  <2>0. /\ head \o mid \in Seq(Byte)
        /\ Len(head \o mid) = Len(head) + Len(mid)
        /\ \A i \in 1..(Len(head) + Len(mid)) :
             (head \o mid)[i] = IF i <= Len(head) THEN head[i] ELSE mid[i - Len(head)]
    BY <1>2, <1>4, ConcatProperties
  <2>1. /\ head \o mid \in Seq(Byte) /\ Len(head \o mid) = p + 1
        /\ \A i \in 1..(p + 1) :
             (head \o mid)[i] = IF i <= p THEN head[i] ELSE mid[i - p]
    BY <2>0, <1>1, <1>2, <1>4
  <2>2. p + 1 \in 1..(p + 1) /\ ~(p + 1 <= p) /\ (p + 1) - p = 1
    BY <1>1
  <2>3. (head \o mid)[p + 1] = mid[1]
    BY <2>1, <2>2
  <2> QED BY <1>1, <1>2, <1>4, <2>1, <2>3
<1>6. InsertAt(s, p, byte) = (head \o mid) \o tail
  BY DEF InsertAt, head, mid, tail
<1> DEFINE left == head \o mid
<1> HIDE DEF left
<1>7. /\ left \in Seq(Byte) /\ Len(left) = p + 1
      /\ \A i \in 1..p : left[i] = s[i]
      /\ left[p + 1] = byte
      /\ InsertAt(s, p, byte) = left \o tail
  BY <1>5, <1>6 DEF left
<1>8. /\ left \o tail \in Seq(Byte) /\ Len(left \o tail) = Len(s) + 1
      /\ \A i \in 1..(p + 1) : (left \o tail)[i] = left[i]
      /\ \A i \in (p + 2)..(Len(s) + 1) : (left \o tail)[i] = tail[i - (p + 1)]
  <2>0. /\ left \o tail \in Seq(Byte)
        /\ Len(left \o tail) = Len(left) + Len(tail)
        /\ \A i \in 1..(Len(left) + Len(tail)) :
             (left \o tail)[i] = IF i <= Len(left) THEN left[i] ELSE tail[i - Len(left)]
    BY <1>3, <1>7, ConcatProperties
  <2>1. /\ left \o tail \in Seq(Byte) /\ Len(left \o tail) = (p + 1) + (Len(s) - p)
        /\ \A i \in 1..((p + 1) + (Len(s) - p)) :
             (left \o tail)[i] = IF i <= p + 1 THEN left[i] ELSE tail[i - (p + 1)]
    BY <2>0, <1>1, <1>3, <1>7
  <2>2. (p + 1) + (Len(s) - p) = Len(s) + 1
    BY <1>1
  <2>3. ASSUME NEW i \in 1..(p + 1) PROVE (left \o tail)[i] = left[i]
    BY <1>1, <2>1, <2>2
  <2>4. ASSUME NEW i \in (p + 2)..(Len(s) + 1)
        PROVE  (left \o tail)[i] = tail[i - (p + 1)]
    <3>1. i \in 1..(Len(s) + 1) /\ ~(i <= p + 1)
      BY <1>1
    <3> QED BY <2>1, <2>2, <3>1
  <2> QED BY <2>1, <2>2, <2>3, <2>4
<1>9. \A i \in (p + 1)..Len(s) : (left \o tail)[i + 1] = s[i]
  <2> SUFFICES ASSUME NEW i \in (p + 1)..Len(s)
               PROVE  (left \o tail)[i + 1] = s[i]
    OBVIOUS
  <2>1. i + 1 \in (p + 2)..(Len(s) + 1) /\ (i + 1) - (p + 1) = i - p
    BY <1>1
  <2>2. i - p \in 1..(Len(s) - p) /\ p + (i - p) = i
    BY <1>1
  <2> QED BY <2>1, <2>2, <1>3, <1>8
<1> QED BY <1>1, <1>7, <1>8, <1>9

-----------------------------------------------------------------------------
(* The numbers.                                                            *)

\* What remains of an int after its low seven bits.
LEMMA Division ==
  ASSUME NEW v \in Nat
  PROVE  /\ v \div 128 \in Nat /\ v % 128 \in 0..127
         /\ v = 128 * (v \div 128) + (v % 128)
BY SMT

\* The largest int shifted right by seven bits, once for each byte of a VarInt.
LEMMA Limits ==
  /\ Limit(0) = MaxInt /\ MaxInt = 2147483647 /\ Limit(1) = 16777215
  /\ Limit(2) = 131071 /\ Limit(3) = 1023 /\ Limit(4) = 7
BY SMT DEF Limit, MaxInt

\* What the bits of each byte of a VarInt weigh.
LEMMA Weights ==
  /\ Weight(0) = 1 /\ Weight(1) = 128 /\ Weight(2) = 16384
  /\ Weight(3) = 2097152 /\ Weight(4) = 268435456
BY SMT DEF Weight

\* Each limit is a number.
LEMMA LimitNat == \A k \in 0..4 : Limit(k) \in Nat
<1> SUFFICES ASSUME NEW k \in 0..4 PROVE Limit(k) \in Nat
  OBVIOUS
<1>1. k = 0 \/ k = 1 \/ k = 2 \/ k = 3 \/ k = 4
  OBVIOUS
<1> QED BY <1>1, Limits, SMT

\* After seven bits less than a 128th of the limit is left; and more than
\* seven bits are left only while there is a byte to come.
LEMMA LimitShrinks ==
  ASSUME NEW k \in 0..4, NEW v \in 0..Limit(k), ~Fits(v)
  PROVE  k \in 0..3 /\ v \div 128 \in 0..Limit(k + 1)
<1> DEFINE q == v \div 128
<1>1. v \in Nat /\ v <= Limit(k) /\ Limit(k) \in Nat
  BY LimitNat
<1>2. v >= 128
  BY <1>1 DEF Fits
<1>3. q \in Nat /\ 128 * q <= v
  BY <1>1, SMT
<1> HIDE DEF q
<1>4. k \in 0..3
  BY <1>1, <1>2, Limits, SMT
<1>5. Limit(k + 1) \in Nat
  BY <1>4, LimitNat
<1>6. k = 0 => q <= Limit(1)
  BY <1>1, <1>3, Limits, SMT
<1>7. k = 1 => q <= Limit(2)
  BY <1>1, <1>3, Limits, SMT
<1>8. k = 2 => q <= Limit(3)
  BY <1>1, <1>3, Limits, SMT
<1>9. k = 3 => q <= Limit(4)
  BY <1>1, <1>3, Limits, SMT
<1>10. q <= Limit(k + 1)
  BY <1>4, <1>6, <1>7, <1>8, <1>9
<1>11. q \in 0..Limit(k + 1)
  BY <1>3, <1>5, <1>10
<1> QED BY <1>4, <1>11 DEF q

-----------------------------------------------------------------------------
(* IInv is inductive.                                                      *)

\* Where a step inserts its byte, and what the insertion leaves alone.
LEMMA InsertedByte ==
  ASSUME IInv, ~done, NEW byte \in Byte, buffer' = InsertAt(buffer, pos, byte)
  PROVE  /\ buffer' \in Seq(Byte) /\ Len(buffer') = Len(buffer) + 1
         /\ \A i \in 1..pos : buffer'[i] = buffer[i]
         /\ buffer'[pos + 1] = byte
         /\ \A i \in (pos + 1)..Len(buffer) : buffer'[i + 1] = buffer[i]
<1>1. before \in Seq(Byte)
  BY BuffersAssumption DEF IInv, TypeOK
<1>2. /\ start \in Nat /\ pos \in Nat /\ Len(before) \in Nat /\ start <= Len(before)
      /\ buffer \in Seq(Byte)
  BY <1>1 DEF IInv, TypeOK
<1>3. Len(buffer) = Len(before) + (pos - start)
  BY <1>2 DEF IInv, Around, written
<1>4. pos \in 0..Len(buffer)
  BY <1>2, <1>3
<1> QED BY <1>2, <1>4, InsertAtResult

\* A byte inserted at the position leaves what is around the packet alone.
LEMMA AroundPreserved ==
  ASSUME IInv, ~done, NEW byte \in Byte, buffer' = InsertAt(buffer, pos, byte),
         UNCHANGED <<before, start>>,
         \/ done' = FALSE /\ pos' = pos + 1
         \/ done' = TRUE /\ pos' = pos
  PROVE  Around'
<1>1. before \in Seq(Byte)
  BY BuffersAssumption DEF IInv, TypeOK
<1> DEFINE b == Len(before)  n == Len(buffer)  next == Len(buffer')
<1>2. /\ start \in Nat /\ pos \in Nat /\ b \in Nat /\ start <= b
      /\ n \in Nat /\ pos >= start
  BY <1>1 DEF IInv, TypeOK, Halves, written
<1>3. n - b = pos - start
  BY <1>2 DEF IInv, Around, written
<1>4. next = n + 1
  BY InsertedByte
<1>5. /\ \A i \in 1..start : buffer[i] = before[i]
      /\ \A i \in (start + 1)..b : buffer[i + (n - b)] = before[i]
  BY DEF IInv, Around
<1> HIDE DEF b, n, next
<1>6. next - b = written' + (IF done' THEN 1 ELSE 0)
  BY <1>2, <1>3, <1>4 DEF written
<1>7. ASSUME NEW i \in 1..start PROVE buffer'[i] = before[i]
  <2>1. i \in 1..pos
    BY <1>2
  <2> QED BY <2>1, <1>5, InsertedByte
<1>8. ASSUME NEW i \in (start + 1)..b PROVE buffer'[i + (next - b)] = before[i]
  <2> DEFINE j == i + (n - b)
  <2>1. j \in (pos + 1)..n /\ j + 1 = i + (next - b)
    BY <1>2, <1>3, <1>4
  <2>2. buffer[j] = before[i]
    BY <1>5
  <2> HIDE DEF j
  <2>3. buffer'[j + 1] = buffer[j]
    BY <2>1, InsertedByte DEF n
  <2> QED BY <2>1, <2>2, <2>3
<1> QED BY <1>6, <1>7, <1>8 DEF Around, b, next

\* The last byte.
LEMMA LastPreserves == IInv /\ Last => IInv'
<1> SUFFICES ASSUME IInv, Last PROVE IInv'
  OBVIOUS
<1>1. ~done /\ done' = TRUE /\ value \in 0..127 /\ value \in Byte
  BY DEF Last, Fits, Byte
<1>2. buffer' = InsertAt(buffer, pos, value)
      /\ UNCHANGED <<input, before, start, value, pos>>
  BY DEF Last
<1>3. Around'
  BY <1>1, <1>2, AroundPreserved
<1>4. TypeOK'
  BY <1>1, <1>2, InsertedByte DEF IInv, TypeOK
<1>5. start \in Nat /\ pos \in Nat /\ written \in 0..4 /\ written' = written
  BY <1>2 DEF IInv, TypeOK, Halves, written
<1>6. ASSUME NEW i \in 1..written PROVE buffer'[start + i] = buffer[start + i]
  <2>1. start + i \in 1..pos
    BY <1>5 DEF written
  <2> QED BY <1>1, <1>2, <2>1, InsertedByte
<1>7. ASSUME NEW i \in 1..4 PROVE Digit(i)' = Digit(i)
  <2>1. CASE i <= written
    <3>1. i \in 1..written /\ (start + 1) + i - 1 = start + i
      BY <1>5, <2>1
    <3> QED BY <1>2, <1>5, <1>6, <3>1 DEF Digit, SegmentAt
  <2>2. CASE ~(i <= written)
    BY <1>2, <1>5, <2>2 DEF Digit, SegmentAt
  <2> QED BY <2>1, <2>2
<1>8. buffer'[pos' + 1] = value'
  BY <1>1, <1>2, InsertedByte
<1>9. Halves'
  <2>1. Digit(1)' = Digit(1) /\ Digit(2)' = Digit(2)
        /\ Digit(3)' = Digit(3) /\ Digit(4)' = Digit(4)
    BY <1>7
  <2>2. written' \in 0..4 /\ value' \in 0..Limit(written')
    BY <1>2, <1>5 DEF IInv, Halves
  <2>3. \A i \in 1..written' : Continues(buffer'[start' + i])
    BY <1>2, <1>5, <1>6 DEF IInv, Halves
  <2>4. input' = (Digit(1) + 128 * Digit(2) + 16384 * Digit(3)
                 + 2097152 * Digit(4) + Weight(written) * value)'
    BY <1>2, <1>5, <2>1, SMT DEF IInv, Halves
  <2> QED BY <1>1, <1>2, <1>8, <2>2, <2>3, <2>4, SMT DEF Halves
<1> QED BY <1>3, <1>4, <1>9 DEF IInv

\* One more byte of the ones before it.
LEMMA MorePreserves == IInv /\ More => IInv'
<1> SUFFICES ASSUME IInv, More PROVE IInv'
  OBVIOUS
<1> DEFINE k == written  d == value % 128  q == value \div 128
<1>1. /\ ~done /\ done' = FALSE /\ ~Fits(value)
      /\ buffer' = InsertAt(buffer, pos, d + 128)
      /\ value' = q /\ pos' = pos + 1
      /\ UNCHANGED <<input, before, start>>
  BY DEF More, IInv, TypeOK
<1>2. k \in 0..4 /\ value \in 0..Limit(k) /\ start \in Nat /\ pos \in Nat
  BY DEF IInv, Halves, TypeOK
<1>3. value \in Nat /\ input \in Int
  BY <1>2, LimitNat, ValuesAssumption DEF IInv, TypeOK
<1>4. d \in 0..127 /\ q \in Nat /\ value = 128 * q + d
  BY <1>3, Division
<1>5. k \in 0..3 /\ q \in 0..Limit(k + 1)
  BY <1>1, <1>2, LimitShrinks
<1> HIDE DEF d, q
<1>6. d + 128 \in Byte /\ (d + 128) % 128 = d /\ Continues(d + 128)
  BY <1>4, SMT DEF Byte, Continues
<1>7. written' = k + 1 /\ pos = start + k
  BY <1>1, <1>2 DEF written
<1>8. Around'
  BY <1>1, <1>6, AroundPreserved
<1>9. TypeOK'
  <2>1. q \in 0..MaxInt
    <3>0. MaxInt \in Nat
      BY Limits, SMT
    <3>1. value <= MaxInt
      BY <1>3, <3>0 DEF IInv, TypeOK
    <3>2. q <= value
      BY <1>4
    <3> QED BY <1>3, <1>4, <3>0, <3>1, <3>2
  <2>2. pos' \in Nat
    BY <1>1, <1>2
  <2> QED BY <1>1, <1>6, <2>1, <2>2, InsertedByte DEF IInv, TypeOK
<1>10. ASSUME NEW i \in 1..k PROVE buffer'[start + i] = buffer[start + i]
  <2>1. start + i \in 1..pos
    BY <1>2, <1>7
  <2> QED BY <1>1, <1>6, <2>1, InsertedByte
<1>11. buffer'[start + (k + 1)] = d + 128
  <2>1. pos + 1 = start + (k + 1)
    BY <1>2, <1>7
  <2> QED BY <1>1, <1>6, <2>1, InsertedByte
<1>12. ASSUME NEW i \in 1..4
       PROVE  /\ i <= k => Digit(i)' = Digit(i) /\ Digit(i) \in Int
              /\ i = k + 1 => Digit(i)' = d /\ Digit(i) = 0
              /\ i > k + 1 => Digit(i)' = 0 /\ Digit(i) = 0
  <2>1. (start + 1) + i - 1 = start + i
    BY <1>2
  <2>2. /\ Digit(i) = IF i <= k THEN buffer[start + i] % 128 ELSE 0
        /\ Digit(i)' = IF i <= k + 1 THEN buffer'[start + i] % 128 ELSE 0
    BY <1>1, <1>7, <2>1 DEF Digit, SegmentAt
  <2> HIDE DEF k
  <2>3. CASE i <= k
    <3>1. i \in 1..k /\ i <= k + 1
      BY <1>2, <2>3
    <3>2. buffer[start + i] \in Byte
      <4>1. start + i \in 1..Len(buffer)
        <5>1. before \in Seq(Byte)
          BY BuffersAssumption DEF IInv, TypeOK
        <5>2. /\ start <= Len(before) /\ Len(before) \in Nat
              /\ start \in Nat /\ pos \in Nat /\ Len(buffer) \in Nat
          BY <5>1 DEF IInv, TypeOK
        <5>3. Len(buffer) = Len(before) + (pos - start)
          BY <1>1, <5>2 DEF IInv, Around, written
        <5> QED BY <3>1, <5>2, <5>3, <1>2, <1>7
      <4> QED BY <4>1, ElementOfSeq DEF IInv, TypeOK
    <3>3. buffer[start + i] % 128 \in Int
      <4> DEFINE b == buffer[start + i]
      <4>1. b \in Nat
        BY <3>2 DEF Byte
      <4> HIDE DEF b
      <4>2. b % 128 \in Int
        BY <4>1, Division
      <4> QED BY <4>2 DEF b
    <3>4. ~(i = k + 1) /\ ~(i > k + 1)
      BY <1>2, <2>3
    <3> QED BY <2>2, <2>3, <3>1, <3>3, <3>4, <1>10
  <2>4. CASE i = k + 1
    <3>1. ~(i <= k) /\ i <= k + 1 /\ ~(i > k + 1)
      BY <1>2, <2>4
    <3>2. buffer'[start + i] = d + 128
      BY <1>11, <2>4
    <3> QED BY <2>2, <2>4, <3>1, <3>2, <1>6
  <2>5. CASE i > k + 1
    BY <1>2, <2>2, <2>5
  <2> QED BY <1>2, <2>3, <2>4, <2>5
<1>13. \A i \in 1..written' : Continues(buffer'[start + i])
  <2> SUFFICES ASSUME NEW i \in 1..written' PROVE Continues(buffer'[start + i])
    OBVIOUS
  <2>1. i \in 1..k \/ i = k + 1
    BY <1>2, <1>7
  <2> QED BY <2>1, <1>6, <1>10, <1>11 DEF IInv, Halves
<1> DEFINE s1 == Digit(1)  s2 == Digit(2)  s3 == Digit(3)  s4 == Digit(4)
           t1 == Digit(1)'  t2 == Digit(2)'  t3 == Digit(3)'  t4 == Digit(4)'
<1>14. input = s1 + 128 * s2 + 16384 * s3 + 2097152 * s4 + Weight(k) * value
  BY DEF IInv, Halves
<1>15. input' = t1 + 128 * t2 + 16384 * t3 + 2097152 * t4 + Weight(k + 1) * q
  <2>1. /\ 1 \in 1..4 /\ 2 \in 1..4 /\ 3 \in 1..4 /\ 4 \in 1..4
    OBVIOUS
  <2>2. CASE k = 0
    <3>1. t1 = d /\ s1 = 0 /\ t2 = 0 /\ s2 = 0 /\ t3 = 0 /\ s3 = 0 /\ t4 = 0 /\ s4 = 0
      BY <1>12, <2>1, <2>2
    <3> HIDE DEF s1, s2, s3, s4, t1, t2, t3, t4, k
    <3> QED BY <1>1, <1>4, <1>14, <2>2, <3>1, Weights, SMT
  <2>3. CASE k = 1
    <3>1. t1 = s1 /\ s1 \in Int /\ t2 = d /\ s2 = 0 /\ t3 = 0 /\ s3 = 0 /\ t4 = 0 /\ s4 = 0
      BY <1>12, <2>1, <2>3
    <3> HIDE DEF s1, s2, s3, s4, t1, t2, t3, t4, k
    <3> QED BY <1>1, <1>4, <1>14, <2>3, <3>1, Weights, SMT
  <2>4. CASE k = 2
    <3>1. t1 = s1 /\ s1 \in Int /\ t2 = s2 /\ s2 \in Int /\ t3 = d /\ s3 = 0 /\ t4 = 0 /\ s4 = 0
      BY <1>12, <2>1, <2>4
    <3> HIDE DEF s1, s2, s3, s4, t1, t2, t3, t4, k
    <3> QED BY <1>1, <1>4, <1>14, <2>4, <3>1, Weights, SMT
  <2>5. CASE k = 3
    <3>1. t1 = s1 /\ s1 \in Int /\ t2 = s2 /\ s2 \in Int /\ t3 = s3 /\ s3 \in Int /\ t4 = d /\ s4 = 0
      BY <1>12, <2>1, <2>5
    <3> HIDE DEF s1, s2, s3, s4, t1, t2, t3, t4, k
    <3> QED BY <1>1, <1>4, <1>14, <2>5, <3>1, Weights, SMT
  <2> QED BY <1>5, <2>2, <2>3, <2>4, <2>5, SMT
<1>16. Halves'
  <2>1. written' \in 0..4 /\ value' \in 0..Limit(written')
    BY <1>1, <1>5, <1>7
  <2>2. input' = (Digit(1) + 128 * Digit(2) + 16384 * Digit(3)
                 + 2097152 * Digit(4) + Weight(written) * value)'
    BY <1>1, <1>7, <1>15, SMT
  <2> QED BY <1>1, <1>13, <2>1, <2>2, SMT DEF Halves
<1> QED BY <1>8, <1>9, <1>16 DEF IInv

\* Before the loop nothing is written and value is the whole input.
LEMMA InitHolds == Init => IInv
<1> SUFFICES ASSUME Init PROVE IInv
  OBVIOUS
<1>1. before \in Seq(Byte) /\ start \in Nat /\ pos = start /\ buffer = before
  BY BuffersAssumption DEF Init
<1>2. written = 0
  BY <1>1 DEF written
<1>3. value = input /\ input \in 0..MaxInt /\ done = FALSE
  BY ValuesAssumption DEF Init
<1>4. TypeOK
  BY <1>1, <1>3 DEF TypeOK, Init
<1>5. Around
  BY <1>1, <1>2, <1>3 DEF Around
<1>6. Digit(1) = 0 /\ Digit(2) = 0 /\ Digit(3) = 0 /\ Digit(4) = 0
  BY <1>2 DEF Digit, SegmentAt
<1>7. value \in 0..Limit(written)
  <2>1. Limit(0) = MaxInt
    BY Limits, SMT
  <2> QED BY <1>2, <1>3, <2>1
<1>8. value \in Int
  BY <1>2, <1>7, LimitNat
<1>9. input = Digit(1) + 128 * Digit(2) + 16384 * Digit(3)
                + 2097152 * Digit(4) + Weight(written) * value
  BY <1>2, <1>3, <1>6, <1>8, Weights, SMT
<1>10. (\A i \in 1..written : Continues(buffer[start + i])) /\ written \in 0..4
  BY <1>2
<1>11. Halves
  BY <1>3, <1>7, <1>9, <1>10, SMT DEF Halves
<1> QED BY <1>4, <1>5, <1>11 DEF IInv

\* A step keeps the invariant; so does one that changes nothing.
LEMMA StepPreserves == IInv /\ [Next]_vars => IInv'
<1> SUFFICES ASSUME IInv, [Next]_vars PROVE IInv'
  OBVIOUS
<1>1. CASE Last
  BY <1>1, LastPreserves
<1>2. CASE More
  BY <1>2, MorePreserves
<1>3. CASE UNCHANGED vars
  BY <1>3, SMT DEF vars, IInv, TypeOK, Around, Halves, written, Digit, SegmentAt
<1> QED BY <1>1, <1>2, <1>3 DEF Next

\* Bytes in the buffer and bits still in value always make up the argument.
THEOREM HalvesHold == Spec => []IInv
BY InitHolds, StepPreserves, PTL DEF Spec

\* writeVarInt of an int that is not negative never leaves more than five
\* bytes, the most util::readVarInt takes.
THEOREM AlwaysShort == Spec => []NeverTooLong
<1>1. IInv => NeverTooLong
  <2> SUFFICES ASSUME IInv PROVE NeverTooLong
    OBVIOUS
  <2>1. written \in 0..4
    BY DEF IInv, Halves
  <2> QED BY <2>1 DEF NeverTooLong, MaxVarIntBytes, written
<1> QED BY <1>1, HalvesHold, PTL

\* Equal bytes at i of s and j of t make equal subsequences.
LEMMA SameParts ==
  ASSUME NEW s \in Seq(Byte), NEW t \in Seq(Byte),
         NEW i \in Nat \ {0}, NEW e \in 0..Len(s),
         NEW j \in Nat \ {0}, NEW f \in 0..Len(t),
         e - i = f - j, i <= e + 1,
         \A x \in i..e : s[x] = t[x + (j - i)]
  PROVE  SubSeq(s, i, e) = SubSeq(t, j, f)
<1> DEFINE a == SubSeq(s, i, e)  b == SubSeq(t, j, f)
<1>0. Len(s) \in Nat /\ Len(t) \in Nat /\ e \in Int /\ f \in Int
  OBVIOUS
<1>1. \A x \in i..e : s[x] \in Byte
  BY <1>0, ElementOfSeq
<1>2. \A x \in j..f : t[x] \in Byte
  BY <1>0, ElementOfSeq
<1>4. /\ a \in Seq(Byte) /\ Len(a) = (IF i <= e THEN e - i + 1 ELSE 0)
      /\ \A x \in 1..(e - i + 1) : a[x] = s[i + x - 1]
  BY <1>0, <1>1, SubSeqProperties
<1>5. /\ b \in Seq(Byte) /\ Len(b) = (IF j <= f THEN f - j + 1 ELSE 0)
      /\ \A x \in 1..(f - j + 1) : b[x] = t[j + x - 1]
  BY <1>0, <1>2, SubSeqProperties
<1> HIDE DEF a, b
<1>6. Len(a) = e - i + 1 /\ Len(b) = e - i + 1 /\ f - j + 1 = e - i + 1
  BY <1>0, <1>4, <1>5
<1>7. ASSUME NEW x \in 1..Len(a) PROVE a[x] = b[x]
  <2>1. x \in 1..(e - i + 1) /\ x \in 1..(f - j + 1) /\ i + x - 1 \in i..e
    BY <1>0, <1>6
  <2>2. (i + x - 1) + (j - i) = j + x - 1
    BY <1>0, <2>1
  <2>3. a[x] = s[i + x - 1] /\ b[x] = t[j + x - 1]
    BY <2>1, <1>4, <1>5
  <2>4. s[i + x - 1] = t[j + x - 1]
    BY <2>1, <2>2
  <2> QED BY <2>3, <2>4
<1>8. a = b
  BY <1>4, <1>5, <1>6, <1>7, SeqEqual
<1> QED BY <1>8 DEF a, b

\* When the loop has ended the bytes it left are one VarInt: it ends after
\* them and not before, and its segments are the ones of the argument.
LEMMA WrittenReadsBack == IInv /\ done => ReadsBack
<1> SUFFICES ASSUME IInv, done PROVE ReadsBack
  OBVIOUS
<1> DEFINE k == written  n == k + 1  p == start + 1
<1>1. before \in Seq(Byte) /\ buffer \in Seq(Byte)
  BY BuffersAssumption DEF IInv, TypeOK
<1>2. /\ start \in Nat /\ pos \in Nat /\ Len(before) \in Nat /\ Len(buffer) \in Nat
      /\ start <= Len(before)
  BY <1>1 DEF IInv, TypeOK
<1>3. k \in 0..4 /\ pos = start + k
  BY <1>2 DEF IInv, Halves, written
<1>4. Len(buffer) - Len(before) = k + 1
  BY DEF IInv, Around
<1>5. /\ value \in 0..127 /\ value \in 0..Limit(k) /\ buffer[pos + 1] = value
      /\ \A i \in 1..k : Continues(buffer[start + i])
  BY DEF IInv, Halves
<1> HIDE DEF k
<1>6. /\ n \in 1..MaxVarIntBytes /\ p + n - 1 = pos + 1 /\ n - 1 = k
      /\ p + n = pos + 2 /\ p \in Nat \ {0}
  BY <1>2, <1>3 DEF MaxVarIntBytes
<1>7. EndsAfter(buffer, p, n)
  <2>1. p + n - 1 <= Len(buffer)
    BY <1>2, <1>3, <1>4
  <2>2. ~Continues(buffer[p + n - 1])
    BY <1>5, <1>6 DEF Continues
  <2>3. ASSUME NEW i \in 1..(n - 1) PROVE Continues(buffer[p + i - 1])
    <3>1. p + i - 1 = start + i /\ i \in 1..k
      BY <1>2, <1>6
    <3> QED BY <1>5, <3>1
  <2> QED BY <2>1, <2>2, <2>3 DEF EndsAfter
<1>8. ASSUME NEW m \in 1..MaxVarIntBytes, EndsAfter(buffer, p, m) PROVE m = n
  <2>1. m \in Nat /\ n \in Nat /\ m >= 1 /\ n >= 1
    BY <1>6 DEF MaxVarIntBytes
  <2>2. ~(m < n)
    BY <1>7, <1>8, <2>1 DEF EndsAfter
  <2>3. ~(n < m)
    BY <1>7, <1>8, <2>1 DEF EndsAfter
  <2> QED BY <2>1, <2>2, <2>3
<1>9. (CHOOSE m \in 1..MaxVarIntBytes : EndsAfter(buffer, p, m)) = n
  BY <1>6, <1>7, <1>8
<1>10. At(p) \in Iterator /\ At(p).st = "ok" /\ At(p).pos = p
  BY <1>6 DEF At, Iterator, Outcome
<1> DEFINE D(i) == SegmentAt(buffer, p, n, i)
<1>11. VarIntValue(buffer, p, n) = input
  <2>1. ASSUME NEW i \in 1..5
        PROVE  /\ i <= k => D(i) = SegmentAt(buffer, p, k, i) /\ D(i) \in Int
               /\ i = k + 1 => D(i) = value /\ SegmentAt(buffer, p, k, i) = 0
               /\ i > k + 1 => D(i) = 0 /\ SegmentAt(buffer, p, k, i) = 0
    <3> DEFINE b == buffer[start + i]
    <3>1. p + i - 1 = start + i
      BY <1>2
    <3>2. /\ SegmentAt(buffer, p, k, i) = IF i <= k THEN b % 128 ELSE 0
          /\ D(i) = IF i <= k + 1 THEN b % 128 ELSE 0
      BY <3>1 DEF SegmentAt
    <3>3. ASSUME i <= k + 1 PROVE b \in Nat /\ b % 128 \in Int
      <4>1. start + i \in 1..Len(buffer)
        BY <1>2, <1>3, <1>4, <3>3
      <4>2. buffer[start + i] \in Byte
        BY <1>1, <4>1, ElementOfSeq
      <4>3. b \in Nat
        BY <4>2 DEF Byte
      <4> HIDE DEF b
      <4>4. b % 128 \in 0..127
        BY <4>3, Division
      <4> QED BY <4>3, <4>4
    <3>4. ASSUME i = k + 1 PROVE b % 128 = value
      <4>1. start + i = pos + 1
        BY <1>2, <1>3, <3>4
      <4>2. b = value
        BY <1>5, <4>1
      <4>3. value % 128 = value
        BY <1>5, SMT
      <4> HIDE DEF b
      <4> QED BY <4>2, <4>3
    <3> HIDE DEF b
    <3> QED BY <1>3, <3>2, <3>3, <3>4
  <2>2. /\ 1 \in 1..5 /\ 2 \in 1..5 /\ 3 \in 1..5 /\ 4 \in 1..5 /\ 5 \in 1..5
    OBVIOUS
  <2>3. TopNibble(0) = 0 /\ (value \in 0..7 => TopNibble(value) = value)
    BY SMT DEF TopNibble
  <2> DEFINE s1 == SegmentAt(buffer, p, k, 1)  s2 == SegmentAt(buffer, p, k, 2)
             s3 == SegmentAt(buffer, p, k, 3)  s4 == SegmentAt(buffer, p, k, 4)
             t1 == D(1)  t2 == D(2)  t3 == D(3)  t4 == D(4)  t5 == D(5)
             top == TopNibble(t5)
  <2>4. input = s1 + 128 * s2 + 16384 * s3 + 2097152 * s4 + Weight(k) * value
    BY DEF IInv, Halves, Digit, k
  <2>5. VarIntValue(buffer, p, n)
          = t1 + 128 * t2 + 16384 * t3 + 2097152 * t4 + 268435456 * top
    BY SMT DEF VarIntValue
  <2>6. value \in Int
    BY <1>5
  <2>7. input = t1 + 128 * t2 + 16384 * t3 + 2097152 * t4 + 268435456 * top
    <3>1. CASE k = 0
      <4>1. t1 = value /\ s1 = 0 /\ t2 = 0 /\ s2 = 0 /\ t3 = 0 /\ s3 = 0
            /\ t4 = 0 /\ s4 = 0 /\ t5 = 0
        BY <2>1, <2>2, <3>1
      <4>2. top = 0
        BY <4>1, <2>3
      <4> HIDE DEF s1, s2, s3, s4, t1, t2, t3, t4, t5, top
      <4> QED BY <2>4, <2>6, <3>1, <4>1, <4>2, Weights, SMT
    <3>2. CASE k = 1
      <4>1. t1 = s1 /\ s1 \in Int /\ t2 = value /\ s2 = 0 /\ t3 = 0 /\ s3 = 0
            /\ t4 = 0 /\ s4 = 0 /\ t5 = 0
        BY <2>1, <2>2, <3>2
      <4>2. top = 0
        BY <4>1, <2>3
      <4> HIDE DEF s1, s2, s3, s4, t1, t2, t3, t4, t5, top
      <4> QED BY <2>4, <2>6, <3>2, <4>1, <4>2, Weights, SMT
    <3>3. CASE k = 2
      <4>1. t1 = s1 /\ s1 \in Int /\ t2 = s2 /\ s2 \in Int /\ t3 = value /\ s3 = 0
            /\ t4 = 0 /\ s4 = 0 /\ t5 = 0
        BY <2>1, <2>2, <3>3
      <4>2. top = 0
        BY <4>1, <2>3
      <4> HIDE DEF s1, s2, s3, s4, t1, t2, t3, t4, t5, top
      <4> QED BY <2>4, <2>6, <3>3, <4>1, <4>2, Weights, SMT
    <3>4. CASE k = 3
      <4>1. t1 = s1 /\ s1 \in Int /\ t2 = s2 /\ s2 \in Int /\ t3 = s3 /\ s3 \in Int
            /\ t4 = value /\ s4 = 0 /\ t5 = 0
        BY <2>1, <2>2, <3>4
      <4>2. top = 0
        BY <4>1, <2>3
      <4> HIDE DEF s1, s2, s3, s4, t1, t2, t3, t4, t5, top
      <4> QED BY <2>4, <2>6, <3>4, <4>1, <4>2, Weights, SMT
    <3>5. CASE k = 4
      <4>1. t1 = s1 /\ s1 \in Int /\ t2 = s2 /\ s2 \in Int /\ t3 = s3 /\ s3 \in Int
            /\ t4 = s4 /\ s4 \in Int /\ t5 = value
        BY <2>1, <2>2, <3>5
      <4>2. Limit(4) = 7
        BY Limits, SMT
      <4>3. value \in 0..7
        BY <1>5, <3>5, <4>2
      <4>4. top = value
        BY <4>1, <4>3, <2>3
      <4> HIDE DEF s1, s2, s3, s4, t1, t2, t3, t4, t5, top
      <4> QED BY <2>4, <2>6, <3>5, <4>1, <4>4, Weights, SMT
    <3> QED BY <1>3, <3>1, <3>2, <3>3, <3>4, <3>5, SMT
  <2> QED BY <2>5, <2>7, SMT
<1>12. readVarInt(buffer)[At(p)] = [st |-> "ok", pos |-> pos + 2, val |-> input]
  BY <1>6, <1>7, <1>9, <1>10, <1>11 DEF readVarInt
<1>13. SubSeq(buffer, 1, start) = SubSeq(before, 1, start)
  <2>1. \A x \in 1..start : buffer[x] = before[x + (1 - 1)]
    BY <1>2 DEF IInv, Around
  <2>2. start \in 0..Len(buffer) /\ start \in 0..Len(before) /\ 1 <= start + 1
        /\ 1 \in Nat \ {0}
    BY <1>2, <1>3, <1>4
  <2> QED BY <1>1, <2>1, <2>2, SameParts
<1>14. SubSeq(buffer, pos + 2, Len(buffer)) = SubSeq(before, start + 1, Len(before))
  <2> DEFINE i == pos + 2  j == start + 1  e == Len(buffer)  f == Len(before)
  <2>1. /\ i \in Nat \ {0} /\ j \in Nat \ {0} /\ e \in 0..Len(buffer)
        /\ f \in 0..Len(before) /\ e - i = f - j /\ i <= e + 1
    BY <1>2, <1>3, <1>4
  <2>2. ASSUME NEW x \in i..e PROVE buffer[x] = before[x + (j - i)]
    <3> DEFINE y == x + (j - i)
    <3>1. y \in (start + 1)..Len(before) /\ x = y + (Len(buffer) - Len(before))
      BY <1>2, <1>3, <1>4
    <3>2. buffer[y + (Len(buffer) - Len(before))] = before[y]
      BY <3>1 DEF IInv, Around
    <3> QED BY <3>1, <3>2
  <2>3. \A x \in i..e : buffer[x] = before[x + (j - i)]
    BY <2>2
  <2> HIDE DEF i, j, e, f
  <2>4. SubSeq(buffer, i, e) = SubSeq(before, j, f)
    BY <1>1, <2>1, <2>3, SameParts
  <2> QED BY <2>4 DEF i, j, e, f
<1> QED BY <1>12, <1>13, <1>14 DEF ReadsBack

\* What writeVarInt put at a position, in front of, between or behind the
\* bytes of a packet, readVarInt reads back, and it moved those bytes intact.
THEOREM AlwaysReadsBack == Spec => []ReadsBack
<1>1. IInv => ReadsBack
  BY WrittenReadsBack DEF ReadsBack
<1> QED BY <1>1, HalvesHold, PTL

-----------------------------------------------------------------------------
(* Positions.                                                              *)

\* However it was reached, the number is the one that Assign packs of what the
\* coordinates were last set to.
PositionInv ==
  /\ set = [x |-> set.x, z |-> set.z, y |-> set.y]
  /\ set.x \in Int /\ set.z \in Int /\ set.y \in Int
  /\ m_positions = Pack(set.x, set.z, set.y)

-----------------------------------------------------------------------------
(* Arithmetic.                                                             *)

\* The fields are not empty.
LEMMA Sides == Wide \in Nat \ {0} /\ Narrow \in Nat \ {0}
  BY WideAssumption, NarrowAssumption

\* What a mask leaves.
LEMMA Remainder ==
  ASSUME NEW n \in Nat \ {0}, NEW i \in Int
  PROVE  i % n \in 0..(n - 1) /\ i \div n \in Int /\ i = n * (i \div n) + (i % n)
  BY SMT

\* Quotient and remainder are unique.
LEMMA DivisionUnique ==
  ASSUME NEW n \in Nat \ {0}, NEW q \in Int, NEW r \in 0..(n - 1)
  PROVE  (n * q + r) \div n = q /\ (n * q + r) % n = r
  BY SMT

\* Reading a field back and masking it again changes nothing.
LEMMA Remasked ==
  ASSUME NEW n \in Nat \ {0}, NEW f \in 0..(n - 1)
  PROVE  Masked(Extended(f, n), n) = f
<1>1. (n * 0 + f) % n = f
  BY DivisionUnique
<1>2. (n * (-1) + f) % n = f
  BY DivisionUnique
<1>3. n * 0 + f = f /\ n * (-1) + f = f - n
  OBVIOUS
<1> QED
  BY <1>1, <1>2, <1>3 DEF Masked, Extended

\* A value that a field can hold comes out of it as it went in.
LEMMA Held ==
  ASSUME NEW n \in Nat \ {0}, NEW v \in Int, Holds(v, n)
  PROVE  Extended(Masked(v, n), n) = v
<1>1. -n <= 2 * v /\ 2 * v < n
  BY DEF Holds
<1>2. CASE v >= 0
  <2>1. v \in 0..(n - 1) /\ n * 0 + v = v
    BY <1>1, <1>2
  <2>2. v % n = v
    BY <2>1, DivisionUnique
  <2> QED
    BY <1>1, <2>2 DEF Masked, Extended
<1>3. CASE v < 0
  <2> DEFINE r == v + n
  <2>1. r \in 0..(n - 1) /\ n * (-1) + r = v
    BY <1>1, <1>3
  <2> HIDE DEF r
  <2>2. (n * (-1) + r) % n = r
    BY <2>1, DivisionUnique
  <2>3. Masked(v, n) = v + n
    BY <2>1, <2>2 DEF Masked, r
  <2> QED
    BY <1>1, <2>3 DEF Extended
<1> QED
  BY <1>2, <1>3

\* The three fields of a packed number.
LEMMA Unpacked ==
  ASSUME NEW x \in Int, NEW z \in Int, NEW y \in Int, NEW p, p = Pack(x, z, y)
  PROVE  /\ GetX(p) = Extended(Masked(x, Wide), Wide)
         /\ GetZ(p) = Extended(Masked(z, Wide), Wide)
         /\ GetY(p) = Extended(Masked(y, Narrow), Narrow)
<1> DEFINE a == Masked(x, Wide)
           b == Masked(z, Wide)
           c == Masked(y, Narrow)
           q == Wide * a + b
<1>1. a \in 0..(Wide - 1) /\ b \in 0..(Wide - 1) /\ c \in 0..(Narrow - 1)
  BY Sides, Remainder DEF Masked
<1>2. p = a * (Wide * Narrow) + b * Narrow + c
  BY DEF Pack
<1> HIDE DEF a, b, c
<1>3. q \in Int
  BY <1>1, Sides
<1>4. p = Narrow * q + c
  BY <1>1, <1>2, Sides
<1>5. q \div Wide = a /\ q % Wide = b
  BY <1>1, Sides, DivisionUnique
<1> HIDE DEF q
<1>6. p \div Narrow = q /\ p % Narrow = c
  BY <1>1, <1>3, <1>4, Sides, DivisionUnique
<1> QED
  BY <1>5, <1>6 DEF GetX, GetZ, GetY, a, b, c

\* Packing a coordinate again that was read back packs what it was set to.
LEMMA Repacked ==
  ASSUME NEW x \in Int, NEW z \in Int, NEW y \in Int, NEW p, p = Pack(x, z, y)
  PROVE  /\ \A v : Pack(v, GetZ(p), GetY(p)) = Pack(v, z, y)
         /\ \A v : Pack(GetX(p), v, GetY(p)) = Pack(x, v, y)
         /\ \A v : Pack(GetX(p), GetZ(p), v) = Pack(x, z, v)
<1>1. /\ Masked(x, Wide) \in 0..(Wide - 1)
      /\ Masked(z, Wide) \in 0..(Wide - 1)
      /\ Masked(y, Narrow) \in 0..(Narrow - 1)
  BY Sides, Remainder DEF Masked
<1>2. /\ Masked(GetX(p), Wide) = Masked(x, Wide)
      /\ Masked(GetZ(p), Wide) = Masked(z, Wide)
      /\ Masked(GetY(p), Narrow) = Masked(y, Narrow)
  BY <1>1, Sides, Unpacked, Remasked
<1> QED
  BY <1>2 DEF Pack

-----------------------------------------------------------------------------
(* Steps.                                                                  *)

\* PositionInv holds at first.
LEMMA PositionBegins == PositionInit => PositionInv
  BY CoordinatesAssumption DEF PositionInit, PositionInv

\* Every step preserves it.
LEMMA PositionStep == PositionInv /\ [PositionNext]_positionVars => PositionInv'
<1> SUFFICES ASSUME PositionInv, [PositionNext]_positionVars PROVE PositionInv'
  OBVIOUS
<1> DEFINE p == m_positions
<1>1. set.x \in Int /\ set.z \in Int /\ set.y \in Int /\ p = Pack(set.x, set.z, set.y)
  BY DEF PositionInv
<1>2. ASSUME NEW x \in Xs, NEW z \in Xs, NEW y \in Ys, Assign(x, z, y) PROVE PositionInv'
  BY <1>2, CoordinatesAssumption DEF Assign, PositionInv
<1>3. ASSUME NEW x \in Xs, SetX(x) PROVE PositionInv'
  <2>1. m_positions' = Pack(x, set.z, set.y)
    BY <1>1, <1>3, Repacked DEF SetX
  <2>2. set' = [x |-> x, z |-> set.z, y |-> set.y]
    BY <1>3 DEF SetX, PositionInv
  <2> QED
    BY <1>1, <2>1, <2>2, CoordinatesAssumption DEF PositionInv
<1>4. ASSUME NEW z \in Xs, SetZ(z) PROVE PositionInv'
  <2>1. m_positions' = Pack(set.x, z, set.y)
    BY <1>1, <1>4, Repacked DEF SetZ
  <2>2. set' = [x |-> set.x, z |-> z, y |-> set.y]
    BY <1>4 DEF SetZ, PositionInv
  <2> QED
    BY <1>1, <2>1, <2>2, CoordinatesAssumption DEF PositionInv
<1>5. ASSUME NEW y \in Ys, SetY(y) PROVE PositionInv'
  <2>1. m_positions' = Pack(set.x, set.z, y)
    BY <1>1, <1>5, Repacked DEF SetY
  <2>2. set' = [x |-> set.x, z |-> set.z, y |-> y]
    BY <1>5 DEF SetY, PositionInv
  <2> QED
    BY <1>1, <2>1, <2>2, CoordinatesAssumption DEF PositionInv
<1>6. CASE UNCHANGED positionVars
  BY <1>6 DEF positionVars, PositionInv
<1> QED
  BY <1>2, <1>3, <1>4, <1>5, <1>6 DEF PositionNext

\* Whatever was set before and in whichever order, by Assign or by a setter, a
\* coordinate that its field can hold is read back as it was last set.
THEOREM Kept == PositionSpec => []CoordinatesKept
<1>1. ASSUME PositionInv PROVE CoordinatesKept
  <2>1. /\ set.x \in Int /\ set.z \in Int /\ set.y \in Int
        /\ m_positions = Pack(set.x, set.z, set.y)
    BY <1>1 DEF PositionInv
  <2>2. /\ GetX(m_positions) = Extended(Masked(set.x, Wide), Wide)
        /\ GetZ(m_positions) = Extended(Masked(set.z, Wide), Wide)
        /\ GetY(m_positions) = Extended(Masked(set.y, Narrow), Narrow)
    BY <2>1, Unpacked
  <2> QED
    BY <2>1, <2>2, Sides, Held DEF CoordinatesKept
<1> QED
  BY <1>1, PositionBegins, PositionStep, PTL DEF PositionSpec
=============================================================================
