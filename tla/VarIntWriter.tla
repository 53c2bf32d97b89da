---------------------------- MODULE VarIntWriter ----------------------------
(***************************************************************************)
(* util::writeVarInt, both overloads, as the loop they are: one byte an    *)
(* iteration, the low seven bits first, put behind the bytes written       *)
(* before.  Serializers append; OnPing and OnConfig insert the size of a   *)
(* finished packet in front of it, through the overload with a position.   *)
(***************************************************************************)
EXTENDS Wire

CONSTANTS Values,     \* the ints to write, none negative
          Buffers     \* what the buffer may hold before

MaxInt == 2147483647

ASSUME ValuesAssumption == Values \subseteq 0..MaxInt
ASSUME BuffersAssumption == Buffers \subseteq Seq(Byte)

VARIABLES
  input,      \* the value argument
  before,     \* the buffer the call found
  start,      \* the position argument, 0 for the front
  value,      \* the local copy that is shifted right
  pos,        \* bytes of the buffer in front of the next one
  buffer,
  done

vars == <<input, before, start, value, pos, buffer, done>>

TypeOK ==
  /\ input \in Values
  /\ before \in Buffers
  /\ start \in 0..Len(before)
  /\ value \in 0..MaxInt
  /\ pos \in Nat
  /\ buffer \in Seq(Byte)
  /\ done \in BOOLEAN

\* The overload without a position is the one with the end of the buffer.
Init ==
  /\ input \in Values
  /\ before \in Buffers
  /\ start \in 0..Len(before)
  /\ value = input
  /\ pos = start
  /\ buffer = before
  /\ done = FALSE

\* buffer.insert(buffer.begin() + pos, byte)
InsertAt(s, p, byte) == SubSeq(s, 1, p) \o <<byte>> \o SubSeq(s, p + 1, Len(s))

\* (value & ~SEGMENT_BIT) == 0
FitsMutant(v) == v = 0                      \* ends only on zero
Fits(v) == v \in 0..127

Last ==
  /\ ~done /\ Fits(value)
  /\ buffer' = InsertAt(buffer, pos, value)
  /\ done' = TRUE
  /\ UNCHANGED <<input, before, start, value, pos>>

MoreStuckMutant ==                          \* ++pos forgotten
  /\ ~done /\ ~Fits(value)
  /\ buffer' = InsertAt(buffer, pos, (value % 128) + 128)
  /\ value' = value \div 128
  /\ UNCHANGED <<input, before, start, pos, done>>

\* value >>= 7 is arithmetic: a negative value never becomes zero.
More ==
  /\ ~done /\ ~Fits(value)
  /\ buffer' = InsertAt(buffer, pos, (value % 128) + 128)
  /\ value' = value \div 128
  /\ pos' = pos + 1
  /\ UNCHANGED <<input, before, start, done>>

Next == Last \/ More

Spec == Init /\ [][Next]_vars

-----------------------------------------------------------------------------
(* Properties.                                                             *)

\* util::readVarInt reads back from there the value that was written, and
\* the bytes around it are the ones that were there.
ReadsBack ==
  done =>
    /\ readVarInt(buffer)[At(start + 1)]
         = [st |-> "ok", pos |-> pos + 2, val |-> input]
    /\ SubSeq(buffer, 1, start) = SubSeq(before, 1, start)
    /\ SubSeq(buffer, pos + 2, Len(buffer)) = SubSeq(before, start + 1, Len(before))

\* No int that is not negative takes more bytes than readVarInt accepts, at
\* any moment of the loop: it ends.  A negative int would be written without
\* end: the program writes none, and Values holds none.
NeverTooLong == pos - start < MaxVarIntBytes
=============================================================================
