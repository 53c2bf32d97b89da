----------------------------- MODULE ChunkPacket -----------------------------
(***************************************************************************)
(* The light of a chunk packet (PlayerHandler::OnConfig): four BitSets in  *)
(* which a loop marks the sections that have light, and then, behind them, *)
(* one array of light for each section.  A client pairs the arrays with    *)
(* the marks, in order.  A BitSet is known by the bits of its longs.       *)
(***************************************************************************)
EXTENDS Integers, Sequences, FiniteSets

CONSTANT Sections      \* sizes of "sections" in a region file

ASSUME SectionsAssumption == Sections \subseteq Nat

VARIABLES
  sections,   \* sections->Size()
  mask,       \* mask[m]: m_data, a sequence of longs, each the set of its bits
  arrays,     \* arrays[l]: the light sections whose arrays were written, in order
  idx,        \* the loop variable of the three loops
  pc          \* "masks", "sky", "block", "done"

lightVars == <<sections, mask, arrays, idx, pc>>

Lights == {"sky", "block"}
Masks == Lights \cup {"emptySky", "emptyBlock"}
\* One section below the chunk and one above it have light too.
LightSections == 0..(sections + 1)

-----------------------------------------------------------------------------
(* BitSet.                                                                 *)

BitSet(size) == [w \in 1..(size \div 64 + 1) |-> {}]

\* The bits of (long)(1 << n), a shift of an int: the sign of 1 << 31 fills
\* the upper half, and a shift by 32 or more is undefined: the processor takes
\* it modulo 32, a compiler that knows n may take it for zero.
Shifted(n) == IF n = 31 THEN 31..63 ELSE {n}
IntShifts(n) == IF n < 32 THEN {Shifted(n)} ELSE {Shifted(n % 32), {}}

\* Set(index, value), whatever the value.
WithBits(m, index, bits) == [m EXCEPT ![index \div 64 + 1] = @ \cup bits]

Bits(m) == UNION {{64 * (w - 1) + b : b \in m[w]} : w \in DOMAIN m}

-----------------------------------------------------------------------------
LightInit ==
  /\ sections \in Sections
  /\ mask = [m \in Masks |-> BitSet(sections + 2)]
  /\ arrays = [l \in Lights |-> <<>>]
  /\ idx = 0
  /\ pc = "masks"

\* for (idx : iota(0, sections->Size() + 2)) ...Set(idx, ...)
SetMasksMutant ==                           \* iota(0, sections->Size())
  /\ pc = "masks"
  /\ IF idx < sections
       THEN /\ \E bits \in IntShifts(idx % 64) :
                 mask' = [m \in Masks |-> WithBits(mask[m], idx, bits)]
            /\ idx' = idx + 1 /\ pc' = pc
       ELSE /\ idx' = 0 /\ pc' = "sky"
            /\ UNCHANGED mask
  /\ UNCHANGED <<sections, arrays>>
SetMasks ==
  /\ pc = "masks"
  /\ IF idx \in LightSections
       THEN /\ \E bits \in IntShifts(idx % 64) :
                 mask' = [m \in Masks |-> WithBits(mask[m], idx, bits)]
            /\ idx' = idx + 1 /\ pc' = pc
       ELSE /\ idx' = 0 /\ pc' = "sky"
            /\ UNCHANGED mask
  /\ UNCHANGED <<sections, arrays>>

\* for (idx : iota(0, sections->Size() + 2)) the array of section idx
WriteArrays(light, next) ==
  /\ pc = light
  /\ IF idx \in LightSections
       THEN /\ arrays' = [arrays EXCEPT ![light] = Append(@, idx)]
            /\ idx' = idx + 1 /\ pc' = pc
       ELSE /\ idx' = 0 /\ pc' = next
            /\ UNCHANGED arrays
  /\ UNCHANGED <<sections, mask>>

LightNext == SetMasks \/ WriteArrays("sky", "block") \/ WriteArrays("block", "done")

LightSpec == LightInit /\ [][LightNext]_lightVars

-----------------------------------------------------------------------------
\* What a client makes of it: the first array is for the lowest section that
\* is marked, and so on; for a mark without an array there is nothing to read.
Missing == -1
ClientLight(light) ==
  [s \in Bits(mask[light]) |->
     LET rank == Cardinality({r \in Bits(mask[light]) : r <= s})
     IN  IF rank <= Len(arrays[light]) THEN arrays[light][rank] ELSE Missing]

\* The client gives every section the light that was written for it, and no
\* other section any, exactly as long as the last long has at most 31 of the
\* marks: with 30 to 61 sections, the 32nd mark, by a shift of an int, fills it.
LightFindsHome ==
  pc = "done" =>
    ((\A light \in Lights : ClientLight(light) = [s \in LightSections |-> s])
       <=> (sections + 2) % 64 <= 31)
=============================================================================
