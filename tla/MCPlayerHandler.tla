--------------------------- MODULE MCPlayerHandler ---------------------------
(***************************************************************************)
(* PlayerHandler for TLC, with an arbitrary client over a small alphabet.  *)
(* The segments are both handshakes, known packs, five bytes of an endless *)
(* VarInt, and every byte string of up to MaxNoise bytes of Alphabet:      *)
(* packets cut in two, two packets in one segment, sizes that lie and plain *)
(* garbage.                                                                *)
(***************************************************************************)
EXTENDS PlayerHandler, SequencesExt

CONSTANTS Alphabet, MaxNoise

ToStatus == <<5, 0, 1, 0, 9, 9, 1>>
ToLogin  == <<6, 0, 1, 0, 9, 9, 2>>
Packs    == <<5, 7, 1, 0, 0, 0>>                 \* of empty strings

Noise == UNION {[1..n -> Alphabet] : n \in 1..MaxNoise}
Torn    == <<255, 255, 255, 255, 255>>          \* no VarInt ends here
MCSegments == {ToStatus, ToLogin, Packs, Torn} \cup Noise

\* Behind the buffer: nothing mapped, or bytes that form packets.
MCBeyond == {<< >>, <<0, 2, 3>>}
=============================================================================
