--------------------------- MODULE MCChunkRegion ---------------------------
(* Four entries, two sectors whose three bytes differ, positions inside and  *)
(* outside the region, and files whose table was never read.                 *)
EXTENDS ChunkRegion

W(a, b, c, size) == <<a, b, c, size>>
MCWords == {W(0, 0, 0, 0), W(0, 1, 2, 1), W(7, 5, 3, 255), W(255, 0, 9, 1)}
MCPositions == [xPos : -1..2, zPos : {0, 1}]
MCSectors == {258, 460035}

MCArchives == UNION {[s -> MCPositions] : s \in SUBSET MCSectors}
MCFiles == [header : [Entries -> MCWords], chunks : MCArchives]
=============================================================================
