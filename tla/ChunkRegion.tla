----------------------------- MODULE ChunkRegion -----------------------------
(***************************************************************************)
(* loadChunkRegion: the table at the front of a region file, one int an    *)
(* entry, and the chunks it points at, each put where its own xPos and     *)
(* zPos say.  PlayerHandler sends the chunk at [0][0] to whoever joins.    *)
(* A chunk is known by the sector it lies in; inflating and parsing it     *)
(* either gives its position or throws.                                    *)
(***************************************************************************)
EXTENDS Integers

CONSTANTS Side,     \* chunks on a side of a region (32)
          Files     \* the region files that may be there, see FilesAssumption

ASSUME SideAssumption == Side \in Nat \ {0}

Byte == 0..255
Entries == 0..(Side * Side - 1)
Slots == (0..(Side - 1)) \X (0..(Side - 1))

\* The four bytes of an entry, as they lie in the file, and what parsing at a
\* sector yields.  For a file that is missing or too short the bytes are the
\* ones of the uninitialised chunkOffsets, and no sector holds a chunk.
Word == [1..4 -> Byte]
MaxSector == 524287          \* of a file below two gigabytes
ASSUME FilesAssumption ==
  \A f \in Files :
    /\ f.header \in [Entries -> Word]
    /\ DOMAIN f.chunks \subseteq 1..MaxSector
    /\ \A sector \in DOMAIN f.chunks : f.chunks[sector] \in [xPos : Int, zPos : Int]

Empty == -1          \* std::nullopt

VARIABLES
  file,
  entry,      \* the next element of chunkOffsets
  region,     \* out
  pc          \* "loading", "loaded", "threw", "wild": wrote outside out

vars == <<file, entry, region, pc>>

TypeOK ==
  /\ file \in Files
  /\ entry \in 0..(Side * Side)
  /\ region \in [Slots -> Int]
  /\ pc \in {"loading", "loaded", "threw", "wild"}

Init ==
  /\ file \in Files
  /\ entry = 0
  /\ region = [slot \in Slots |-> Empty]
  /\ pc = "loading"

\* int(byteswap(v & 0x00ffffff)) >> 8, v read by a little-endian machine, in
\* sectors: times 4096 it is an int again, which has room for 20 of the bits.
Sector(w) ==
  LET low == w[3] + 256 * w[2] + 65536 * (w[1] % 16)
  IN  IF low < 524288 THEN low ELSE low - 1048576

\* offset == 0 && chunk_size == 0
UnusedMutant(w) == FALSE                                \* the check forgotten
Unused(w) == Sector(w) = 0 /\ w[4] = 0

\* out[x][z], neither of them compared with Side: one address from the start.
CellSwappedMutant(x, z) == Side * z + x                 \* out[z][x]
CellRowMutant(x, z) == Side * x                         \* out[x][0]
Cell(x, z) == Side * x + z

offsetAndSize == file.header[entry]

Skip ==
  /\ pc = "loading" /\ entry \in Entries /\ Unused(offsetAndSize)
  /\ entry' = entry + 1
  /\ UNCHANGED <<file, region, pc>>

\* out[x][z].emplace(std::move(chunk)): a chunk that was there is replaced.
Load ==
  /\ pc = "loading" /\ entry \in Entries /\ ~Unused(offsetAndSize)
  /\ Sector(offsetAndSize) \in DOMAIN file.chunks
  /\ LET chunk == file.chunks[Sector(offsetAndSize)]
         cell  == Cell(chunk.xPos, chunk.zPos)
     IN  IF cell \in Entries
           THEN /\ region' = [region EXCEPT ![<<cell \div Side, cell % Side>>] = Sector(offsetAndSize)]
                /\ entry' = entry + 1
                /\ pc' = pc
           ELSE pc' = "wild" /\ UNCHANGED <<entry, region>>
  /\ UNCHANGED file

\* zstr, NBT::parse or Get<Int>("xPos") throws, out of the constructor.
LoadThrows ==
  /\ pc = "loading" /\ entry \in Entries /\ ~Unused(offsetAndSize)
  /\ Sector(offsetAndSize) \notin DOMAIN file.chunks
  /\ pc' = "threw"
  /\ UNCHANGED <<file, entry, region>>

Return ==
  /\ pc = "loading" /\ entry \notin Entries
  /\ pc' = "loaded"
  /\ UNCHANGED <<file, entry, region>>

Next == Skip \/ Load \/ LoadThrows \/ Return

Spec == Init /\ [][Next]_vars /\ WF_vars(Next)

-----------------------------------------------------------------------------
(* Properties.                                                             *)

\* What the format says, not the code: three bytes, the highest first, are
\* the sector, and the chunk of entry i is the one at Home(i).
Location(w) == 65536 * w[1] + 256 * w[2] + w[3]
Home(i) == [xPos |-> i % Side, zPos |-> i \div Side]
Absent(i) == \A k \in 1..4 : file.header[i][k] = 0

\* The file of the region at 0, 0, where every entry points at its chunk.
RegionAtOrigin ==
  \A i \in Entries :
    Absent(i) \/ /\ Location(file.header[i]) \in DOMAIN file.chunks
                 /\ file.chunks[Location(file.header[i])] = Home(i)

\* Once such a file is loaded out[x][z] holds the chunk the table has for
\* x, z, and nothing where the table has none: chunk_region[0][0] is the
\* chunk at the origin.
ChunksAtHome ==
  RegionAtOrigin /\ pc = "loaded" =>
    \A i \in Entries :
      region[<<i % Side, i \div Side>>]
        = IF Absent(i) THEN Empty ELSE Location(file.header[i])

\* No chunk of such a file takes the place of another.
KeepsChunks ==
  [][RegionAtOrigin =>
       \A slot \in Slots : region[slot] # Empty => region'[slot] = region[slot]]_vars

\* Such a file is loaded to its end; nothing throws and nothing is written
\* outside the region.
Loads == RegionAtOrigin ~> pc = "loaded"
=============================================================================
