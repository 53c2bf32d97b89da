-------------------------------- MODULE Wire --------------------------------
(***************************************************************************)
(* How the server reads a client's bytes: the cursor reads of              *)
(* include/utils.h, the packet constructors of include/ClientPackets.h and *)
(* the NextPacket* functions of include/PlayerHandler.h.                   *)
(*                                                                         *)
(* All of them share one iterator, passed by reference and never compared  *)
(* with an end.  Here an iterator is the record [st, pos, val]: st says    *)
(* whether the reads so far succeeded, threw a C++ exception or left       *)
(* mapped memory, pos is the 1-based index of the next byte, and val is    *)
(* what the last read returned.  Memory is a finite sequence of bytes;     *)
(* reading behind its end faults.  What a field contains is abstracted to  *)
(* what steers the program: a string to its length, a blob to nothing.     *)
(* A read is a function from the iterator before it to the one after it.   *)
(***************************************************************************)
EXTENDS Integers, Sequences

CONSTANTS UuidSize,     \* bytes of a util::uuid (16)
          PayloadSize   \* bytes of a ping payload (8)

ASSUME UuidSizeAssumption == UuidSize \in Nat
ASSUME PayloadSizeAssumption == PayloadSize \in Nat \ {0}

Byte == 0..255
Outcome == {"ok", "throw", "fault"}
Iterator == [st : Outcome, pos : Nat \ {0}, val : Int]

\* packets.begin() and the iterator after a read that advanced it to p.
At(p) == [st |-> "ok", pos |-> p, val |-> 0]
Failed(it, how) == [st |-> how, pos |-> it.pos, val |-> 0]

-----------------------------------------------------------------------------
(* util::readVarInt: 7 bits a byte, least significant first, at most five  *)
(* bytes; a fifth byte that asks for a sixth throws.                       *)

Continues(b) == b >= 128                       \* b & CONTINUE_BIT
MaxVarIntBytes == 5

\* The bytes of the VarInt at p that lie in memory, if it ends there.
EndsAfter(mem, p, n) ==
  /\ p + n - 1 <= Len(mem)
  /\ ~Continues(mem[p + n - 1])
  /\ \A k \in 1..(n - 1) : Continues(mem[p + k - 1])

\* The five shifted segments or-ed into a 32-bit int: of the last one only
\* four bits remain, the highest of them the sign.
SegmentAt(mem, p, n, k) == IF k <= n THEN mem[p + k - 1] % 128 ELSE 0
TopNibble(b) == IF b % 16 < 8 THEN b % 16 ELSE (b % 16) - 16
VarIntValue(mem, p, n) ==
  SegmentAt(mem, p, n, 1) + 128 * SegmentAt(mem, p, n, 2)
    + 16384 * SegmentAt(mem, p, n, 3) + 2097152 * SegmentAt(mem, p, n, 4)
    + 268435456 * TopNibble(SegmentAt(mem, p, n, 5))

readVarInt(mem) ==
  [it \in Iterator |->
     LET p == it.pos
         n == CHOOSE m \in 1..MaxVarIntBytes : EndsAfter(mem, p, m)
     IN  IF it.st # "ok" THEN it
         ELSE IF \E m \in 1..MaxVarIntBytes : EndsAfter(mem, p, m)
                THEN [st |-> "ok", pos |-> p + n, val |-> VarIntValue(mem, p, n)]
         ELSE IF p + MaxVarIntBytes - 1 <= Len(mem)
                THEN Failed(it, "throw")        \* "VarInt too big"
                ELSE Failed(it, "fault")]

\* n bytes read one after the other, the iterator advanced by k of them.
readBytes(mem, n, k) ==
  [it \in Iterator |->
     IF it.st # "ok" THEN it
     ELSE IF n > Len(mem) - it.pos + 1 THEN Failed(it, "fault")
     ELSE At(it.pos + k)]

\* util::readString: a negative size makes std::string::append throw.
readString(mem) ==
  [it \in Iterator |->
     LET size == readVarInt(mem)[it]
     IN  IF size.st = "ok" /\ size.val < 0 THEN Failed(size, "throw")
         ELSE readBytes(mem, size.val, size.val)[size]]

-----------------------------------------------------------------------------
(* The packet constructors.                                                *)

\* HandshakePacket: version, address, two port bytes, requested next state.
HandshakePacket(mem, it) ==
  readVarInt(mem)[readBytes(mem, 2, 2)[readString(mem)[readVarInt(mem)[it]]]]

\* PingRequest reads *data and seven times *++data: the iterator stays ON the
\* last payload byte instead of passing it.
PingRequest(mem, it) == readBytes(mem, PayloadSize, PayloadSize - 1)[it]

\* LoginStartPacket: name, one byte taken for hasUUID, uuid.
LoginStartPacket(mem, it) ==
  readBytes(mem, UuidSize, UuidSize)[readBytes(mem, 1, 1)[readString(mem)[it]]]

\* KnownPacksPacket: a count that is read and dropped, then ONE pack.
KnownPacksPacket(mem, it) ==
  readString(mem)[readString(mem)[readString(mem)[readVarInt(mem)[it]]]]

-----------------------------------------------------------------------------
(* The NextPacket* functions: size, id, then the constructor the id names  *)
(* in this state.  The size is only compared with zero; it never bounds    *)
(* what the constructor reads.                                             *)

States == {"IDLE", "STATUS", "LOGIN", "CONFIG", "PLAY"}
Kinds == {"Handshake", "StatusRequest", "Ping", "LoginStart", "LoginAck",
          "AckConfig", "KnownPacks"}

\* The packet an id names in each state; every other id is invalid there.
KindOf(state, id) ==
  CASE state = "IDLE"   /\ id = 0 -> "Handshake"
    [] state = "STATUS" /\ id = 0 -> "StatusRequest"
    [] state = "STATUS" /\ id = 1 -> "Ping"
    [] state = "LOGIN"  /\ id = 0 -> "LoginStart"
    [] state = "LOGIN"  /\ id = 3 -> "LoginAck"
    [] state = "CONFIG" /\ id = 3 -> "AckConfig"
    [] state = "CONFIG" /\ id = 7 -> "KnownPacks"
    [] OTHER -> "null"

Construct(kind, mem, it) ==
  CASE kind = "Handshake"  -> HandshakePacket(mem, it)
    [] kind = "Ping"       -> PingRequest(mem, it)
    [] kind = "LoginStart" -> LoginStartPacket(mem, it)
    [] kind = "KnownPacks" -> KnownPacksPacket(mem, it)
    [] OTHER -> it

\* if (packetSize == 0) return nullptr.
NoPacketMutant(size) == size.st # "ok"               \* the check forgotten
NoPacket(size) == size.st # "ok" \/ size.val = 0

\* The next packet of this state at it: [kind, it], kind "null" for the
\* nullptr of a zero size or an invalid id, and for a read that failed.
NextPacket(state, mem, it) ==
  LET size == readVarInt(mem)[it]
      id   == readVarInt(mem)[size]
      kind == KindOf(state, id.val)
      done == Construct(kind, mem, id)
  IN  IF NoPacket(size) THEN [kind |-> "null", it |-> size]
      ELSE IF id.st # "ok" THEN [kind |-> "null", it |-> id]
      ELSE IF done.st # "ok" THEN [kind |-> "null", it |-> done]
      ELSE [kind |-> kind, it |-> done]
=============================================================================
