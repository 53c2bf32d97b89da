------------------------------- MODULE Framing -------------------------------
(***************************************************************************)
(* Where the client thinks a message ends.  Every packet starts with its   *)
(* size, which most packet classes of include/ServerPackets.h add up field *)
(* by field in Size(), away from the Serializer that writes the fields.    *)
(* Both sides are translated here, and the messages of a session are sent  *)
(* in the order SessionContract allows.                                    *)
(*                                                                         *)
(* The only size that depends on the client is that of LoginSuccess, which *)
(* repeats the name of the LoginStart it answers.                          *)
(***************************************************************************)
EXTENDS SessionContract

\* Lengths up to here have a VarInt of at most three bytes.
MaxLength == 2097151

CONSTANT NameLengths    \* lengths of the names clients log in with

ASSUME NameLengthsAssumption == NameLengths \subseteq 0..MaxLength

VARIABLES
  echoed,    \* lengths of the names sent back so far
  aligned    \* every size sent so far was the size of what followed it

framing == <<vars, echoed, aligned>>

-----------------------------------------------------------------------------
(* Sizes: what util::sizeOfVarInt says and what util::writeVarInt writes.  *)

sizeOfVarIntMutant(i) == IF i < 127 THEN 1 ELSE 1 + (i \div 127)
sizeOfVarInt(i) == IF i < 127 THEN 1 ELSE i \div 127
sizeOfString(length) == sizeOfVarInt(length) + length

\* Values up to three bytes, more than any size or length of the program.
VarIntBytes(i) == IF i < 128 THEN 1 ELSE IF i < 16384 THEN 2 ELSE 3
StringBytes(length) == VarIntBytes(length) + length

\* The lengths of the strings the packets hold, and sizeof of their fields.
StatusLength == 292     \* the status document
Namespace == 9          \* the known pack
Core == 4
Version == 6
Overworld == 19         \* the dimensions
Nether == 16
Byte == 1
Int32 == 4
Float == 4
Long == 8
Double == 8
Uuid == 16

-----------------------------------------------------------------------------
(* What each packet announces: its Size(), and what its serializer adds.   *)

LoginSuccessSize(name) == Uuid + sizeOfString(name) + sizeOfVarInt(0)

KnownPacksSize ==
  2 + sizeOfString(Namespace) + sizeOfString(Core) + sizeOfString(Version)

LoginPlaySize ==
  1 + Int32 + Byte
    + sizeOfVarInt(2) + sizeOfString(Overworld) + sizeOfString(Nether)
    + sizeOfVarInt(32) + sizeOfVarInt(16) + sizeOfVarInt(16) + 3 * Byte
    + sizeOfVarInt(0) + sizeOfString(Overworld)
    + Long + 5 * Byte + sizeOfVarInt(1) + sizeOfVarInt(100) + Byte

SyncSize == 1 + sizeOfVarInt(0) + 6 * Double + 2 * Float + Int32

Announced(type, name) ==
  CASE type = "LoginSuccess" -> LoginSuccessSize(name) + 1
    [] type = "Status"       -> 1 + sizeOfString(StatusLength)
    [] type = "KnownPacks"   -> KnownPacksSize
    [] type = "Finish"       -> 1
    [] type = "LoginPlay"    -> LoginPlaySize
    [] type = "GameEvent"    -> 1 + Byte + Float
    [] type = "Sync"         -> SyncSize

-----------------------------------------------------------------------------
(* What each serializer writes behind the size, the id first.              *)

LoginSuccessBytes(name) ==
  VarIntBytes(2) + Uuid + StringBytes(name) + VarIntBytes(0)

KnownPacksBytes ==
  VarIntBytes(14) + VarIntBytes(1)
    + StringBytes(Namespace) + StringBytes(Core) + StringBytes(Version)

LoginPlayBytes ==
  VarIntBytes(43) + Int32 + Byte
    + VarIntBytes(2) + StringBytes(Overworld) + StringBytes(Nether)
    + VarIntBytes(32) + VarIntBytes(16) + VarIntBytes(16) + Byte + Byte + Byte
    + VarIntBytes(0) + StringBytes(Overworld) + Long + Byte + Byte
    + Byte + Byte + Byte                        \* no death location follows
    + VarIntBytes(1) + VarIntBytes(100) + Byte

SyncBytes ==
  VarIntBytes(65) + VarIntBytes(0) + Double + Double + Double
    + Double + Double + Double + Float + Float + Int32

Written(type, name) ==
  CASE type = "LoginSuccess" -> LoginSuccessBytes(name)
    [] type = "Status"       -> VarIntBytes(0) + StringBytes(StatusLength)
    [] type = "KnownPacks"   -> KnownPacksBytes
    [] type = "Finish"       -> VarIntBytes(3)
    [] type = "LoginPlay"    -> LoginPlayBytes
    [] type = "GameEvent"    -> VarIntBytes(34) + Byte + Float
    [] type = "Sync"         -> SyncBytes

-----------------------------------------------------------------------------
FramingInit == Init /\ echoed = {} /\ aligned = TRUE

\* A packet put together from its fields.
Serialize(name) ==
  /\ Deliver
  /\ sent'.type \notin {"Pong", "Chunk", "ChunkCenter", "Registry"}
  /\ echoed' = IF sent'.type = "LoginSuccess" THEN echoed \cup {name} ELSE echoed
  /\ aligned' = (aligned /\ Announced(sent'.type, name) = Written(sent'.type, name))

\* A finished vector, with its size in front: a pong, a chunk, the chunk
\* centre, and the registry packets, which are read from files.
ForwardVector ==
  /\ Deliver
  /\ sent'.type \in {"Pong", "Chunk", "ChunkCenter", "Registry"}
  /\ UNCHANGED <<echoed, aligned>>

FramingNext ==
  \/ \E name \in NameLengths : Serialize(name)
  \/ ForwardVector
  \/ Close /\ UNCHANGED <<echoed, aligned>>

FramingSpec == FramingInit /\ [][FramingNext]_framing

-----------------------------------------------------------------------------
(* Properties.                                                             *)

\* The client finds the start of every message, in every session, exactly
\* as long as no name of a length that sizeOfVarInt gets wrong was sent back:
\* from 128 to 253 it is one byte short, from 381 on it is too large.  Names
\* of the game are at most 16 long.
Aligned == aligned <=> \A n \in echoed : n \in 0..127 \cup 254..380
=============================================================================
