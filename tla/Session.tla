------------------------------- MODULE Session -------------------------------
(***************************************************************************)
(* A connection with a client at the other end: PlayerHandler, a client    *)
(* that follows the protocol the handlers speak, and the two directions of *)
(* their TCP connection.                                                   *)
(*                                                                         *)
(* The client is external, modelled from what the handlers of              *)
(* src/PlayerHandler.cpp read and answer.  It sends well formed packets    *)
(* only, each when the protocol asks for it, and notices when the server   *)
(* sends something it cannot expect.  TCP carries bytes, and how far it    *)
(* respects the ends of packets is set by MayJoin and MaxTears.            *)
(***************************************************************************)
EXTENDS PlayerHandler

CONSTANTS
  Clients,    \* the identities a client may have, see Client
  MayJoin,    \* one Receive may return several packets
  MaxTears,   \* how many packets may be cut in two
  MaxInbox    \* messages in flight to the client before the play loop waits

ASSUME MayJoinAssumption == MayJoin \in BOOLEAN
ASSUME MaxTearsAssumption == MaxTears \in Nat
ASSUME MaxInboxAssumption == MaxInbox \in Nat \ {0}

VARIABLES
  self,       \* the client's identity
  client,     \* where the client is in the protocol
  said,       \* the kinds of packets the client has sent
  wire,       \* bytes on their way to the server
  ends,       \* the positions in wire where packets end
  inbox,      \* messages on their way to the client
  tears       \* packets cut so far

session == <<self, client, said, wire, ends, inbox, tears>>
allVars == <<vars, session>>

ClientStates == {"new", "greeted", "asking", "pinging", "pinged", "login",
                 "config", "play", "joined", "confused", "left"}

SessionTypeOK ==
  /\ self \in Clients
  /\ client \in ClientStates
  /\ said \subseteq Kinds
  /\ wire \in Seq(Byte)
  /\ ends \subseteq 1..Len(wire) /\ (wire # << >> => Len(wire) \in ends)
  /\ inbox \in Seq(Message)
  /\ tears \in 0..MaxTears

-----------------------------------------------------------------------------
(* The packets a client sends: size, id, fields.                           *)

Str(s) == <<Len(s)>> \o s
Frame(body) == <<Len(body)>> \o body
RequestedNext(c) == IF c.intent = "ping" THEN 1 ELSE 2

\* The known pack is "minecraft", "core", "1.21.8".
PacketBytes(c, kind) ==
  CASE kind = "Handshake"     -> Frame(<<0>> \o c.version \o Str(c.address)
                                         \o c.port \o <<RequestedNext(c)>>)
    [] kind = "StatusRequest" -> Frame(<<0>>)
    [] kind = "Ping"          -> Frame(<<1>> \o c.payload)
    [] kind = "LoginStart"    -> Frame(<<0>> \o Str(c.name) \o c.uuid)
    [] kind = "LoginAck"      -> Frame(<<3>>)
    [] kind = "KnownPacks"    -> Frame(<<7, 1>> \o Str([i \in 1..9 |-> 97])
                                         \o Str([i \in 1..4 |-> 97])
                                         \o Str([i \in 1..6 |-> 49]))
    [] kind = "AckConfig"     -> Frame(<<3>>)

\* The version is a VarInt; sizes are one byte, and no packet fills the
\* receive buffer.
ClientRecord(c) ==
  /\ c.intent \in {"play", "ping"}
  /\ {c.version, c.address, c.port, c.name, c.uuid, c.payload} \subseteq Seq(Byte)
  /\ Len(c.version) \in 1..MaxVarIntBytes /\ EndsAfter(c.version, 1, Len(c.version))
  /\ Len(c.port) = 2 /\ Len(c.uuid) = UuidSize /\ Len(c.payload) = PayloadSize
  /\ \A kind \in Kinds : /\ Len(PacketBytes(c, kind)) <= 128
                         /\ Len(PacketBytes(c, kind)) < PacketSize
ASSUME ClientsAssumption == \A c \in Clients : ClientRecord(c)

\* No VarInt can be read as the id of an acknowledgement, 3, except from an
\* acknowledgement: no other byte a client sends and none behind the buffer
\* has 3 in its low seven bits.
NoAck(bytes) == \A i \in 1..Len(bytes) : bytes[i] % 128 # 3
AcksUnmistakable ==
  /\ \A c \in Clients, kind \in Kinds \ {"LoginAck", "AckConfig"} : NoAck(PacketBytes(c, kind))
  /\ \A bytes \in Beyond : NoAck(bytes)

-----------------------------------------------------------------------------
(* The client.                                                             *)

SessionInit ==
  /\ Init
  /\ self \in Clients
  /\ client = "new"
  /\ said = {}
  /\ wire = << >> /\ ends = {}
  /\ inbox = << >>
  /\ tears = 0

\* The client sends a packet of this kind.
Say(kind) ==
  LET packet == PacketBytes(self, kind)
  IN  /\ said' = said \cup {kind}
      /\ wire' = wire \o packet
      /\ ends' = ends \cup {Len(wire) + Len(packet)}

ClientStarts ==
  /\ peerOpen
  /\ \/ client = "new" /\ Say("Handshake") /\ client' = "greeted"
     \/ /\ client = "greeted" /\ self.intent = "ping"
        /\ Say("StatusRequest") /\ client' = "asking"
     \/ /\ client = "greeted" /\ self.intent = "play"
        /\ Say("LoginStart") /\ client' = "login"
  /\ UNCHANGED <<vars, self, inbox, tears>>

\* What the client does with a message: the state it goes to and the packet
\* it answers with.
Silent == "nothing"
Reaction(state, m) ==
  CASE state = "asking"  /\ m.type = "Status"       -> <<"pinging", "Ping">>
    [] state = "pinging" /\ m.type = "Pong"         -> <<"pinged", Silent>>
    [] state = "login"   /\ m.type = "LoginSuccess" -> <<"config", "LoginAck">>
    [] state = "config"  /\ m.type = "KnownPacks"   -> <<"config", "KnownPacks">>
    [] state = "config"  /\ m.type = "Registry"     -> <<"config", Silent>>
    [] state = "config"  /\ m.type = "Finish"       -> <<"play", "AckConfig">>
    [] state = "play" /\ m.type \in {"LoginPlay", "GameEvent", "ChunkCenter", "Chunk"}
                                                    -> <<"play", Silent>>
    [] state \in {"play", "joined"} /\ m.type = "Sync" -> <<"joined", Silent>>
    [] OTHER                                        -> <<"confused", Silent>>

ClientHandles ==
  /\ peerOpen /\ inbox # << >> /\ client # "confused"
  /\ LET reaction == Reaction(client, Head(inbox))
     IN  /\ client' = reaction[1]
         /\ IF reaction[2] = Silent THEN UNCHANGED <<said, wire, ends>> ELSE Say(reaction[2])
  /\ inbox' = Tail(inbox)
  /\ UNCHANGED <<vars, self, tears>>

\* The client closes the connection; what it sent is still delivered.
ClientCloses ==
  /\ ClientLeaves
  /\ client' = "left"
  /\ UNCHANGED <<self, said, wire, ends, inbox, tears>>

-----------------------------------------------------------------------------
(* The server's Receive: one packet, several at once, or a part of one.    *)

\* Receive returns the next n bytes.
Deliver(n) ==
  /\ n <= PacketSize
  /\ Receive(SubSeq(wire, 1, n))
  /\ wire' = SubSeq(wire, n + 1, Len(wire))
  /\ ends' = {e \in 1..Len(wire') : n + e \in ends}

ServerReceives ==
  /\ \E n \in 1..Len(wire) :
       /\ Deliver(n)
       /\ MayJoin \/ \A e \in ends : n <= e
       /\ \/ n \in ends /\ UNCHANGED tears
          \/ n \notin ends /\ tears < MaxTears /\ tears' = tears + 1
  /\ UNCHANGED <<self, client, said, inbox>>

ServerSeesClose ==
  /\ wire = << >>
  /\ ReceiveNothing
  /\ UNCHANGED session

\* Execute and the handlers; a Send that reaches the client adds to inbox.
ServerWorks ==
  /\ Execute \/ SendThrows \/ ReadChunk \/ ReadChunkThrows
  /\ UNCHANGED session

ServerSends ==
  /\ \/ Send /\ inbox' = IF peerOpen THEN Append(inbox, Head(todo)) ELSE inbox
     \/ /\ PlayLoop /\ Len(inbox) < MaxInbox
        /\ inbox' = IF peerOpen THEN Append(inbox, Msg("Sync", 0)) ELSE inbox
  /\ UNCHANGED <<self, client, said, wire, ends, tears>>

SessionNext ==
  \/ ClientStarts \/ ClientHandles \/ ClientCloses
  \/ ServerReceives \/ ServerSeesClose \/ ServerWorks \/ ServerSends

\* TCP delivers, the client answers and the operating system schedules the
\* connection's thread.
SessionSpec ==
  /\ SessionInit /\ [][SessionNext]_allVars
  /\ WF_allVars(ClientStarts) /\ WF_allVars(ClientHandles)
  /\ WF_allVars(ServerReceives) /\ WF_allVars(ServerSeesClose)
  /\ WF_allVars(ServerWorks) /\ WF_allVars(ServerSends)

-----------------------------------------------------------------------------
(* Properties.                                                             *)

\* Until a packet is cut in two, the client is never sent a message it cannot
\* expect where it is.
ClientUnderstands == tears = 0 => client # "confused"

\* What makes that so: the receive buffer is never cleared, but of a client whose
\* bytes spell no packet id Execute takes no packet once it has used up what was
\* received (PingRequest leaves one byte, nothing else leaves any).
OldBytesIgnored ==
  tears = 0 /\ pc = "execute" /\ packetsIter >= recv => Taken.kind = "null"

\* The server switches to the play state when the client acknowledged the
\* configuration, as OnConfig logs (PlayerHandler.cpp:184).
PlayAfterAck == m_state = "PLAY" => "AckConfig" \in said

\* Until then too, it acts on a packet only after the client sent it: it leaves
\* IDLE after a handshake, enters CONFIG after a login acknowledgement and
\* PLAY after a configuration acknowledgement (OnIdle, OnLogin, OnConfig).
ServerFollowsClient == tears = 0 =>
  /\ m_state # "IDLE"   => "Handshake" \in said
  /\ m_state = "CONFIG" => "LoginAck" \in said
  /\ PlayAfterAck

\* A client that stays gets what it came for: a position in the world, or
\* the answer to its ping.  Only a packet cut in two and a region without the
\* chunk stop it.
ClientServed ==
  <>(client \in {"joined", "pinged"} \/ ~peerOpen \/ tears > 0 \/ ~chunkLoaded)

\* Whatever the server makes of a packet that was cut, the thread of a client
\* that leaves before it acknowledged the configuration ends: none is left
\* waiting for it.
LeaverReleased == ~peerOpen ~> (pc \in Ended \/ m_state = "PLAY")
=============================================================================
