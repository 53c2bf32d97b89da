---------------------------- MODULE PlayerHandler ----------------------------
(***************************************************************************)
(* One connection of the server: the receive loop of                       *)
(* MinecraftHanlder::HandleConnection (src/MinecraftHandler.cpp) and the   *)
(* PlayerHandler it drives (src/PlayerHandler.cpp), run by one thread.     *)
(*                                                                         *)
(* A step is one Receive, one packet taken and dispatched by Execute, or   *)
(* one Send: between two of them the client may leave and other threads    *)
(* may run.  The client is arbitrary here: any segment of Segments can be  *)
(* what the next Receive returns.  Session puts a real client in its place.*)
(*                                                                         *)
(* The loop's guard !m_stop is left out: nothing in the program sets       *)
(* m_stop, and Stop (MinecraftHandler.cpp:102) does nothing.               *)
(***************************************************************************)
EXTENDS Wire, Messages

CONSTANTS PacketSize,   \* PACKET_SIZE, bytes of the receive buffer (10024)
          Segments,     \* what one Receive can put into the buffer
          Beyond        \* what can lie in mapped memory behind the buffer

ASSUME PacketSizeAssumption == PacketSize \in Nat \ {0}
ASSUME SegmentsAssumption ==
  \A seg \in Segments : seg \in Seq(Byte) /\ Len(seg) \in 1..PacketSize
ASSUME BeyondAssumption == Beyond \subseteq Seq(Byte)

VARIABLES
  pc,           \* where the connection's thread is
  m_state,      \* the PlayerHandlerState
  data,         \* the receive buffer, resized once and never cleared
  recv,         \* bytes the last Receive wrote
  beyond,       \* the mapped bytes behind the buffer
  packetsIter,  \* Execute's iterator, as a position
  todo,         \* messages the running handler has still to send
  chunkLoaded,  \* m_context.chunk_region[0][0] holds a complete chunk
  peerOpen,     \* the client has not left
  sent          \* the last message the client was sent

context == <<chunkLoaded, peerOpen>>
buffer  == <<data, recv, beyond>>
vars == <<pc, m_state, buffer, packetsIter, todo, context, sent>>

\* Running: in the receive loop, in Execute's loop, in a handler's run of
\* Sends, at the chunk lookup and in the endless loop of OnConfig.  Ended:
\* HandleConnection returned, an exception left it, or a read behind mapped
\* memory killed the process.
Running == {"receive", "execute", "send", "chunk", "playloop"}
Ended == {"returned", "threw", "faulted"}

TypeOK ==
  /\ pc \in Running \cup Ended
  /\ m_state \in States
  /\ data \in [1..PacketSize -> Byte]
  /\ recv \in 0..PacketSize
  /\ beyond \in Seq(Byte)
  /\ packetsIter \in Nat \ {0}
  /\ todo \in Seq(Message)
  /\ chunkLoaded \in BOOLEAN
  /\ peerOpen \in BOOLEAN
  /\ sent \in Message \cup {None}

Init ==
  /\ pc = "receive"
  /\ m_state = "IDLE"
  /\ data = [i \in 1..PacketSize |-> 0]
  /\ recv = 0
  /\ beyond \in Beyond
  /\ packetsIter = 1
  /\ todo = << >>
  /\ chunkLoaded \in BOOLEAN
  /\ peerOpen = TRUE
  /\ sent = None

-----------------------------------------------------------------------------
(* HandleConnection                                                        *)

\* connection.Receive(data) writes seg over the front of the buffer and
\* leaves the rest as it was; Execute is handed the whole buffer.
ReceiveMutant(seg) ==                       \* appended behind the old bytes
  /\ pc = "receive"
  /\ data' = data \o seg
  /\ recv' = Len(seg)
  /\ beyond' \in Beyond
  /\ packetsIter' = 1
  /\ pc' = "execute"
  /\ UNCHANGED <<m_state, todo, context, sent>>

Receive(seg) ==
  /\ pc = "receive"
  /\ data' = [i \in 1..PacketSize |-> IF i <= Len(seg) THEN seg[i] ELSE data[i]]
  /\ recv' = Len(seg)
  /\ beyond' \in Beyond
  /\ packetsIter' = 1
  /\ pc' = "execute"
  /\ UNCHANGED <<m_state, todo, context, sent>>

\* Receive returns 0 once the client has left: HandleConnection returns.
ReceiveNothingMutant ==                     \* if (recv == 0) return; forgotten
  /\ pc = "receive" /\ ~peerOpen
  /\ pc' = "execute"
  /\ recv' = 0
  /\ packetsIter' = 1
  /\ UNCHANGED <<m_state, data, beyond, todo, context, sent>>

ReceiveNothing ==
  /\ pc = "receive" /\ ~peerOpen
  /\ pc' = "returned"
  /\ recv' = 0
  /\ UNCHANGED <<m_state, data, beyond, packetsIter, todo, context, sent>>

-----------------------------------------------------------------------------
(* PlayerHandler::Execute: one iteration takes the next packet of the      *)
(* state; a null packet ends Execute, whatever bytes are left.             *)

Mem == data \o beyond
Taken == NextPacket(m_state, Mem, At(packetsIter))

ExecuteReturns ==
  /\ pc = "execute"
  /\ Taken.kind = "null" /\ Taken.it.st = "ok"
  /\ pc' = "receive"
  /\ UNCHANGED <<m_state, buffer, packetsIter, todo, context, sent>>

\* No caller catches: the exception leaves HandleConnection.
ExecuteThrows ==
  /\ pc = "execute"
  /\ Taken.it.st = "throw"
  /\ pc' = "threw"
  /\ UNCHANGED <<m_state, buffer, packetsIter, todo, context, sent>>

ExecuteFaults ==
  /\ pc = "execute"
  /\ Taken.it.st = "fault"
  /\ pc' = "faulted"
  /\ UNCHANGED <<m_state, buffer, packetsIter, todo, context, sent>>

\* Execute took a packet of this kind; its handler sets the state and runs
\* the Sends of batch.
HandleMutant(kind, state, batch) ==         \* the iterator passed by value
  /\ pc = "execute"
  /\ Taken.kind = kind
  /\ m_state' = state
  /\ todo' = batch
  /\ pc' = IF batch = << >> THEN "execute" ELSE "send"
  /\ UNCHANGED <<buffer, packetsIter, context, sent>>

Handle(kind, state, batch) ==
  /\ pc = "execute"
  /\ Taken.kind = kind
  /\ packetsIter' = Taken.it.pos
  /\ m_state' = state
  /\ todo' = batch
  /\ pc' = IF batch = << >> THEN "execute" ELSE "send"
  /\ UNCHANGED <<buffer, context, sent>>

-----------------------------------------------------------------------------
(* The handlers.                                                           *)

\* OnIdle: the next state of the handshake; an unknown one is ignored.
RequestedStateMutant(next) ==               \* the two states swapped
  CASE next = 1 -> "LOGIN" [] next = 2 -> "STATUS" [] OTHER -> m_state
RequestedState(next) ==
  CASE next = 1 -> "STATUS" [] next = 2 -> "LOGIN" [] OTHER -> m_state

OnHandshake == Handle("Handshake", RequestedState(Taken.it.val), << >>)

OnStatusRequest == Handle("StatusRequest", m_state, <<Msg("Status", 0)>>)
OnPing          == Handle("Ping", m_state, <<Msg("Pong", 0)>>)
OnLoginStartMutant == Handle("LoginStart", "CONFIG", <<Msg("LoginSuccess", 0)>>)
OnLoginStart    == Handle("LoginStart", m_state, <<Msg("LoginSuccess", 0)>>)
OnLoginAckMutant == Handle("LoginAck", m_state, <<Msg("KnownPacks", 0)>>)
OnLoginAck      == Handle("LoginAck", "CONFIG", <<Msg("KnownPacks", 0)>>)

RegistryBatchMutant ==                      \* one registry too many
  [k \in 1..(NumRegistries + 2) |->
     IF k <= NumRegistries + 1 THEN Msg("Registry", k) ELSE Msg("Finish", 0)]
RegistryBatch ==
  [k \in 1..(NumRegistries + 1) |->
     IF k <= NumRegistries THEN Msg("Registry", k) ELSE Msg("Finish", 0)]

OnKnownPacks == Handle("KnownPacks", m_state, RegistryBatch)

JoinBatch == <<Msg("LoginPlay", 0), Msg("GameEvent", 0), Msg("ChunkCenter", 0)>>

OnAckConfig == Handle("AckConfig", "PLAY", JoinBatch)

\* OnConfig, further down: the chunk every client is shown is looked up
\* only now, and .value() or a height map lookup throws if it is not there.
ChunkBatch == [k \in 1..NumChunks |-> Msg("Chunk", k)]

ReadChunk ==
  /\ pc = "chunk" /\ chunkLoaded
  /\ todo' = ChunkBatch
  /\ pc' = "send"
  /\ UNCHANGED <<m_state, buffer, packetsIter, context, sent>>

ReadChunkThrows ==
  /\ pc = "chunk" /\ ~chunkLoaded
  /\ pc' = "threw"
  /\ UNCHANGED <<m_state, buffer, packetsIter, todo, context, sent>>

\* m_client.Send ignores its outcome: once the client left, the message is
\* lost and the handler goes on, or Send throws out of HandleConnection.
Transmit(m) == sent' = IF peerOpen THEN m ELSE sent

\* Where the thread is after the last Send of a run: back in Execute's loop,
\* except that OnConfig goes on to the chunks and then never returns.
AfterBatchMutant(last) ==                   \* OnConfig returns after joining
  IF m_state # "PLAY" \/ last.type = "Chunk" THEN "execute" ELSE "chunk"
AfterBatch(last) ==
  IF m_state # "PLAY" THEN "execute"
  ELSE IF last.type = "Chunk" THEN "playloop" ELSE "chunk"

Send ==
  /\ pc = "send"
  /\ Transmit(Head(todo))
  /\ todo' = Tail(todo)
  /\ pc' = IF Tail(todo) = << >> THEN AfterBatch(Head(todo)) ELSE "send"
  /\ UNCHANGED <<m_state, buffer, packetsIter, context>>

SendThrows ==
  /\ pc \in {"send", "playloop"} /\ ~peerOpen
  /\ pc' = "threw"
  /\ UNCHANGED <<m_state, buffer, packetsIter, todo, context, sent>>

\* for (;;) Send(SynchronisePlayerPosition), sleep 10 s.
PlayLoop ==
  /\ pc = "playloop"
  /\ Transmit(Msg("Sync", 0))
  /\ UNCHANGED <<pc, m_state, buffer, packetsIter, todo, context>>

-----------------------------------------------------------------------------
\* The client may leave at any time; bytes it sent before may still arrive.
ClientLeaves ==
  /\ pc \in Running /\ peerOpen
  /\ peerOpen' = FALSE
  /\ UNCHANGED <<pc, m_state, buffer, packetsIter, todo, chunkLoaded, sent>>

Dispatch ==
  \/ OnHandshake \/ OnStatusRequest \/ OnPing \/ OnLoginStart
  \/ OnLoginAck \/ OnKnownPacks \/ OnAckConfig

Execute == ExecuteReturns \/ ExecuteThrows \/ ExecuteFaults \/ Dispatch

\* What the thread does once a Receive has returned; it needs nobody else.
HandlerStep == Execute \/ Send \/ SendThrows \/ ReadChunk \/ ReadChunkThrows
                 \/ PlayLoop

Next ==
  \/ \E seg \in Segments : Receive(seg)
  \/ ReceiveNothing
  \/ HandlerStep
  \/ ClientLeaves

Spec == Init /\ [][Next]_vars

\* The operating system schedules the thread.
FairSpec == Spec /\ WF_vars(HandlerStep)

-----------------------------------------------------------------------------
(* Properties.                                                             *)

\* The connection implements the session contract: whatever bytes arrive,
\* however they are cut, the client sees only contractual messages, in
\* contractual order, and none once the handler has ended.
Contract == INSTANCE SessionContract WITH open <- pc \in Running
ImplementsContract == Contract!Spec

\* While no earlier segment reached further than the last one, no packet is
\* taken from the zeros the buffer was created with: a zero size ends
\* Execute (PlayerHandler.h:57).
ZeroFilled == \A i \in (recv + 1)..PacketSize : data[i] = 0
NoPacketFromZeroFill ==
  [][pc = "execute" /\ packetsIter' # packetsIter /\ ZeroFilled
       => packetsIter \notin (recv + 1)..PacketSize]_vars

\* OnConfig never gives the thread back: once the session is in PLAY no
\* byte of the client is received or parsed, NextPacketPlay and OnPlay
\* never run, and the state is final.
DeafOncePlaying ==
  [][m_state = "PLAY" => UNCHANGED <<m_state, data, recv, packetsIter>>]_vars

\* Execute always comes to an end: it returns to the receive loop, ends the
\* connection or enters the play loop, however the buffer is filled.
ExecuteTerminates == pc = "execute" ~> pc \notin {"execute", "send", "chunk"}
=============================================================================
