-------------------------- MODULE ConnectionProofs --------------------------
(***************************************************************************)
(* Proofs about PlayerHandler, for every buffer size, every set of         *)
(* segments a client may send and every number of registries and chunks,   *)
(* and about Session, for all clients and every network between.           *)
(*                                                                         *)
(* The contract is not inductive: that a message may follow the last one   *)
(* depends on where the thread is and on what its handler has still to     *)
(* send.  IInv says how these agree.                                       *)
(*                                                                         *)
(* Nor is it inductive that the server follows a client: that depends on   *)
(* which of the client's bytes are on the wire, in the buffer and behind   *)
(* the iterator.  FInv follows them, up to the configuration.              *)
(*                                                                         *)
(* What a client understands depends on all of this at once.  UInv says    *)
(* which stage of the session client and server are in: the one packet, or *)
(* the handshake and the one behind it, that the server has still to read, *)
(* or the messages that the client has still to handle.                    *)
(***************************************************************************)
EXTENDS Session, TLAPS, SequenceTheorems

-----------------------------------------------------------------------------
(* The inductive invariant.                                                *)

\* The messages after which Execute's loop can be in a state.
Ready(state) ==
  CASE state = "IDLE"   -> {None}
    [] state = "STATUS" -> {None, Msg("Status", 0), Msg("Pong", 0)}
    [] state = "LOGIN"  -> {None, Msg("LoginSuccess", 0)}
    [] state = "CONFIG" -> {Msg("KnownPacks", 0), Msg("Finish", 0)}
    [] OTHER            -> {}

\* The messages a handler's run of Sends can end with in a state.
BatchEnds(state) ==
  IF state = "PLAY" THEN {Msg("ChunkCenter", 0), Msg("Chunk", NumChunks)}
  ELSE Ready(state) \ {None}

\* Each message of s may follow the one before it.
Linked(s) == \A i \in 1..(Len(s) - 1) : Contract!Follows(s[i], s[i + 1])

InvLoop ==
  pc \in {"receive", "execute"} =>
    /\ m_state # "PLAY"
    /\ peerOpen => sent \in Ready(m_state)

InvSend ==
  pc = "send" =>
    /\ todo # << >>
    /\ Linked(todo)
    /\ todo[Len(todo)] \in BatchEnds(m_state)
    /\ peerOpen => Contract!Follows(sent, todo[1])

InvJoin ==
  /\ pc = "chunk" =>
       m_state = "PLAY" /\ (peerOpen => sent = Msg("ChunkCenter", 0))
  /\ pc = "playloop" =>
       /\ m_state = "PLAY"
       /\ peerOpen => sent \in {Msg("Chunk", NumChunks), Msg("Sync", 0)}

IInv == TypeOK /\ InvLoop /\ InvSend /\ InvJoin

-----------------------------------------------------------------------------
(* The reads of Wire keep the iterator an iterator.                        *)

\* A VarInt is an integer, whichever bytes it was read from.
LEMMA VarIntValueType ==
  ASSUME NEW mem \in Seq(Byte), NEW p \in Nat \ {0}, NEW n \in 1..MaxVarIntBytes,
         p + n - 1 <= Len(mem)
  PROVE  VarIntValue(mem, p, n) \in Int
<1> DEFINE S(k) == SegmentAt(mem, p, n, k)
           s1 == S(1)  s2 == S(2)  s3 == S(3)  s4 == S(4)  s5 == S(5)
           top == TopNibble(s5)
<1>1. ASSUME NEW k \in 1..5 PROVE S(k) \in Int
  <2>1. CASE k <= n
    <3> DEFINE i == p + k - 1  b == mem[i]
    <3>1. i \in 1..Len(mem)
      BY <2>1 DEF MaxVarIntBytes
    <3>2. S(k) = b % 128
      BY <2>1 DEF SegmentAt
    <3> HIDE DEF i
    <3>3. b \in 0..255
      BY <3>1, ElementOfSeq DEF Byte
    <3> HIDE DEF b
    <3>4. b % 128 \in Int
      BY <3>3
    <3> QED BY <3>2, <3>4
  <2>2. CASE ~(k <= n)
    BY <2>2 DEF SegmentAt
  <2> QED BY <2>1, <2>2
<1>2. s1 \in Int /\ s2 \in Int /\ s3 \in Int /\ s4 \in Int /\ s5 \in Int
  BY <1>1
<1> HIDE DEF s5
<1>3. top \in Int
  BY <1>2 DEF TopNibble
<1> USE DEF s5
<1>4. VarIntValue(mem, p, n)
        = s1 + 128 * s2 + 16384 * s3 + 2097152 * s4 + 268435456 * top
  BY SMT DEF VarIntValue
<1> HIDE DEF s1, s2, s3, s4, s5, top
<1> QED BY <1>2, <1>3, <1>4, SMT

\* util::readVarInt maps iterators to iterators.
LEMMA readVarIntType ==
  ASSUME NEW mem \in Seq(Byte), NEW it \in Iterator
  PROVE  readVarInt(mem)[it] \in Iterator
<1> DEFINE p == it.pos
           n == CHOOSE m \in 1..MaxVarIntBytes : EndsAfter(mem, p, m)
<1>1. CASE it.st = "ok" /\ \E m \in 1..MaxVarIntBytes : EndsAfter(mem, p, m)
  <2>1. n \in 1..MaxVarIntBytes /\ EndsAfter(mem, p, n)
    BY <1>1
  <2>2. p + n - 1 <= Len(mem)
    BY <2>1 DEF EndsAfter
  <2>3. VarIntValue(mem, p, n) \in Int
    BY <2>1, <2>2, VarIntValueType DEF Iterator
  <2>4. readVarInt(mem)[it]
          = [st |-> "ok", pos |-> p + n, val |-> VarIntValue(mem, p, n)]
    BY <1>1 DEF readVarInt
  <2> HIDE DEF n
  <2> QED BY <2>1, <2>3, <2>4 DEF Iterator, Outcome, MaxVarIntBytes
<1>2. CASE ~(it.st = "ok" /\ \E m \in 1..MaxVarIntBytes : EndsAfter(mem, p, m))
  <2>1. readVarInt(mem)[it] \in {it, Failed(it, "throw"), Failed(it, "fault")}
    BY <1>2 DEF readVarInt
  <2> QED BY <2>1 DEF Iterator, Outcome, Failed
<1> QED BY <1>1, <1>2

\* So does the read of a blob of n bytes.
LEMMA readBytesType ==
  ASSUME NEW mem \in Seq(Byte), NEW n \in Int, NEW k \in Nat, NEW it \in Iterator
  PROVE  readBytes(mem, n, k)[it] \in Iterator
<1>1. readBytes(mem, n, k)[it] \in {it, Failed(it, "fault"), At(it.pos + k)}
  BY DEF readBytes
<1> QED BY <1>1 DEF Iterator, Outcome, Failed, At

\* And util::readString: the sizes that would move the iterator back make
\* it throw.
LEMMA readStringType ==
  ASSUME NEW mem \in Seq(Byte), NEW it \in Iterator
  PROVE  readString(mem)[it] \in Iterator
<1> DEFINE size == readVarInt(mem)[it]
<1>1. size \in Iterator
  BY readVarIntType
<1>2. readString(mem)[it]
        = IF size.st = "ok" /\ size.val < 0 THEN Failed(size, "throw")
          ELSE readBytes(mem, size.val, size.val)[size]
  BY DEF readString
<1> HIDE DEF size
<1>3. CASE size.st = "ok" /\ size.val < 0
  BY <1>1, <1>2, <1>3 DEF Failed, Iterator, Outcome
<1>4. CASE size.st # "ok"
  BY <1>1, <1>2, <1>4 DEF readBytes
<1>5. CASE size.st = "ok" /\ size.val >= 0
  BY <1>1, <1>2, <1>5, readBytesType DEF Iterator
<1> QED BY <1>1, <1>3, <1>4, <1>5 DEF Iterator

\* And every packet constructor.
LEMMA ConstructType ==
  ASSUME NEW mem \in Seq(Byte), NEW it \in Iterator, NEW kind
  PROVE  Construct(kind, mem, it) \in Iterator
<1>1. HandshakePacket(mem, it) \in Iterator
  BY readVarIntType, readStringType, readBytesType DEF HandshakePacket
<1>2. PingRequest(mem, it) \in Iterator
  BY readBytesType, PayloadSizeAssumption DEF PingRequest
<1>3. LoginStartPacket(mem, it) \in Iterator
  BY readStringType, readBytesType, UuidSizeAssumption DEF LoginStartPacket
<1>4. KnownPacksPacket(mem, it) \in Iterator
  BY readVarIntType, readStringType DEF KnownPacksPacket
<1> QED BY <1>1, <1>2, <1>3, <1>4 DEF Construct

\* NextPacket leaves an iterator, and returns a packet only if the state
\* knows its id and every read succeeded.
LEMMA NextPacketResult ==
  ASSUME NEW mem \in Seq(Byte), NEW it \in Iterator, NEW state,
         NEW next, next = NextPacket(state, mem, it)
  PROVE  /\ next.it \in Iterator
         /\ next.kind # "null" =>
              next.it.st = "ok" /\ \E id : next.kind = KindOf(state, id)
<1> DEFINE size == readVarInt(mem)[it]
           id == readVarInt(mem)[size]
           kind == KindOf(state, id.val)
           done == Construct(kind, mem, id)
<1>1. size \in Iterator /\ id \in Iterator /\ done \in Iterator
  BY readVarIntType, ConstructType
<1>2. next \in {[kind |-> "null", it |-> size], [kind |-> "null", it |-> id],
                [kind |-> "null", it |-> done]}
        \/ (next = [kind |-> kind, it |-> done] /\ done.st = "ok")
  BY DEF NextPacket, NoPacket
<1>3. kind = KindOf(state, id.val)
  OBVIOUS
<1> HIDE DEF size, id, kind, done
<1> QED BY <1>1, <1>2, <1>3

-----------------------------------------------------------------------------
(* The batches of messages a handler sends.                                *)

\* A run of one Send is contractual.
LEMMA SingleLinked ==
  ASSUME NEW t \in Single, NEW batch, batch = <<Msg(t, 0)>>
  PROVE  /\ batch \in Seq(Message) /\ batch # << >> /\ Linked(batch)
         /\ batch[1] = Msg(t, 0) /\ batch[Len(batch)] = Msg(t, 0)
BY DEF Linked, Message

\* So is the one that joins a client.
LEMMA JoinBatchLinked ==
  JoinBatch \in Seq(Message) /\ Linked(JoinBatch)
BY DEF JoinBatch, Linked, Message, Single, Msg, Contract!Follows, Contract!Msg

\* OnConfig sends every registry, in order, and then the end of them.
LEMMA RegistryBatchLinked ==
  /\ RegistryBatch \in Seq(Message) /\ Len(RegistryBatch) = NumRegistries + 1
  /\ Linked(RegistryBatch)
  /\ RegistryBatch[1] = Msg("Registry", 1)
  /\ RegistryBatch[Len(RegistryBatch)] = Msg("Finish", 0)
<1> DEFINE n == NumRegistries + 1
<1>1. n \in Nat /\ n > 1
  BY NumRegistriesAssumption
<1>2. RegistryBatch \in [1..n -> Message]
  BY NumRegistriesAssumption DEF RegistryBatch, Message, Single
<1>3. RegistryBatch \in Seq(Message) /\ Len(RegistryBatch) = n
  BY <1>1, <1>2
<1>4. ASSUME NEW i \in 1..(n - 1)
      PROVE  Contract!Follows(RegistryBatch[i], RegistryBatch[i + 1])
  BY <1>1, NumRegistriesAssumption
     DEF RegistryBatch, Contract!Follows, Contract!Msg, Msg
<1>5. RegistryBatch[1] = Msg("Registry", 1) /\ RegistryBatch[n] = Msg("Finish", 0)
  BY NumRegistriesAssumption DEF RegistryBatch
<1> QED BY <1>3, <1>4, <1>5 DEF Linked

\* OnConfig sends every chunk, in order.
LEMMA ChunkBatchLinked ==
  /\ ChunkBatch \in Seq(Message) /\ Len(ChunkBatch) = NumChunks
  /\ Linked(ChunkBatch)
  /\ ChunkBatch[1] = Msg("Chunk", 1)
  /\ ChunkBatch[Len(ChunkBatch)] = Msg("Chunk", NumChunks)
<1>1. ChunkBatch \in [1..NumChunks -> Message]
  BY NumChunksAssumption DEF ChunkBatch, Message
<1>2. ChunkBatch \in Seq(Message) /\ Len(ChunkBatch) = NumChunks
  BY <1>1, NumChunksAssumption
<1>3. ASSUME NEW i \in 1..(NumChunks - 1)
      PROVE  Contract!Follows(ChunkBatch[i], ChunkBatch[i + 1])
  BY NumChunksAssumption DEF ChunkBatch, Contract!Follows, Contract!Msg, Msg
<1>4. ChunkBatch[1] = Msg("Chunk", 1) /\ ChunkBatch[NumChunks] = Msg("Chunk", NumChunks)
  BY NumChunksAssumption DEF ChunkBatch
<1> QED BY <1>2, <1>3, <1>4 DEF Linked

\* What is left of a linked run of messages is linked, and continues with
\* a message that may follow the one just sent.
LEMMA TailLinked ==
  ASSUME NEW s \in Seq(Message), s # << >>, Linked(s), Tail(s) # << >>
  PROVE  /\ Tail(s) \in Seq(Message) /\ Linked(Tail(s))
         /\ Contract!Follows(Head(s), Tail(s)[1])
         /\ Tail(s)[Len(Tail(s))] = s[Len(s)]
<1> DEFINE t == Tail(s)
<1>1. /\ t \in Seq(Message) /\ Len(t) = Len(s) - 1 /\ Len(t) \in Nat \ {0}
      /\ \A i \in 1..Len(t) : t[i] = s[i + 1]
  BY HeadTailProperties, EmptySeq
<1>2. Head(s) = s[1]
  OBVIOUS
<1> HIDE DEF t
<1>3. ASSUME NEW i \in 1..(Len(t) - 1) PROVE Contract!Follows(t[i], t[i + 1])
  <2>1. t[i] = s[i + 1] /\ t[i + 1] = s[(i + 1) + 1]
    BY <1>1
  <2>2. i + 1 \in 1..(Len(s) - 1)
    BY <1>1
  <2> QED BY <2>1, <2>2 DEF Linked
<1>4. Contract!Follows(s[1], t[1])
  <2>1. 1 \in 1..(Len(s) - 1) /\ t[1] = s[1 + 1]
    BY <1>1
  <2> QED BY <2>1 DEF Linked
<1>5. t[Len(t)] = s[Len(s)]
  BY <1>1
<1>6. Linked(t)
  BY <1>3 DEF Linked
<1> QED BY <1>1, <1>2, <1>4, <1>5, <1>6 DEF t

-----------------------------------------------------------------------------
(* IInv is inductive.                                                      *)

\* What Execute takes next is an iterator and, if it is a packet, one that
\* the session's state knows.
LEMMA TakenResult ==
  ASSUME TypeOK
  PROVE  /\ Mem \in Seq(Byte) /\ At(packetsIter) \in Iterator
         /\ Taken.it \in Iterator
         /\ Taken.kind # "null" =>
              Taken.it.st = "ok" /\ \E id : Taken.kind = KindOf(m_state, id)
<1>1. data \in Seq(Byte) /\ beyond \in Seq(Byte)
  BY PacketSizeAssumption DEF TypeOK
<1>2. Mem \in Seq(Byte)
  BY <1>1 DEF Mem
<1>3. At(packetsIter) \in Iterator
  BY DEF TypeOK, At, Iterator, Outcome
<1> QED BY <1>2, <1>3, NextPacketResult DEF Taken

\* A handler that sets a state and starts a run of Sends preserves IInv if
\* the run is contractual after what was sent before and in that state.
LEMMA HandlePreserves ==
  ASSUME IInv, NEW kind \in Kinds, NEW state \in States,
         NEW batch \in Seq(Message), Handle(kind, state, batch),
         batch = << >> =>
           state # "PLAY" /\ (peerOpen => sent \in Ready(state)),
         batch # << >> =>
           /\ Linked(batch)
           /\ batch[Len(batch)] \in BatchEnds(state)
           /\ peerOpen => Contract!Follows(sent, batch[1])
  PROVE  IInv'
<1>1. TypeOK'
  BY TakenResult DEF IInv, TypeOK, Handle, buffer, context, Running, Iterator
<1>2. InvLoop'
  BY DEF Handle, InvLoop, context
<1>3. InvSend'
  BY DEF Handle, InvSend, context
<1>4. InvJoin'
  BY DEF Handle, InvJoin
<1> QED BY <1>1, <1>2, <1>3, <1>4 DEF IInv

\* The handlers do.
LEMMA DispatchPreserves == IInv /\ Dispatch => IInv'
<1> SUFFICES ASSUME IInv, Dispatch PROVE IInv'
  OBVIOUS
<1>a. /\ m_state \in States
      /\ pc = "execute" /\ peerOpen => sent \in Ready(m_state)
      /\ pc = "execute" => m_state # "PLAY"
  BY DEF IInv, TypeOK, InvLoop
<1>b. \A k \in Kinds : Taken.kind = k => \E id : k = KindOf(m_state, id)
  BY TakenResult DEF IInv, Kinds
<1>1. CASE OnHandshake
  <2>1. m_state = "IDLE" /\ pc = "execute"
    BY <1>1, <1>b DEF OnHandshake, Handle, Kinds, KindOf
  <2>2. RequestedState(Taken.it.val) \in {"IDLE", "STATUS", "LOGIN"}
    BY <2>1 DEF RequestedState
  <2>3. peerOpen => sent = None
    BY <1>a, <2>1 DEF Ready
  <2> DEFINE next == RequestedState(Taken.it.val)
  <2>4. next \in States /\ next # "PLAY" /\ (peerOpen => sent \in Ready(next))
    BY <2>2, <2>3 DEF States, Ready
  <2>5. Handle("Handshake", next, << >>) /\ "Handshake" \in Kinds
    BY <1>1 DEF OnHandshake, Kinds
  <2> HIDE DEF next
  <2>6. << >> \in Seq(Message)
    OBVIOUS
  <2> QED BY <2>4, <2>5, <2>6, HandlePreserves
<1>2. CASE OnStatusRequest
  <2>1. m_state = "STATUS" /\ pc = "execute"
    BY <1>2, <1>b DEF OnStatusRequest, Handle, Kinds, KindOf
  <2>2. peerOpen => Contract!Follows(sent, Msg("Status", 0))
    BY <1>a, <2>1 DEF Ready, Contract!Follows, Msg, None, Contract!Msg
  <2>3. "Status" \in Single /\ Msg("Status", 0) \in BatchEnds("STATUS")
    BY DEF Single, BatchEnds, Ready, Msg, None
  <2> QED BY <1>2, <2>1, <2>2, <2>3, SingleLinked, HandlePreserves
          DEF OnStatusRequest, Kinds, States
<1>3. CASE OnPing
  <2>1. m_state = "STATUS" /\ pc = "execute"
    BY <1>3, <1>b DEF OnPing, Handle, Kinds, KindOf
  <2>2. peerOpen => Contract!Follows(sent, Msg("Pong", 0))
    BY <1>a, <2>1 DEF Ready, Contract!Follows, Msg, None, Contract!Msg
  <2>3. "Pong" \in Single /\ Msg("Pong", 0) \in BatchEnds("STATUS")
    BY DEF Single, BatchEnds, Ready, Msg, None
  <2> QED BY <1>3, <2>1, <2>2, <2>3, SingleLinked, HandlePreserves
          DEF OnPing, Kinds, States
<1>4. CASE OnLoginStart
  <2>1. m_state = "LOGIN" /\ pc = "execute"
    BY <1>4, <1>b DEF OnLoginStart, Handle, Kinds, KindOf
  <2>2. peerOpen => Contract!Follows(sent, Msg("LoginSuccess", 0))
    BY <1>a, <2>1 DEF Ready, Contract!Follows, Msg, None, Contract!Msg
  <2>3. "LoginSuccess" \in Single /\ Msg("LoginSuccess", 0) \in BatchEnds("LOGIN")
    BY DEF Single, BatchEnds, Ready, Msg, None
  <2> QED BY <1>4, <2>1, <2>2, <2>3, SingleLinked, HandlePreserves
          DEF OnLoginStart, Kinds, States
<1>5. CASE OnLoginAck
  <2>1. m_state = "LOGIN" /\ pc = "execute"
    BY <1>5, <1>b DEF OnLoginAck, Handle, Kinds, KindOf
  <2>2. peerOpen => Contract!Follows(sent, Msg("KnownPacks", 0))
    BY <1>a, <2>1 DEF Ready, Contract!Follows, Msg, None, Contract!Msg
  <2>3. "KnownPacks" \in Single /\ Msg("KnownPacks", 0) \in BatchEnds("CONFIG")
    BY DEF Single, BatchEnds, Ready, Msg, None
  <2> QED BY <1>5, <2>1, <2>2, <2>3, SingleLinked, HandlePreserves
          DEF OnLoginAck, Kinds, States
<1>6. CASE OnKnownPacks
  <2>1. m_state = "CONFIG" /\ pc = "execute"
    BY <1>6, <1>b DEF OnKnownPacks, Handle, Kinds, KindOf
  <2>2. peerOpen => Contract!Follows(sent, Msg("Registry", 1))
    BY <1>a, <2>1 DEF Ready, Contract!Follows, Msg, Contract!Msg
  <2>3. Msg("Finish", 0) \in BatchEnds("CONFIG")
    BY DEF BatchEnds, Ready, Msg, None
  <2>4. RegistryBatch # << >>
    BY RegistryBatchLinked, NumRegistriesAssumption
  <2> QED BY <1>6, <2>1, <2>2, <2>3, <2>4, RegistryBatchLinked, HandlePreserves
          DEF OnKnownPacks, Kinds, States
<1>7. CASE OnAckConfig
  <2>1. m_state = "CONFIG" /\ pc = "execute"
    BY <1>7, <1>b DEF OnAckConfig, Handle, Kinds, KindOf
  <2>2. peerOpen => Contract!Follows(sent, Msg("LoginPlay", 0))
    BY <1>a, <2>1 DEF Ready, Contract!Follows, Msg, Contract!Msg
  <2>3. /\ JoinBatch # << >> /\ JoinBatch[1] = Msg("LoginPlay", 0)
        /\ JoinBatch[Len(JoinBatch)] = Msg("ChunkCenter", 0)
    BY DEF JoinBatch
  <2>4. Msg("ChunkCenter", 0) \in BatchEnds("PLAY")
    BY DEF BatchEnds
  <2> QED BY <1>7, <2>2, <2>3, <2>4, JoinBatchLinked, HandlePreserves
          DEF OnAckConfig, Kinds, States
<1> QED BY <1>1, <1>2, <1>3, <1>4, <1>5, <1>6, <1>7 DEF Dispatch

\* Sending the next message of a run preserves IInv: the rest of the run
\* may follow it, and after the last one the thread is where the state
\* says.
LEMMA SendPreserves == IInv /\ Send => IInv'
<1> SUFFICES ASSUME IInv, Send PROVE IInv'
  OBVIOUS
<1>1. /\ pc = "send" /\ todo \in Seq(Message) /\ todo # << >> /\ Linked(todo)
      /\ todo[Len(todo)] \in BatchEnds(m_state)
      /\ Head(todo) \in Message /\ Tail(todo) \in Seq(Message)
      /\ todo' = Tail(todo) /\ UNCHANGED <<m_state, peerOpen>>
      /\ peerOpen => sent' = Head(todo)
      /\ ~peerOpen => sent' = sent
  BY HeadTailProperties DEF IInv, TypeOK, InvSend, Send, Transmit, context
<1>2. CASE Tail(todo) # << >>
  <2>1. pc' = "send"
    BY <1>2 DEF Send
  <2>2. TypeOK'
    BY <1>1, <2>1
       DEF IInv, TypeOK, Send, Transmit, buffer, context, Running
  <2>3. InvSend'
    BY <1>1, <1>2, <2>1, TailLinked DEF InvSend
  <2> QED BY <2>1, <2>2, <2>3 DEF IInv, InvLoop, InvJoin
<1>3. CASE Tail(todo) = << >>
  <2>1. Head(todo) \in BatchEnds(m_state)
    <3>1. Len(Tail(todo)) = 0 /\ Len(Tail(todo)) = Len(todo) - 1
      BY <1>1, <1>3, HeadTailProperties, EmptySeq
    <3>2. Len(todo) = 1
      BY <1>1, <3>1
    <3>3. Head(todo) = todo[1]
      BY <1>1
    <3> QED BY <1>1, <3>2, <3>3
  <2>2. pc' = AfterBatch(Head(todo))
    BY <1>3 DEF Send
  <2>3. CASE m_state # "PLAY"
    <3>1. pc' = "execute" /\ Head(todo) \in Ready(m_state)
      BY <2>1, <2>2, <2>3 DEF AfterBatch, BatchEnds
    <3>2. TypeOK'
      BY <1>1, <3>1
         DEF IInv, TypeOK, Send, Transmit, buffer, context, Running
    <3>3. InvLoop'
      BY <1>1, <2>3, <3>1 DEF InvLoop
    <3> QED BY <3>1, <3>2, <3>3 DEF IInv, InvSend, InvJoin
  <2>4. CASE m_state = "PLAY"
    <3>1. \/ pc' = "chunk" /\ Head(todo) = Msg("ChunkCenter", 0)
          \/ pc' = "playloop" /\ Head(todo) = Msg("Chunk", NumChunks)
      BY <2>1, <2>2, <2>4 DEF AfterBatch, BatchEnds, Msg
    <3>2. TypeOK'
      BY <1>1, <3>1
         DEF IInv, TypeOK, Send, Transmit, buffer, context, Running
    <3>3. InvJoin'
      BY <1>1, <2>4, <3>1 DEF InvJoin
    <3> QED BY <3>1, <3>2, <3>3 DEF IInv, InvSend, InvLoop
  <2> QED BY <2>3, <2>4
<1> QED BY <1>2, <1>3

\* A segment of any bytes that fits the buffer preserves IInv.
LEMMA ReceivePreserves ==
  ASSUME IInv, NEW seg \in Seq(Byte), Len(seg) \in 1..PacketSize, Receive(seg)
  PROVE  IInv'
<1> USE DEF IInv
<1>1. data' \in [1..PacketSize -> Byte]
  <2>1. \A i \in 1..Len(seg) : seg[i] \in Byte
    BY ElementOfSeq
  <2> QED BY <2>1, PacketSizeAssumption DEF Receive, TypeOK
<1>2. TypeOK'
  BY <1>1, BeyondAssumption DEF Receive, TypeOK, context, Running
<1>3. InvLoop'
  BY DEF Receive, InvLoop, context
<1> QED BY <1>2, <1>3 DEF Receive, InvSend, InvJoin

\* Every step of the connection preserves IInv.
LEMMA StepPreserves == IInv /\ [Next]_vars => IInv'
<1> SUFFICES ASSUME IInv, [Next]_vars PROVE IInv'
  OBVIOUS
<1> USE DEF IInv
<1>1. ASSUME NEW seg \in Segments, Receive(seg) PROVE IInv'
  BY <1>1, SegmentsAssumption, ReceivePreserves
<1>2. CASE ReceiveNothing
  BY <1>2, PacketSizeAssumption
     DEF ReceiveNothing, TypeOK, InvLoop, InvSend, InvJoin, context, Ended
<1>3. CASE ExecuteReturns
  BY <1>3 DEF ExecuteReturns, TypeOK, InvLoop, InvSend, InvJoin, context,
              buffer, Running
<1>4. CASE ExecuteThrows
  BY <1>4 DEF ExecuteThrows, TypeOK, InvLoop, InvSend, InvJoin, context,
              buffer, Ended
<1>5. CASE ExecuteFaults
  BY <1>5 DEF ExecuteFaults, TypeOK, InvLoop, InvSend, InvJoin, context,
              buffer, Ended
<1>6. CASE Dispatch
  BY <1>6, DispatchPreserves
<1>7. CASE Send
  BY <1>7, SendPreserves
<1>8. CASE SendThrows
  BY <1>8 DEF SendThrows, TypeOK, InvLoop, InvSend, InvJoin, context, buffer,
              Ended
<1>9. CASE ReadChunk
  <2>1. TypeOK'
    BY <1>9, ChunkBatchLinked DEF ReadChunk, TypeOK, context, buffer, Running
  <2>2. Msg("Chunk", NumChunks) \in BatchEnds("PLAY") /\ ChunkBatch # << >>
    BY ChunkBatchLinked, NumChunksAssumption DEF BatchEnds
  <2>3. Contract!Follows(Msg("ChunkCenter", 0), Msg("Chunk", 1))
    BY DEF Contract!Follows, Contract!Msg, Msg
  <2>4. InvSend'
    BY <1>9, <2>2, <2>3, ChunkBatchLinked
       DEF ReadChunk, InvSend, InvJoin, context
  <2> QED BY <1>9, <2>1, <2>4 DEF ReadChunk, InvLoop, InvJoin
<1>10. CASE ReadChunkThrows
  BY <1>10 DEF ReadChunkThrows, TypeOK, InvLoop, InvSend, InvJoin, context,
               buffer, Ended
<1>11. CASE PlayLoop
  <2>1. Msg("Sync", 0) \in Message
    BY DEF Message, Single
  <2> QED BY <1>11, <2>1 DEF PlayLoop, Transmit, TypeOK, InvLoop, InvSend,
                             InvJoin, context, buffer
<1>12. CASE ClientLeaves
  BY <1>12 DEF ClientLeaves, TypeOK, InvLoop, InvSend, InvJoin, buffer
<1>13. CASE UNCHANGED vars
  BY <1>13 DEF vars, context, buffer, TypeOK, InvLoop, InvSend, InvJoin
<1> QED BY <1>1, <1>2, <1>3, <1>4, <1>5, <1>6, <1>7, <1>8, <1>9, <1>10, <1>11,
           <1>12, <1>13 DEF Next, HandlerStep, Execute

\* The connection's state is well typed and its thread, its state, what it
\* has sent and what it has still to send agree, whatever the client does.
THEOREM Invariance == Spec => []IInv
<1>1. Init => IInv
  BY PacketSizeAssumption, BeyondAssumption
     DEF Init, IInv, TypeOK, InvLoop, InvSend, InvJoin, Ready, Running, States,
         Byte
<1>2. IInv /\ [Next]_vars => IInv'
  BY StepPreserves
<1> QED BY <1>1, <1>2, PTL DEF Spec

\* The type invariant that the runs check.
THEOREM TypeCorrect == Spec => []TypeOK
<1>1. IInv => TypeOK
  BY DEF IInv
<1> QED BY <1>1, Invariance, PTL

-----------------------------------------------------------------------------
(* What follows from it.                                                   *)

\* A step of the connection is a step of the contract or changes nothing in it.
LEMMA StepRefines == IInv /\ [Next]_vars => [Contract!Next]_(Contract!vars)
<1> SUFFICES ASSUME IInv, [Next]_vars
             PROVE  Contract!Next \/ UNCHANGED Contract!vars
  BY DEF Contract!vars
<1>a. Message = Contract!Message
  BY DEF Message, Contract!Message, Msg, Contract!Msg, Single,
         Contract!Single
<1>1. CASE Send
  <2>1. pc \in Running /\ pc' \in Running /\ Head(todo) \in Message
    BY <1>1, HeadTailProperties
       DEF Send, AfterBatch, IInv, TypeOK, InvSend, Running
  <2>2. CASE peerOpen
    BY <1>1, <2>1, <2>2, <1>a
       DEF Send, Transmit, IInv, InvSend, Contract!Next, Contract!Deliver
  <2>3. CASE ~peerOpen
    BY <1>1, <2>1, <2>3 DEF Send, Transmit, Contract!vars
  <2> QED BY <2>2, <2>3
<1>2. CASE PlayLoop
  <2>1. pc = "playloop" /\ pc' = pc
    BY <1>2 DEF PlayLoop
  <2>2. CASE peerOpen
    <3>1. Contract!Follows(sent, Msg("Sync", 0)) /\ Msg("Sync", 0) \in Message
      BY <2>1, <2>2, NumChunksAssumption
         DEF IInv, InvJoin, Contract!Follows, Contract!Msg, Msg, Message, Single
    <3> QED BY <1>2, <2>1, <2>2, <3>1, <1>a
            DEF PlayLoop, Transmit, Contract!Next, Contract!Deliver, Running
  <2>3. CASE ~peerOpen
    BY <1>2, <2>1, <2>3 DEF PlayLoop, Transmit, Contract!vars
  <2> QED BY <2>2, <2>3
<1>3. CASE ReceiveNothing \/ ExecuteThrows \/ ExecuteFaults \/ SendThrows
             \/ ReadChunkThrows
  BY <1>3 DEF ReceiveNothing, ExecuteThrows, ExecuteFaults, SendThrows,
              ReadChunkThrows, Contract!Next, Contract!Close, Running
<1>4. CASE (\E seg \in Segments : Receive(seg)) \/ ExecuteReturns \/ ReadChunk
  BY <1>4 DEF Receive, ExecuteReturns, ReadChunk, Contract!vars, Running
<1>5. CASE Dispatch
  BY <1>5 DEF Dispatch, OnHandshake, OnStatusRequest, OnPing, OnLoginStart,
              OnLoginAck, OnKnownPacks, OnAckConfig, Handle, Contract!vars,
              Running
<1>6. CASE ClientLeaves \/ UNCHANGED vars
  BY <1>6 DEF ClientLeaves, vars, Contract!vars
<1> QED BY <1>1, <1>2, <1>3, <1>4, <1>5, <1>6
        DEF Next, HandlerStep, Execute

\* The connection implements the session contract: whatever bytes arrive,
\* however they are cut and whatever lies behind the buffer, the client sees
\* only contractual messages in contractual order.
THEOREM Refinement == Spec => ImplementsContract
<1>1. Init => Contract!Init
  BY DEF Init, Contract!Init, None, Contract!None, Msg, Contract!Msg, Running
<1>2. IInv /\ [Next]_vars => [Contract!Next]_(Contract!vars)
  BY StepRefines
<1> QED BY <1>1, <1>2, Invariance, PTL DEF Spec, ImplementsContract, Contract!Spec

\* Once in PLAY a session neither receives nor parses, and stays in PLAY.
THEOREM Deaf == Spec => DeafOncePlaying
<1>1. IInv /\ [Next]_vars
        => [m_state = "PLAY" => UNCHANGED <<m_state, data, recv, packetsIter>>]_vars
  <2> SUFFICES ASSUME IInv, Next, m_state = "PLAY"
               PROVE  UNCHANGED <<m_state, data, recv, packetsIter>>
    OBVIOUS
  <2>1. pc \notin {"receive", "execute"}
    BY DEF IInv, InvLoop
  <2> QED BY <2>1
          DEF Next, HandlerStep, Execute, Dispatch, Receive, ReceiveNothing,
              ExecuteReturns, ExecuteThrows, ExecuteFaults, OnHandshake,
              OnStatusRequest, OnPing, OnLoginStart, OnLoginAck, OnKnownPacks,
              OnAckConfig, Handle, Send, SendThrows, ReadChunk,
              ReadChunkThrows, PlayLoop, ClientLeaves, buffer
<1> QED BY <1>1, Invariance, PTL DEF Spec, DeafOncePlaying

\* A VarInt that ends in memory is read to its end.
LEMMA VarIntRead ==
  ASSUME NEW mem \in Seq(Byte), NEW it \in Iterator, it.st = "ok",
         NEW n \in 1..MaxVarIntBytes, EndsAfter(mem, it.pos, n)
  PROVE  readVarInt(mem)[it]
           = [st |-> "ok", pos |-> it.pos + n, val |-> VarIntValue(mem, it.pos, n)]
<1> DEFINE p == it.pos
           k == CHOOSE m \in 1..MaxVarIntBytes : EndsAfter(mem, p, m)
<1>1. ASSUME NEW m \in 1..MaxVarIntBytes, NEW l \in 1..MaxVarIntBytes,
             EndsAfter(mem, p, m), EndsAfter(mem, p, l), m < l
      PROVE  FALSE
  <2>1. m \in 1..(l - 1)
    BY <1>1 DEF MaxVarIntBytes
  <2> QED BY <1>1, <2>1 DEF EndsAfter
<1>2. k = n
  <2>1. k \in 1..MaxVarIntBytes /\ EndsAfter(mem, p, k)
    OBVIOUS
  <2> HIDE DEF k
  <2> QED BY <1>1, <2>1 DEF MaxVarIntBytes
<1>3. readVarInt(mem)[it]
        = [st |-> "ok", pos |-> p + k, val |-> VarIntValue(mem, p, k)]
  BY DEF readVarInt
<1> HIDE DEF k
<1> QED BY <1>2, <1>3

\* A byte below 128 is a VarInt that says its value.
LEMMA OneByteVarInt ==
  ASSUME NEW mem \in Seq(Byte), NEW it \in Iterator, it.st = "ok",
         it.pos <= Len(mem), mem[it.pos] < 128
  PROVE  readVarInt(mem)[it] = [st |-> "ok", pos |-> it.pos + 1, val |-> mem[it.pos]]
<1> DEFINE p == it.pos
           b == mem[p]
<1>1. p \in 1..Len(mem) /\ p + 1 - 1 = p /\ b \in 0..127
  <2>1. p \in 1..Len(mem) /\ p + 1 - 1 = p
    BY DEF Iterator
  <2>2. b \in 0..255
    BY <2>1, ElementOfSeq DEF Byte
  <2>3. b < 128
    OBVIOUS
  <2> HIDE DEF b
  <2>4. b \in 0..127
    BY <2>2, <2>3
  <2> QED BY <2>1, <2>4
<1>2. EndsAfter(mem, p, 1) /\ 1 \in 1..MaxVarIntBytes
  <2>1. 1 \in 1..MaxVarIntBytes /\ 1..(1 - 1) = {}
    BY DEF MaxVarIntBytes
  <2>2. ~Continues(b)
    <3> HIDE DEF b
    <3> QED BY <1>1 DEF Continues
  <2> QED BY <1>1, <2>1, <2>2 DEF EndsAfter
<1>3. VarIntValue(mem, p, 1) = b
  <2>1. SegmentAt(mem, p, 1, 1) = b
    <3>1. SegmentAt(mem, p, 1, 1) = b % 128
      BY <1>1 DEF SegmentAt
    <3> HIDE DEF b
    <3>2. b % 128 = b
      BY <1>1
    <3> QED BY <3>1, <3>2
  <2>2. /\ SegmentAt(mem, p, 1, 2) = 0 /\ SegmentAt(mem, p, 1, 3) = 0
        /\ SegmentAt(mem, p, 1, 4) = 0 /\ SegmentAt(mem, p, 1, 5) = 0
    BY DEF SegmentAt
  <2>3. TopNibble(0) = 0
    BY DEF TopNibble
  <2> HIDE DEF b
  <2> QED BY <1>1, <2>1, <2>2, <2>3, SMT DEF VarIntValue
<1> QED BY <1>2, <1>3, VarIntRead

\* A VarInt whose first byte does not have 3 in its low seven bits is not 3.
LEMMA NotThree ==
  ASSUME NEW mem \in Seq(Byte), NEW it \in Iterator, it.st = "ok",
         \A i \in it.pos..Len(mem) : mem[i] % 128 # 3,
         readVarInt(mem)[it].st = "ok"
  PROVE  readVarInt(mem)[it].val # 3
<1> DEFINE p == it.pos
<1>1. PICK n \in 1..MaxVarIntBytes : EndsAfter(mem, p, n)
  BY DEF readVarInt, Failed
<1>2. readVarInt(mem)[it].val = VarIntValue(mem, p, n)
  <2>1. readVarInt(mem)[it]
          = [st |-> "ok", pos |-> p + n, val |-> VarIntValue(mem, p, n)]
    BY <1>1, VarIntRead
  <2> QED BY <2>1
<1> DEFINE S(k) == SegmentAt(mem, p, n, k)
           s1 == S(1)  s2 == S(2)  s3 == S(3)  s4 == S(4)  s5 == S(5)
           top == TopNibble(s5)
<1>3. p \in Nat \ {0} /\ p + n - 1 <= Len(mem) /\ n \in 1..5
  BY <1>1 DEF EndsAfter, Iterator, MaxVarIntBytes
<1>4. ASSUME NEW k \in 1..5 PROVE S(k) \in 0..127
  <2>1. CASE k <= n
    <3> DEFINE i == p + k - 1  b == mem[i]
    <3>1. i \in 1..Len(mem)
      BY <1>3, <2>1
    <3>2. S(k) = b % 128
      BY <2>1 DEF SegmentAt
    <3> HIDE DEF i
    <3>3. b \in 0..255
      BY <3>1, ElementOfSeq DEF Byte
    <3> HIDE DEF b
    <3> QED BY <3>2, <3>3
  <2>2. CASE ~(k <= n)
    BY <2>2 DEF SegmentAt
  <2> QED BY <2>1, <2>2
<1>5. s1 # 3
  <2>1. p \in p..Len(mem) /\ p + 1 - 1 = p
    BY <1>3
  <2>2. s1 = mem[p] % 128
    BY <1>3, <2>1 DEF SegmentAt
  <2> QED BY <2>1, <2>2
<1>6. s1 \in 0..127 /\ s2 \in Int /\ s3 \in Int /\ s4 \in Int /\ s5 \in 0..127
  <2>1. s1 \in 0..127 /\ s2 \in 0..127 /\ s3 \in 0..127 /\ s4 \in 0..127 /\ s5 \in 0..127
    BY <1>4
  <2> HIDE DEF s1, s2, s3, s4, s5
  <2> QED BY <2>1
<1>7. top \in Int
  <2>1. \A k \in 0..127 : TopNibble(k) \in Int
    BY DEF TopNibble
  <2> HIDE DEF s5
  <2> QED BY <1>6, <2>1
<1>8. VarIntValue(mem, p, n)
        = s1 + 128 * s2 + 16384 * s3 + 2097152 * s4 + 268435456 * top
  BY SMT DEF VarIntValue
<1> HIDE DEF s1, s2, s3, s4, s5, top
<1> QED BY <1>2, <1>5, <1>6, <1>7, <1>8, SMT

\* As long as the buffer is zero behind the bytes received last, no packet
\* is taken from there.
THEOREM ZeroFill == Spec => NoPacketFromZeroFill
<1> DEFINE P == pc = "execute" /\ packetsIter' # packetsIter /\ ZeroFilled
                  => packetsIter \notin (recv + 1)..PacketSize
<1>1. IInv /\ [Next]_vars => [P]_vars
  <2> SUFFICES ASSUME IInv, Next, pc = "execute", packetsIter' # packetsIter,
                      ZeroFilled, packetsIter \in (recv + 1)..PacketSize
               PROVE  FALSE
    OBVIOUS
  <2>1. PICK k \in Kinds : Taken.kind = k
    BY DEF Next, HandlerStep, Execute, Dispatch, Receive, ReceiveNothing,
           ExecuteReturns, ExecuteThrows, ExecuteFaults, OnHandshake,
           OnStatusRequest, OnPing, OnLoginStart, OnLoginAck, OnKnownPacks,
           OnAckConfig, Handle, Send, SendThrows, ReadChunk, ReadChunkThrows,
           PlayLoop, ClientLeaves, Kinds
  <2>2. /\ data \in Seq(Byte) /\ Len(data) = PacketSize /\ beyond \in Seq(Byte)
        /\ data[packetsIter] = 0 /\ packetsIter \in 1..PacketSize
    BY PacketSizeAssumption DEF IInv, TypeOK, ZeroFilled
  <2>3. packetsIter <= Len(Mem) /\ Mem[packetsIter] = 0
    BY <2>2, ConcatProperties DEF Mem
  <2>4. Mem \in Seq(Byte) /\ At(packetsIter) \in Iterator
    BY TakenResult DEF IInv
  <2>5. At(packetsIter).st = "ok" /\ At(packetsIter).pos = packetsIter
    BY DEF At
  <2>6. readVarInt(Mem)[At(packetsIter)].val = 0
    <3> DEFINE it == At(packetsIter)
    <3>1. it \in Iterator /\ it.st = "ok" /\ it.pos <= Len(Mem) /\ Mem[it.pos] = 0
      BY <2>3, <2>4, <2>5
    <3> HIDE DEF it
    <3>2. readVarInt(Mem)[it] = [st |-> "ok", pos |-> it.pos + 1, val |-> Mem[it.pos]]
      BY <2>4, <3>1, OneByteVarInt
    <3> QED BY <3>1, <3>2 DEF it
  <2>7. Taken.kind = "null"
    BY <2>6 DEF Taken, NextPacket, NoPacket
  <2> QED BY <2>1, <2>7 DEF Kinds
<1> QED BY <1>1, Invariance, PTL DEF Spec, NoPacketFromZeroFill

-----------------------------------------------------------------------------
(* A session with a client: what Execute makes of its bytes.               *)

\* The iterator never goes back.
LEMMA ReadsForward ==
  ASSUME NEW mem \in Seq(Byte)
  PROVE  /\ \A it \in Iterator : readVarInt(mem)[it].pos >= it.pos
         /\ \A it \in Iterator, n \in Int, k \in Nat : readBytes(mem, n, k)[it].pos >= it.pos
         /\ \A it \in Iterator : readString(mem)[it].pos >= it.pos
<1>1. ASSUME NEW it \in Iterator PROVE readVarInt(mem)[it].pos >= it.pos
  <2>1. CASE it.st = "ok" /\ \E m \in 1..MaxVarIntBytes : EndsAfter(mem, it.pos, m)
    <3>1. PICK n \in 1..MaxVarIntBytes : EndsAfter(mem, it.pos, n)
      BY <2>1
    <3>2. readVarInt(mem)[it]
            = [st |-> "ok", pos |-> it.pos + n, val |-> VarIntValue(mem, it.pos, n)]
      BY <2>1, <3>1, VarIntRead
    <3> QED BY <3>2 DEF Iterator, MaxVarIntBytes
  <2>2. CASE ~(it.st = "ok" /\ \E m \in 1..MaxVarIntBytes : EndsAfter(mem, it.pos, m))
    <3>1. readVarInt(mem)[it] \in {it, Failed(it, "throw"), Failed(it, "fault")}
      BY <2>2 DEF readVarInt
    <3> QED BY <3>1 DEF Iterator, Failed
  <2> QED BY <2>1, <2>2
<1>2. ASSUME NEW it \in Iterator, NEW n \in Int, NEW k \in Nat
      PROVE  readBytes(mem, n, k)[it].pos >= it.pos
  <2>1. readBytes(mem, n, k)[it] \in {it, Failed(it, "fault"), At(it.pos + k)}
    BY DEF readBytes
  <2> QED BY <2>1 DEF Iterator, Failed, At
<1>3. ASSUME NEW it \in Iterator PROVE readString(mem)[it].pos >= it.pos
  <2> DEFINE size == readVarInt(mem)[it]
  <2>1. size \in Iterator /\ size.pos >= it.pos
    BY <1>1, readVarIntType
  <2>2. readString(mem)[it]
          = IF size.st = "ok" /\ size.val < 0 THEN Failed(size, "throw")
            ELSE readBytes(mem, size.val, size.val)[size]
    BY DEF readString
  <2> HIDE DEF size
  <2>3. CASE size.st = "ok" /\ size.val < 0
    BY <2>1, <2>2, <2>3 DEF Failed
  <2>4. CASE size.st # "ok"
    BY <2>1, <2>2, <2>4 DEF readBytes
  <2>5. CASE size.st = "ok" /\ size.val >= 0
    <3>1. size.val \in Nat
      BY <2>1, <2>5 DEF Iterator
    <3>2. readBytes(mem, size.val, size.val)[size].pos >= size.pos
      BY <1>2, <2>1, <3>1
    <3>3. readBytes(mem, size.val, size.val)[size] \in Iterator
      BY <2>1, <3>1, readBytesType
    <3> QED BY <2>1, <2>2, <2>5, <3>1, <3>2, <3>3 DEF Iterator
  <2> QED BY <2>1, <2>3, <2>4, <2>5 DEF Iterator
<1> QED BY <1>1, <1>2, <1>3

\* Neither does a packet constructor move it back.
LEMMA ConstructForward ==
  ASSUME NEW mem \in Seq(Byte), NEW it \in Iterator, NEW kind
  PROVE  Construct(kind, mem, it).pos >= it.pos
<1>1. ASSUME NEW a \in Iterator, NEW b \in Iterator, b.pos >= a.pos, a.pos >= it.pos
      PROVE  b.pos >= it.pos
  BY <1>1 DEF Iterator
<1>2. HandshakePacket(mem, it).pos >= it.pos
  <2> DEFINE a == readVarInt(mem)[it]
             b == readString(mem)[a]
             c == readBytes(mem, 2, 2)[b]
             d == readVarInt(mem)[c]
  <2>1. a \in Iterator /\ a.pos >= it.pos
    BY readVarIntType, ReadsForward
  <2> HIDE DEF a
  <2>2. b \in Iterator /\ b.pos >= a.pos
    BY <2>1, readStringType, ReadsForward
  <2> HIDE DEF b
  <2>3. c \in Iterator /\ c.pos >= b.pos
    BY <2>2, readBytesType, ReadsForward
  <2> HIDE DEF c
  <2>4. d \in Iterator /\ d.pos >= c.pos
    BY <2>3, readVarIntType, ReadsForward
  <2>5. d = HandshakePacket(mem, it)
    BY DEF HandshakePacket, a, b, c
  <2> HIDE DEF d
  <2> QED BY <2>1, <2>2, <2>3, <2>4, <2>5 DEF Iterator
<1>3. PingRequest(mem, it).pos >= it.pos
  BY ReadsForward, PayloadSizeAssumption DEF PingRequest
<1>4. LoginStartPacket(mem, it).pos >= it.pos
  <2> DEFINE a == readString(mem)[it]
             b == readBytes(mem, 1, 1)[a]
             c == readBytes(mem, UuidSize, UuidSize)[b]
  <2>1. a \in Iterator /\ a.pos >= it.pos
    BY readStringType, ReadsForward
  <2> HIDE DEF a
  <2>2. b \in Iterator /\ b.pos >= a.pos
    BY <2>1, readBytesType, ReadsForward
  <2> HIDE DEF b
  <2>3. c \in Iterator /\ c.pos >= b.pos
    BY <2>2, readBytesType, ReadsForward, UuidSizeAssumption
  <2>4. c = LoginStartPacket(mem, it)
    BY DEF LoginStartPacket, a, b
  <2> HIDE DEF c
  <2> QED BY <2>1, <2>2, <2>3, <2>4 DEF Iterator
<1>5. KnownPacksPacket(mem, it).pos >= it.pos
  <2> DEFINE a == readVarInt(mem)[it]
             b == readString(mem)[a]
             c == readString(mem)[b]
             d == readString(mem)[c]
  <2>1. a \in Iterator /\ a.pos >= it.pos
    BY readVarIntType, ReadsForward
  <2> HIDE DEF a
  <2>2. b \in Iterator /\ b.pos >= a.pos
    BY <2>1, readStringType, ReadsForward
  <2> HIDE DEF b
  <2>3. c \in Iterator /\ c.pos >= b.pos
    BY <2>2, readStringType, ReadsForward
  <2> HIDE DEF c
  <2>4. d \in Iterator /\ d.pos >= c.pos
    BY <2>3, readStringType, ReadsForward
  <2>5. d = KnownPacksPacket(mem, it)
    BY DEF KnownPacksPacket, a, b, c
  <2> HIDE DEF d
  <2> QED BY <2>1, <2>2, <2>3, <2>4, <2>5 DEF Iterator
<1> QED BY <1>2, <1>3, <1>4, <1>5 DEF Construct, Iterator

\* Nor does NextPacket move it back; and where no byte from the iterator on has
\* 3 in its low seven bits, it finds no acknowledgement.
LEMMA NextPacketForward ==
  ASSUME NEW mem \in Seq(Byte), NEW it \in Iterator, NEW state,
         NEW next, next = NextPacket(state, mem, it)
  PROVE  /\ next.it.pos >= it.pos
         /\ it.st = "ok" /\ (\A i \in it.pos..Len(mem) : mem[i] % 128 # 3)
              => next.kind \notin {"LoginAck", "AckConfig"}
<1> DEFINE size == readVarInt(mem)[it]
           id == readVarInt(mem)[size]
           kind == KindOf(state, id.val)
           done == Construct(kind, mem, id)
<1>1. /\ size \in Iterator /\ size.pos >= it.pos
      /\ id \in Iterator /\ id.pos >= size.pos
      /\ done \in Iterator /\ done.pos >= id.pos
  BY readVarIntType, ReadsForward, ConstructType, ConstructForward
<1>2. \/ next \in {[kind |-> "null", it |-> size], [kind |-> "null", it |-> id],
                   [kind |-> "null", it |-> done]}
      \/ next = [kind |-> kind, it |-> done] /\ size.st = "ok" /\ id.st = "ok"
  BY DEF NextPacket, NoPacket
<1>3. ASSUME size.st = "ok", id.st = "ok", \A i \in it.pos..Len(mem) : mem[i] % 128 # 3
      PROVE  kind \notin {"LoginAck", "AckConfig"}
  <2>1. \A i \in size.pos..Len(mem) : i \in it.pos..Len(mem)
    <3> HIDE DEF size
    <3> QED BY <1>1 DEF Iterator
  <2>2. \A i \in size.pos..Len(mem) : mem[i] % 128 # 3
    BY <1>3, <2>1
  <2>3. id.val # 3
    <3> HIDE DEF size
    <3> QED BY <1>1, <1>3, <2>2, NotThree
  <2> HIDE DEF id
  <2> QED BY <2>3 DEF KindOf
<1> HIDE DEF size, id, kind, done
<1>4. next.it.pos >= it.pos
  BY <1>1, <1>2 DEF Iterator
<1> QED BY <1>2, <1>3, <1>4

\* A zero where a packet should begin ends Execute.
LEMMA ZeroTaken ==
  ASSUME NEW mem \in Seq(Byte), NEW p \in 1..Len(mem), mem[p] = 0, NEW state
  PROVE  /\ NextPacket(state, mem, At(p)).kind = "null"
         /\ NextPacket(state, mem, At(p)).it.st = "ok"
<1> DEFINE it == At(p)
<1>1. it \in Iterator /\ it.st = "ok" /\ it.pos = p
  BY DEF At, Iterator, Outcome
<1> HIDE DEF it
<1>2. readVarInt(mem)[it] = [st |-> "ok", pos |-> p + 1, val |-> 0]
  BY <1>1, OneByteVarInt
<1>3. NextPacket(state, mem, it) = [kind |-> "null", it |-> readVarInt(mem)[it]]
  BY <1>2 DEF NextPacket, NoPacket
<1> QED BY <1>2, <1>3 DEF it

\* A login acknowledgement is taken for one.
LEMMA LoginAckTaken ==
  ASSUME NEW mem \in Seq(Byte), Len(mem) >= 2, mem[1] = 1, mem[2] = 3
  PROVE  /\ NextPacket("LOGIN", mem, At(1)).kind = "LoginAck"
         /\ NextPacket("LOGIN", mem, At(1)).it.st = "ok"
         /\ NextPacket("LOGIN", mem, At(1)).it.pos = 3
<1> DEFINE it == At(1)
           size == [st |-> "ok", pos |-> 2, val |-> 1]
           id == [st |-> "ok", pos |-> 3, val |-> 3]
<1>1. it \in Iterator /\ it.st = "ok" /\ it.pos = 1
  BY DEF At, Iterator, Outcome
<1>2. size \in Iterator /\ size.st = "ok" /\ size.pos = 2 /\ size.val = 1
  BY DEF Iterator, Outcome
<1>3. id.st = "ok" /\ id.pos = 3 /\ id.val = 3
  OBVIOUS
<1> HIDE DEF it
<1>4. readVarInt(mem)[it] = size
  <2>1. readVarInt(mem)[it] = [st |-> "ok", pos |-> it.pos + 1, val |-> mem[it.pos]]
    BY <1>1, OneByteVarInt
  <2> QED BY <1>1, <2>1
<1>5. readVarInt(mem)[size] = id
  <2>1. size.pos <= Len(mem) /\ mem[size.pos] < 128 /\ mem[size.pos] = 3
    OBVIOUS
  <2> HIDE DEF size
  <2>2. readVarInt(mem)[size] = [st |-> "ok", pos |-> size.pos + 1, val |-> mem[size.pos]]
    BY <1>2, <2>1, OneByteVarInt
  <2> QED BY <1>2, <2>1, <2>2
<1> HIDE DEF size, id
<1>6. KindOf("LOGIN", id.val) = "LoginAck"
  BY <1>3 DEF KindOf
<1>7. NextPacket("LOGIN", mem, it) = [kind |-> "LoginAck", it |-> id]
  BY <1>2, <1>3, <1>4, <1>5, <1>6 DEF NextPacket, NoPacket, Construct
<1> QED BY <1>3, <1>7 DEF it

\* Sequences of bytes are sequences of numbers: a length may be put in front.
LEMMA BytesAreNumbers == \A s \in Seq(Byte) : s \in Seq(Nat) /\ Len(s) \in Nat
<1> SUFFICES ASSUME NEW s \in Seq(Byte) PROVE s \in Seq(Nat) /\ Len(s) \in Nat
  OBVIOUS
<1>1. Byte \subseteq Nat
  <2>1. \A b \in Byte : b \in Nat
    BY DEF Byte
  <2> QED BY <2>1
<1> HIDE DEF Byte
<1>2. s \in Seq(Nat)
  BY <1>1, SeqMonotonic
<1> QED BY <1>2, LenProperties

\* A concatenation is its parts, one behind the other.
LEMMA Concat ==
  ASSUME NEW S, NEW s \in Seq(S), NEW t \in Seq(S), NEW u, u = s \o t
  PROVE  /\ u \in Seq(S) /\ Len(s) \in Nat /\ Len(t) \in Nat /\ Len(u) = Len(s) + Len(t)
         /\ \A i \in 1..Len(s) : u[i] = s[i]
         /\ \A i \in 1..Len(t) : u[Len(s) + i] = t[i]
<1>1. /\ u \in Seq(S) /\ Len(s) \in Nat /\ Len(t) \in Nat /\ Len(u) = Len(s) + Len(t)
      /\ \A i \in 1..(Len(s) + Len(t)) : u[i] = IF i <= Len(s) THEN s[i] ELSE t[i - Len(s)]
  BY ConcatProperties, LenProperties
<1>2. ASSUME NEW i \in 1..Len(s) PROVE u[i] = s[i]
  BY <1>1
<1>3. ASSUME NEW i \in 1..Len(t) PROVE u[Len(s) + i] = t[i]
  <2> DEFINE k == Len(s) + i
  <2>1. k \in 1..(Len(s) + Len(t)) /\ ~(k <= Len(s)) /\ k - Len(s) = i
    BY <1>1
  <2> HIDE DEF k
  <2>2. u[k] = t[k - Len(s)]
    BY <1>1, <2>1
  <2> QED BY <2>1, <2>2 DEF k
<1> QED BY <1>1, <1>2, <1>3

\* The same for numbers, which may all be bytes.
LEMMA NumberConcat ==
  ASSUME NEW s \in Seq(Nat), NEW t \in Seq(Nat), NEW u, u = s \o t
  PROVE  /\ u \in Seq(Nat) /\ Len(s) \in Nat /\ Len(t) \in Nat /\ Len(u) = Len(s) + Len(t)
         /\ \A i \in 1..Len(s) : u[i] = s[i]
         /\ \A i \in 1..Len(t) : u[Len(s) + i] = t[i]
         /\ s \in Seq(Byte) /\ t \in Seq(Byte) => u \in Seq(Byte)
<1>1. ASSUME s \in Seq(Byte), t \in Seq(Byte) PROVE u \in Seq(Byte)
  BY <1>1, Concat
<1>2. /\ u \in Seq(Nat) /\ Len(s) \in Nat /\ Len(t) \in Nat /\ Len(u) = Len(s) + Len(t)
      /\ \A i \in 1..Len(s) : u[i] = s[i]
      /\ \A i \in 1..Len(t) : u[Len(s) + i] = t[i]
  BY Concat
<1> QED BY <1>1, <1>2

\* A length in front, as in strings and packets.
LEMMA LengthInFront ==
  ASSUME NEW s \in Seq(Nat), NEW t, t = <<Len(s)>> \o s
  PROVE  /\ t \in Seq(Nat) /\ Len(s) \in Nat /\ Len(t) = 1 + Len(s) /\ t[1] = Len(s)
         /\ \A i \in 1..Len(s) : t[1 + i] = s[i]
         /\ s \in Seq(Byte) /\ Len(s) <= 255 => t \in Seq(Byte)
<1> DEFINE l == <<Len(s)>>
<1>1. Len(s) \in Nat
  BY LenProperties
<1>2. l \in Seq(Nat) /\ Len(l) = 1 /\ l[1] = Len(s)
  BY <1>1
<1>3. ASSUME s \in Seq(Byte), Len(s) <= 255 PROVE t \in Seq(Byte)
  <2>1. Len(s) \in Byte
    <3> DEFINE k == Len(s)
    <3>1. k \in Nat /\ k <= 255
      BY <1>1, <1>3
    <3> HIDE DEF k
    <3>2. k \in Byte
      BY <3>1 DEF Byte
    <3> QED BY <3>2 DEF k
  <2>2. l \in Seq(Byte)
    <3> DEFINE k == Len(s)
    <3>1. k \in Byte
      BY <2>1
    <3> HIDE DEF k
    <3>2. <<k>> \in Seq(Byte)
      BY <3>1
    <3> QED BY <3>2 DEF k
  <2> QED BY <1>3, <2>2, Concat
<1> HIDE DEF l
<1>4. t = l \o s
  BY DEF l
<1>5. /\ t \in Seq(Nat) /\ Len(t) = Len(l) + Len(s)
      /\ \A i \in 1..Len(l) : t[i] = l[i]
      /\ \A i \in 1..Len(s) : t[Len(l) + i] = s[i]
  BY <1>2, <1>4, Concat
<1> QED BY <1>1, <1>2, <1>3, <1>5

-----------------------------------------------------------------------------
(* A session with a client: its packets, and what Execute makes of them.   *)

\* Where the fields of a client's handshake are.
LEMMA HandshakeIs ==
  ASSUME NEW c \in Clients, NEW P, P = PacketBytes(c, "Handshake")
  PROVE  /\ P \in Seq(Byte) /\ Len(c.version) \in Nat /\ Len(c.address) \in Nat
         /\ Len(P) = Len(c.version) + Len(c.address) + 6 /\ Len(P) <= 128
         /\ P[1] = Len(P) - 1 /\ P[2] = 0
         /\ \A i \in 1..Len(c.version) : P[2 + i] = c.version[i]
         /\ P[3 + Len(c.version)] = Len(c.address)
         /\ P[Len(P)] = RequestedNext(c)
<1> DEFINE v == c.version
           a == c.address
           strA == Str(a)
           zero == <<0>>
           next == <<RequestedNext(c)>>
           b1 == zero \o v
           b2 == b1 \o strA
           b3 == b2 \o c.port
           b4 == b3 \o next
<1>1. /\ v \in Seq(Byte) /\ a \in Seq(Byte) /\ c.port \in Seq(Byte) /\ Len(c.port) = 2
      /\ Len(P) <= 128
  BY ClientsAssumption DEF ClientRecord, Kinds
<1>2. v \in Seq(Nat) /\ a \in Seq(Nat) /\ c.port \in Seq(Nat) /\ Len(v) \in Nat /\ Len(a) \in Nat
  BY <1>1, BytesAreNumbers
<1>3. P = <<Len(b4)>> \o b4 /\ strA = <<Len(a)>> \o a
  BY DEF PacketBytes, Frame, Str
<1>4. /\ zero \in Seq(Byte) /\ zero \in Seq(Nat) /\ Len(zero) = 1 /\ zero[1] = 0
      /\ next \in Seq(Byte) /\ next \in Seq(Nat) /\ Len(next) = 1 /\ next[1] = RequestedNext(c)
  BY DEF RequestedNext, Byte
<1>5. b1 = zero \o v /\ b2 = b1 \o strA /\ b3 = b2 \o c.port /\ b4 = b3 \o next
  OBVIOUS
<1> HIDE DEF v, a, strA, zero, next, b1, b2, b3, b4
<1>6. /\ strA \in Seq(Nat) /\ Len(strA) = 1 + Len(a) /\ strA[1] = Len(a)
      /\ Len(a) <= 255 => strA \in Seq(Byte)
  BY <1>1, <1>2, <1>3, LengthInFront
<1>7. /\ b1 \in Seq(Nat) /\ b1 \in Seq(Byte) /\ Len(b1) = 1 + Len(v) /\ b1[1] = 0
      /\ \A i \in 1..Len(v) : b1[1 + i] = v[i]
  <2>1. /\ b1 \in Seq(Nat) /\ Len(b1) = Len(zero) + Len(v)
        /\ \A i \in 1..Len(zero) : b1[i] = zero[i]
        /\ \A i \in 1..Len(v) : b1[Len(zero) + i] = v[i]
    <3>1. zero \in Seq(Nat) /\ v \in Seq(Nat) /\ b1 = zero \o v
      BY <1>2, <1>4, <1>5
    <3> QED BY <3>1, NumberConcat
  <2>2. b1 \in Seq(Byte)
    BY <1>1, <1>2, <1>4, <1>5, NumberConcat
  <2> QED BY <1>4, <2>1, <2>2
<1>8. /\ b2 \in Seq(Nat) /\ Len(b2) = Len(v) + Len(a) + 2
      /\ \A i \in 1..Len(b1) : b2[i] = b1[i]
      /\ b2[2 + Len(v)] = Len(a)
      /\ strA \in Seq(Byte) => b2 \in Seq(Byte)
  <2>1. /\ b2 \in Seq(Nat) /\ Len(b2) = Len(b1) + Len(strA)
        /\ \A i \in 1..Len(b1) : b2[i] = b1[i]
        /\ \A i \in 1..Len(strA) : b2[Len(b1) + i] = strA[i]
    <3>1. b1 \in Seq(Nat) /\ strA \in Seq(Nat) /\ b2 = b1 \o strA
      BY <1>5, <1>6, <1>7
    <3> QED BY <3>1, NumberConcat
  <2>2. strA \in Seq(Byte) => b2 \in Seq(Byte)
    BY <1>5, <1>6, <1>7, NumberConcat
  <2>3. 1 \in 1..Len(strA) /\ Len(b1) + 1 = 2 + Len(v) /\ Len(b2) = Len(v) + Len(a) + 2
    BY <1>2, <1>6, <1>7, <2>1
  <2>4. b2[2 + Len(v)] = strA[1]
    BY <2>1, <2>3
  <2> QED BY <1>6, <2>1, <2>2, <2>3, <2>4
<1>9. /\ b3 \in Seq(Nat) /\ Len(b3) = Len(v) + Len(a) + 4
      /\ \A i \in 1..Len(b2) : b3[i] = b2[i]
      /\ b2 \in Seq(Byte) => b3 \in Seq(Byte)
  <2>1. /\ b3 \in Seq(Nat) /\ Len(b3) = Len(b2) + Len(c.port)
        /\ \A i \in 1..Len(b2) : b3[i] = b2[i]
    <3>1. b2 \in Seq(Nat) /\ c.port \in Seq(Nat) /\ b3 = b2 \o c.port
      BY <1>2, <1>5, <1>8
    <3> QED BY <3>1, NumberConcat
  <2>2. b2 \in Seq(Byte) => b3 \in Seq(Byte)
    BY <1>1, <1>2, <1>5, <1>8, NumberConcat
  <2> QED BY <1>1, <1>2, <1>8, <2>1, <2>2
<1>10. /\ b4 \in Seq(Nat) /\ Len(b4) = Len(v) + Len(a) + 5
       /\ \A i \in 1..Len(b3) : b4[i] = b3[i]
       /\ b4[Len(b4)] = RequestedNext(c)
       /\ b3 \in Seq(Byte) => b4 \in Seq(Byte)
  <2>1. /\ b4 \in Seq(Nat) /\ Len(b4) = Len(b3) + Len(next)
        /\ \A i \in 1..Len(b3) : b4[i] = b3[i]
        /\ \A i \in 1..Len(next) : b4[Len(b3) + i] = next[i]
    <3>1. b3 \in Seq(Nat) /\ next \in Seq(Nat) /\ b4 = b3 \o next
      BY <1>4, <1>5, <1>9
    <3> QED BY <3>1, NumberConcat
  <2>2. b3 \in Seq(Byte) => b4 \in Seq(Byte)
    BY <1>4, <1>5, <1>9, NumberConcat
  <2>3. 1 \in 1..Len(next) /\ Len(b4) = Len(b3) + 1 /\ Len(b4) = Len(v) + Len(a) + 5
    BY <1>2, <1>4, <1>9, <2>1
  <2> QED BY <1>4, <2>1, <2>2, <2>3
<1>11. /\ P \in Seq(Nat) /\ Len(P) = 1 + Len(b4) /\ P[1] = Len(b4)
       /\ \A i \in 1..Len(b4) : P[1 + i] = b4[i]
       /\ b4 \in Seq(Byte) /\ Len(b4) <= 255 => P \in Seq(Byte)
  BY <1>3, <1>10, LengthInFront
<1>12. Len(P) = Len(v) + Len(a) + 6 /\ Len(a) <= 255 /\ Len(b4) <= 255 /\ P[1] = Len(P) - 1
  <2>1. Len(P) <= 128 /\ Len(v) \in Nat /\ Len(a) \in Nat
    BY <1>1, <1>2
  <2>2. Len(b4) = Len(v) + Len(a) + 5 /\ Len(P) = 1 + Len(b4) /\ P[1] = Len(b4)
    BY <1>10, <1>11
  <2> QED BY <2>1, <2>2
<1>13. P \in Seq(Byte)
  BY <1>6, <1>8, <1>9, <1>10, <1>11, <1>12
<1>14. P[Len(P)] = RequestedNext(c)
  <2>1. Len(b4) \in 1..Len(b4) /\ 1 + Len(b4) = Len(P)
    BY <1>2, <1>10, <1>11
  <2> QED BY <1>10, <1>11, <2>1
<1>15. ASSUME NEW i \in 1..Len(b2) PROVE P[1 + i] = b2[i]
  <2>1. i \in 1..Len(b3) /\ i \in 1..Len(b4)
    BY <1>2, <1>8, <1>9, <1>10
  <2> QED BY <1>9, <1>10, <1>11, <2>1
<1>16. P[2] = 0
  <2>1. 1 \in 1..Len(b1) /\ 1 \in 1..Len(b2) /\ 1 + 1 = 2
    BY <1>2, <1>7, <1>8
  <2> QED BY <1>7, <1>8, <1>15, <2>1
<1>17. ASSUME NEW i \in 1..Len(v) PROVE P[2 + i] = v[i]
  <2>1. 1 + i \in 1..Len(b1) /\ 1 + i \in 1..Len(b2) /\ 1 + (1 + i) = 2 + i
    BY <1>2, <1>7, <1>8
  <2> QED BY <1>7, <1>8, <1>15, <2>1
<1>18. P[3 + Len(v)] = Len(a)
  <2>1. 2 + Len(v) \in 1..Len(b2) /\ 1 + (2 + Len(v)) = 3 + Len(v)
    BY <1>2, <1>8
  <2> QED BY <1>8, <1>15, <2>1
<1> QED BY <1>1, <1>2, <1>12, <1>13, <1>14, <1>16, <1>17, <1>18 DEF v, a

\* A size in front of a body.
LEMMA Framed ==
  ASSUME NEW body \in Seq(Nat), NEW P, P = Frame(body), Len(P) <= 128
  PROVE  /\ Len(body) \in Nat /\ Len(body) <= 127 /\ Len(P) = 1 + Len(body)
         /\ body \in Seq(Byte) => P \in Seq(Byte)
<1>1. P = <<Len(body)>> \o body
  BY DEF Frame
<1>2. /\ Len(body) \in Nat /\ Len(P) = 1 + Len(body)
      /\ body \in Seq(Byte) /\ Len(body) <= 255 => P \in Seq(Byte)
  BY <1>1, LengthInFront
<1>3. Len(body) <= 127 /\ Len(body) <= 255
  <2>1. Len(body) \in Nat /\ 1 + Len(body) <= 128
    BY <1>2
  <2> QED BY <2>1
<1> QED BY <1>2, <1>3

\* Every packet is a sequence of bytes, its size and its id at least, and smaller
\* than the receive buffer.
LEMMA PacketIs ==
  ASSUME NEW c \in Clients, NEW kind \in Kinds, NEW P, P = PacketBytes(c, kind)
  PROVE  P \in Seq(Byte) /\ Len(P) \in Nat /\ Len(P) >= 2 /\ Len(P) <= 128 /\ Len(P) < PacketSize
<1>1. /\ c.payload \in Seq(Byte) /\ c.name \in Seq(Byte) /\ c.uuid \in Seq(Byte)
      /\ Len(P) <= 128 /\ Len(P) < PacketSize
  BY ClientsAssumption DEF ClientRecord
<1>2. ASSUME NEW body \in Seq(Byte), Len(body) >= 1, P = Frame(body)
      PROVE  P \in Seq(Byte) /\ Len(P) \in Nat /\ Len(P) >= 2 /\ Len(P) <= 128
  <2>1. body \in Seq(Nat)
    BY BytesAreNumbers
  <2>2. Len(body) \in Nat /\ Len(body) <= 127 /\ Len(P) = 1 + Len(body) /\ P \in Seq(Byte)
    <3>1. P = Frame(body) /\ Len(P) <= 128 /\ body \in Seq(Byte)
      BY <1>1, <1>2
    <3>2. /\ Len(body) \in Nat /\ Len(body) <= 127 /\ Len(P) = 1 + Len(body)
          /\ body \in Seq(Byte) => P \in Seq(Byte)
      BY <2>1, <3>1, Framed
    <3> QED BY <3>1, <3>2
  <2>3. Len(body) >= 1
    BY <1>2
  <2> QED BY <2>2, <2>3
<1>3. /\ <<0>> \in Seq(Byte) /\ Len(<<0>>) = 1 /\ <<1>> \in Seq(Byte) /\ Len(<<1>>) = 1
      /\ <<3>> \in Seq(Byte) /\ Len(<<3>>) = 1 /\ <<7, 1>> \in Seq(Byte) /\ Len(<<7, 1>>) = 2
  BY DEF Byte
<1>4. CASE kind = "Handshake"
  <2>1. /\ P \in Seq(Byte) /\ Len(c.version) \in Nat /\ Len(c.address) \in Nat
        /\ Len(P) = Len(c.version) + Len(c.address) + 6 /\ Len(P) <= 128
    BY <1>4, HandshakeIs
  <2>2. Len(P) \in Nat /\ Len(P) >= 2 /\ Len(P) <= 128
    <3>1. \A x, y \in Nat : x + y + 6 \in Nat /\ x + y + 6 >= 2
      OBVIOUS
    <3> QED BY <2>1, <3>1
  <2> QED BY <1>1, <2>1, <2>2
<1>5. CASE kind = "StatusRequest"
  <2> DEFINE body == <<0>>
  <2>1. body \in Seq(Byte) /\ Len(body) >= 1 /\ P = Frame(body)
    BY <1>3, <1>5 DEF PacketBytes
  <2> HIDE DEF body
  <2> QED BY <1>1, <1>2, <2>1
<1>6. CASE kind = "LoginAck" \/ kind = "AckConfig"
  <2> DEFINE body == <<3>>
  <2>1. body \in Seq(Byte) /\ Len(body) >= 1 /\ P = Frame(body)
    BY <1>3, <1>6 DEF PacketBytes
  <2> HIDE DEF body
  <2> QED BY <1>1, <1>2, <2>1
<1>7. CASE kind = "Ping"
  <2> DEFINE one == <<1>>
             body == one \o c.payload
  <2>1. one \in Seq(Byte) /\ Len(one) = 1
    BY <1>3
  <2>2. P = Frame(body)
    BY <1>7 DEF PacketBytes
  <2> HIDE DEF one
  <2>3. body \in Seq(Byte) /\ Len(body) = Len(one) + Len(c.payload) /\ Len(c.payload) \in Nat
    <3>1. one \in Seq(Byte)
      BY <2>1
    <3> QED BY <1>1, <3>1, Concat
  <2> HIDE DEF body
  <2>4. Len(body) >= 1
    BY <2>1, <2>3
  <2>5. P \in Seq(Byte) /\ Len(P) \in Nat /\ Len(P) >= 2 /\ Len(P) <= 128
    BY <1>2, <2>2, <2>3, <2>4
  <2> QED BY <1>1, <2>5
<1>8. CASE kind = "LoginStart"
  <2> DEFINE name == c.name
             uuid == c.uuid
             zero == <<0>>
             str == Str(name)
             front == zero \o str
             body == front \o uuid
  <2>1. P = Frame(body) /\ str = <<Len(name)>> \o name
    BY <1>8 DEF PacketBytes, Str
  <2>2. zero \in Seq(Byte) /\ zero \in Seq(Nat)
    BY <1>3, BytesAreNumbers
  <2>3. Len(zero) = 1
    BY <1>3
  <2>a. name \in Seq(Byte) /\ uuid \in Seq(Byte)
    BY <1>1
  <2>4. name \in Seq(Nat) /\ uuid \in Seq(Nat) /\ Len(uuid) \in Nat
    BY <2>a, BytesAreNumbers
  <2>5. front = zero \o str /\ body = front \o uuid
    OBVIOUS
  <2> HIDE DEF name, uuid, zero, str, front, body
  <2>6. /\ str \in Seq(Nat) /\ Len(str) = 1 + Len(name) /\ Len(name) \in Nat
        /\ name \in Seq(Byte) /\ Len(name) <= 255 => str \in Seq(Byte)
    <3>1. name \in Seq(Nat) /\ str = <<Len(name)>> \o name
      BY <2>1, <2>4
    <3> QED BY <3>1, LengthInFront
  <2>7. /\ front \in Seq(Nat) /\ Len(front) = Len(zero) + Len(str)
        /\ str \in Seq(Byte) => front \in Seq(Byte)
    <3>1. str \in Seq(Nat)
      BY <2>6
    <3> QED BY <2>2, <2>5, <3>1, NumberConcat
  <2>8. /\ body \in Seq(Nat) /\ Len(body) = Len(front) + Len(uuid)
        /\ front \in Seq(Byte) => body \in Seq(Byte)
    <3>1. front \in Seq(Nat)
      BY <2>7
    <3> QED BY <2>4, <2>a, <2>5, <3>1, NumberConcat
  <2>9. Len(body) \in Nat /\ Len(body) <= 127
    BY <1>1, <2>1, <2>8, Framed
  <2>10. Len(name) <= 255 /\ Len(body) >= 1
    <3>1. Len(front) = 1 + (1 + Len(name))
      BY <2>3, <2>6, <2>7
    <3>2. Len(body) = 2 + Len(name) + Len(uuid)
      BY <2>4, <2>6, <2>8, <3>1
    <3> QED BY <2>4, <2>6, <2>9, <3>2
  <2>11. body \in Seq(Byte)
    BY <2>a, <2>6, <2>7, <2>8, <2>10
  <2>12. P \in Seq(Byte) /\ Len(P) \in Nat /\ Len(P) >= 2 /\ Len(P) <= 128
    BY <1>2, <2>1, <2>10, <2>11
  <2> QED BY <1>1, <2>12
<1>9. CASE kind = "KnownPacks"
  <2> DEFINE f == <<7, 1>>
             l9 == [i \in 1..9 |-> 97]  s9 == Str(l9)
             l4 == [i \in 1..4 |-> 97]  s4 == Str(l4)
             l6 == [i \in 1..6 |-> 49]  s6 == Str(l6)
             b1 == f \o s9
             b2 == b1 \o s4
             body == b2 \o s6
  <2>1. f \in Seq(Byte) /\ Len(f) = 2
    BY <1>3
  <2>2. ASSUME NEW n \in {4, 6, 9}, NEW x \in {97, 49}, NEW l, l = [i \in 1..n |-> x],
               NEW s, s = Str(l)
        PROVE  s \in Seq(Byte)
    <3>1. l \in Seq(Byte) /\ Len(l) = n
      BY <2>2 DEF Byte
    <3>2. s = <<Len(l)>> \o l
      BY <2>2 DEF Str
    <3>3. l \in Seq(Nat)
      BY <3>1, BytesAreNumbers
    <3>4. l \in Seq(Byte) /\ Len(l) <= 255 => s \in Seq(Byte)
      BY <3>2, <3>3, LengthInFront
    <3> QED BY <2>2, <3>1, <3>4
  <2>3. s9 \in Seq(Byte) /\ s4 \in Seq(Byte) /\ s6 \in Seq(Byte)
    BY <2>2
  <2>4. P = Frame(body)
    BY <1>9 DEF PacketBytes
  <2> HIDE DEF f, s9, s4, s6
  <2>5. b1 \in Seq(Byte) /\ Len(b1) = Len(f) + Len(s9) /\ Len(s9) \in Nat
    <3>1. f \in Seq(Byte)
      BY <2>1
    <3> QED BY <2>3, <3>1, Concat
  <2> HIDE DEF b1
  <2>6. b2 \in Seq(Byte) /\ Len(b2) = Len(b1) + Len(s4) /\ Len(s4) \in Nat
    <3>1. b1 \in Seq(Byte)
      BY <2>5
    <3> QED BY <2>3, <3>1, Concat
  <2> HIDE DEF b2
  <2>7. body \in Seq(Byte) /\ Len(body) = Len(b2) + Len(s6) /\ Len(s6) \in Nat
    <3>1. b2 \in Seq(Byte)
      BY <2>6
    <3> QED BY <2>3, <3>1, Concat
  <2> HIDE DEF body
  <2>8. Len(body) >= 1
    BY <2>1, <2>5, <2>6, <2>7
  <2>9. P \in Seq(Byte) /\ Len(P) \in Nat /\ Len(P) >= 2 /\ Len(P) <= 128
    BY <1>2, <2>4, <2>7, <2>8
  <2> QED BY <1>1, <2>9
<1> QED BY <1>1, <1>4, <1>5, <1>6, <1>7, <1>8, <1>9 DEF Kinds

\* An acknowledgement is a size and the id 3.
LEMMA AckIs == \A c \in Clients : PacketBytes(c, "LoginAck") = <<1, 3>>
<1> SUFFICES ASSUME NEW c \in Clients PROVE PacketBytes(c, "LoginAck") = <<1, 3>>
  OBVIOUS
<1>1. PacketBytes(c, "LoginAck") = <<1>> \o <<3>>
  BY DEF PacketBytes, Frame
<1> QED BY <1>1

\* A byte below 128 read as a VarInt, by its position.
LEMMA ByteRead ==
  ASSUME NEW mem \in Seq(Byte), NEW it \in Iterator, it.st = "ok",
         it.pos <= Len(mem), mem[it.pos] < 128,
         NEW next, next = readVarInt(mem)[it]
  PROVE  /\ next \in Iterator /\ next.st = "ok"
         /\ next.pos = it.pos + 1 /\ next.val = mem[it.pos]
<1>1. next = [st |-> "ok", pos |-> it.pos + 1, val |-> mem[it.pos]]
  BY OneByteVarInt
<1>2. next \in Iterator
  BY readVarIntType
<1> QED BY <1>1, <1>2

\* A blob that lies in memory is read.
LEMMA BytesRead ==
  ASSUME NEW mem \in Seq(Byte), NEW it \in Iterator, NEW n \in Nat, it.st = "ok",
         it.pos + n <= Len(mem) + 1,
         NEW next, next = readBytes(mem, n, n)[it]
  PROVE  next \in Iterator /\ next.st = "ok" /\ next.pos = it.pos + n
<1>1. next = IF n > Len(mem) - it.pos + 1 THEN Failed(it, "fault") ELSE At(it.pos + n)
  BY DEF readBytes
<1> DEFINE p == it.pos
<1>2. p \in Nat \ {0} /\ Len(mem) \in Nat
  BY LenProperties DEF Iterator
<1> DEFINE l == Len(mem)
<1>3. l \in Nat /\ p + n <= l + 1 /\ p \in Nat /\ n \in Nat
  BY <1>2
<1>4. ~(n > l - it.pos + 1)
  <2> HIDE DEF l
  <2> QED BY <1>3
<1>5. next = At(p + n)
  BY <1>1, <1>4
<1> QED BY <1>2, <1>5 DEF At, Iterator, Outcome

\* The handshake at the front of the buffer is taken, to its end, and says what the
\* client asks for.
LEMMA HandshakeTaken ==
  ASSUME NEW c \in Clients, NEW mem \in Seq(Byte),
         NEW P, P = PacketBytes(c, "Handshake"), Len(P) <= Len(mem),
         \A i \in 1..Len(P) : mem[i] = P[i],
         NEW next, next = NextPacket("IDLE", mem, At(1))
  PROVE  /\ next.kind = "Handshake" /\ next.it.st = "ok"
         /\ next.it.pos = Len(P) + 1 /\ next.it.val = RequestedNext(c)
<1> DEFINE nv == Len(c.version)
           na == Len(c.address)
           np == Len(P)
           it == At(1)
           size == readVarInt(mem)[it]
           id == readVarInt(mem)[size]
           version == readVarInt(mem)[id]
           text == readVarInt(mem)[version]
           address == readBytes(mem, na, na)[text]
           port == readBytes(mem, 2, 2)[address]
           last == readVarInt(mem)[port]
<1>1. /\ P \in Seq(Byte) /\ nv \in Nat /\ na \in Nat /\ np = nv + na + 6 /\ np <= 128
      /\ P[1] = np - 1 /\ P[2] = 0 /\ P[3 + nv] = na /\ P[np] = RequestedNext(c)
      /\ \A i \in 1..nv : P[2 + i] = c.version[i]
  BY HandshakeIs
<1>2. nv \in 1..MaxVarIntBytes /\ EndsAfter(c.version, 1, nv)
  BY ClientsAssumption DEF ClientRecord
<1>3. /\ it \in Iterator /\ it.st = "ok" /\ it.pos = 1
      /\ size = readVarInt(mem)[it] /\ id = readVarInt(mem)[size]
      /\ version = readVarInt(mem)[id] /\ text = readVarInt(mem)[version]
      /\ address = readBytes(mem, na, na)[text] /\ port = readBytes(mem, 2, 2)[address]
      /\ last = readVarInt(mem)[port]
  BY DEF At, Iterator, Outcome
<1>4. \A i \in 1..np : mem[i] = P[i]
  OBVIOUS
<1>5. np <= Len(mem)
  OBVIOUS
<1> HIDE DEF nv, na, np, it, size, id, version, text, address, port, last
<1>6. size \in Iterator /\ size.st = "ok" /\ size.pos = 2 /\ size.val = np - 1
  <2>1. 1 \in 1..np /\ np - 1 \in Nat /\ np - 1 < 128 /\ 1 <= Len(mem) /\ 1 + 1 = 2
    BY <1>1, <1>5
  <2>2. mem[1] = np - 1
    BY <1>1, <1>4, <2>1
  <2>3. size \in Iterator /\ size.st = "ok" /\ size.pos = it.pos + 1 /\ size.val = mem[it.pos]
    <3>1. /\ size = readVarInt(mem)[it] /\ it \in Iterator /\ it.st = "ok"
          /\ it.pos <= Len(mem) /\ mem[it.pos] < 128
      BY <1>3, <2>1, <2>2
    <3> QED BY <3>1, ByteRead
  <2> QED BY <1>3, <2>1, <2>2, <2>3
<1>7. id \in Iterator /\ id.st = "ok" /\ id.pos = 3 /\ id.val = 0
  <2>1. 2 \in 1..np /\ 0 \in Nat /\ 0 < 128 /\ 2 <= Len(mem) /\ 2 + 1 = 3
    BY <1>1, <1>5
  <2>2. mem[2] = 0
    BY <1>1, <1>4, <2>1
  <2>3. id \in Iterator /\ id.st = "ok" /\ id.pos = size.pos + 1 /\ id.val = mem[size.pos]
    <3>1. /\ id = readVarInt(mem)[size] /\ size \in Iterator /\ size.st = "ok"
          /\ size.pos <= Len(mem) /\ mem[size.pos] < 128
      BY <1>3, <1>6, <2>1, <2>2
    <3> QED BY <3>1, ByteRead
  <2> QED BY <1>3, <1>6, <2>1, <2>2, <2>3
<1>8. version \in Iterator /\ version.st = "ok" /\ version.pos = 3 + nv
  <2>1. ASSUME NEW i \in 1..nv PROVE mem[3 + i - 1] = c.version[1 + i - 1]
    <3>1. 2 + i \in 1..np /\ 3 + i - 1 = 2 + i /\ 1 + i - 1 = i
      <4>1. nv \in Nat /\ na \in Nat /\ np = nv + na + 6 /\ i \in Int /\ 1 <= i /\ i <= nv
        BY <1>1
      <4> QED BY <4>1
    <3> QED BY <1>1, <1>4, <3>1
  <2>2. /\ ~Continues(c.version[1 + nv - 1])
        /\ \A k \in 1..(nv - 1) : Continues(c.version[1 + k - 1])
    BY <1>2 DEF EndsAfter
  <2>3. nv \in 1..nv /\ \A k \in 1..(nv - 1) : k \in 1..nv
    BY <1>1, <1>2
  <2>4. 3 + nv - 1 <= Len(mem)
    BY <1>1, <1>5
  <2>5. EndsAfter(mem, id.pos, nv)
    BY <1>7, <2>1, <2>2, <2>3, <2>4 DEF EndsAfter
  <2>6. version = [st |-> "ok", pos |-> id.pos + nv, val |-> VarIntValue(mem, id.pos, nv)]
    BY <1>2, <1>3, <1>7, <2>5, VarIntRead
  <2>7. version \in Iterator
    BY <1>3, <1>7, readVarIntType
  <2> QED BY <1>7, <2>6, <2>7
<1>9. text \in Iterator /\ text.st = "ok" /\ text.pos = 4 + nv /\ text.val = na
  <2>1. 3 + nv \in 1..np /\ na < 128 /\ 3 + nv <= Len(mem) /\ (3 + nv) + 1 = 4 + nv
    <3>1. nv \in Nat /\ na \in Nat /\ np = nv + na + 6 /\ np <= 128 /\ np <= Len(mem)
      BY <1>1, <1>5
    <3>2. 3 + nv \in 1..np /\ na < 128 /\ 3 + nv <= np /\ (3 + nv) + 1 = 4 + nv
      BY <3>1
    <3>3. Len(mem) \in Nat
      BY LenProperties
    <3> QED BY <3>1, <3>2, <3>3
  <2>2. mem[3 + nv] = na
    BY <1>1, <1>4, <2>1
  <2>3. text \in Iterator /\ text.st = "ok" /\ text.pos = version.pos + 1 /\ text.val = mem[version.pos]
    <3>1. /\ text = readVarInt(mem)[version] /\ version \in Iterator /\ version.st = "ok"
          /\ version.pos <= Len(mem) /\ mem[version.pos] < 128
      BY <1>3, <1>8, <2>1, <2>2
    <3> QED BY <3>1, ByteRead
  <2> QED BY <1>3, <1>8, <2>1, <2>2, <2>3
<1>10. address \in Iterator /\ address.st = "ok" /\ address.pos = (4 + nv) + na
  <2>1. (4 + nv) + na <= Len(mem) + 1
    BY <1>1, <1>5
  <2>2. /\ address = readBytes(mem, na, na)[text] /\ text \in Iterator /\ text.st = "ok"
        /\ text.pos + na <= Len(mem) + 1 /\ na \in Nat
    BY <1>1, <1>3, <1>9, <2>1
  <2>3. address \in Iterator /\ address.st = "ok" /\ address.pos = text.pos + na
    BY <2>2, BytesRead
  <2> QED BY <1>9, <2>3
<1>11. port \in Iterator /\ port.st = "ok" /\ port.pos = np
  <2>1. ((4 + nv) + na) + 2 <= Len(mem) + 1 /\ ((4 + nv) + na) + 2 = np
    BY <1>1, <1>5
  <2>2. port \in Iterator /\ port.st = "ok" /\ port.pos = ((4 + nv) + na) + 2
    <3>1. /\ port = readBytes(mem, 2, 2)[address] /\ address \in Iterator /\ address.st = "ok"
          /\ address.pos + 2 <= Len(mem) + 1 /\ 2 \in Nat
      BY <1>3, <1>10, <2>1
    <3>2. port \in Iterator /\ port.st = "ok" /\ port.pos = address.pos + 2
      BY <3>1, BytesRead
    <3> QED BY <1>10, <3>2
  <2> QED BY <2>1, <2>2
<1>12. last \in Iterator /\ last.st = "ok" /\ last.pos = np + 1 /\ last.val = RequestedNext(c)
  <2>1. np \in 1..np /\ RequestedNext(c) \in Nat /\ RequestedNext(c) < 128
    BY <1>1 DEF RequestedNext
  <2>2. mem[np] = RequestedNext(c)
    BY <1>1, <1>4, <2>1
  <2>3. last \in Iterator /\ last.st = "ok" /\ last.pos = port.pos + 1 /\ last.val = mem[port.pos]
    <3>1. /\ last = readVarInt(mem)[port] /\ port \in Iterator /\ port.st = "ok"
          /\ port.pos <= Len(mem) /\ mem[port.pos] < 128
      BY <1>3, <1>5, <1>11, <2>1, <2>2
    <3> QED BY <3>1, ByteRead
  <2> QED BY <1>3, <1>5, <1>11, <2>1, <2>2, <2>3
<1>13. readString(mem)[version] = address
  <2>1. readString(mem)[version]
          = IF text.st = "ok" /\ text.val < 0 THEN Failed(text, "throw")
            ELSE readBytes(mem, text.val, text.val)[text]
    BY <1>3, <1>8 DEF readString
  <2>2. ~(text.val < 0)
    BY <1>1, <1>9
  <2> QED BY <1>3, <1>9, <2>1, <2>2
<1>14. Construct("Handshake", mem, id) = last
  BY <1>3, <1>13 DEF Construct, HandshakePacket
<1>15. ~NoPacket(size)
  <2>1. np - 1 # 0
    BY <1>1
  <2> QED BY <1>6, <2>1 DEF NoPacket
<1>16. KindOf("IDLE", id.val) = "Handshake"
  BY <1>7 DEF KindOf
<1>17. next = [kind |-> "Handshake", it |-> last]
  <2>1. next = NextPacket("IDLE", mem, it)
    BY DEF it
  <2>2. size.st = "ok" /\ id.st = "ok" /\ last.st = "ok"
    BY <1>6, <1>7, <1>12
  <2>3. next = IF NoPacket(size) THEN [kind |-> "null", it |-> size]
               ELSE IF id.st # "ok" THEN [kind |-> "null", it |-> id]
               ELSE IF last.st # "ok" THEN [kind |-> "null", it |-> last]
               ELSE [kind |-> KindOf("IDLE", id.val), it |-> last]
    <3>1. NextPacket("IDLE", mem, it)
            = LET kind == KindOf("IDLE", id.val)
                  done == Construct(kind, mem, id)
              IN  IF NoPacket(size) THEN [kind |-> "null", it |-> size]
                  ELSE IF id.st # "ok" THEN [kind |-> "null", it |-> id]
                  ELSE IF done.st # "ok" THEN [kind |-> "null", it |-> done]
                  ELSE [kind |-> kind, it |-> done]
      BY DEF NextPacket, size, id
    <3> QED BY <1>14, <1>16, <2>1, <3>1
  <2> QED BY <1>15, <1>16, <2>2, <2>3
<1> QED BY <1>12, <1>17 DEF np

-----------------------------------------------------------------------------
(* A session with a client: types and the contract.                        *)

\* What the client says arrives whole, behind what it said before.
LEMMA SayResult ==
  ASSUME self \in Clients, said \subseteq Kinds, wire \in Seq(Byte),
         ends \subseteq 1..Len(wire), NEW kind \in Kinds, Say(kind),
         NEW P, P = PacketBytes(self, kind)
  PROVE  /\ said' = said \cup {kind} /\ said' \subseteq Kinds
         /\ wire' = wire \o P /\ wire' \in Seq(Byte)
         /\ Len(wire') = Len(wire) + Len(P)
         /\ ends' = ends \cup {Len(wire) + Len(P)}
         /\ ends' \subseteq 1..Len(wire') /\ Len(wire') \in ends'
<1>1. P \in Seq(Byte) /\ Len(P) \in Nat /\ Len(P) >= 2
  BY PacketIs
<1>2. /\ said' = said \cup {kind} /\ wire' = wire \o P
      /\ ends' = ends \cup {Len(wire) + Len(P)}
  BY DEF Say
<1>3. wire' \in Seq(Byte) /\ Len(wire') = Len(wire) + Len(P) /\ Len(wire) \in Nat
  <2> DEFINE w == wire'
  <2>1. w = wire \o P
    BY <1>2
  <2> HIDE DEF w
  <2>2. w \in Seq(Byte) /\ Len(w) = Len(wire) + Len(P) /\ Len(wire) \in Nat
    BY <1>1, <2>1, Concat
  <2> QED BY <2>2 DEF w
<1>4. ends' \subseteq 1..Len(wire') /\ Len(wire') \in ends'
  <2> DEFINE n == Len(wire)
             p == Len(P)
             total == Len(wire')
  <2>1. n \in Nat /\ p \in Nat /\ p >= 2 /\ total = n + p
    BY <1>1, <1>3
  <2>2. ends \subseteq 1..n /\ ends' = ends \cup {n + p}
    BY <1>2
  <2> HIDE DEF n, p, total
  <2>3. \A e \in ends : e \in 1..n
    BY <2>2
  <2>4. \A e \in 1..n : e \in 1..total
    BY <2>1
  <2>5. n + p \in 1..total
    BY <2>1
  <2>6. ends' \subseteq 1..total /\ total \in ends'
    BY <2>1, <2>2, <2>3, <2>4, <2>5
  <2> QED BY <2>6 DEF total
<1> QED BY <1>2, <1>3, <1>4

\* Receive takes the front of what is on its way.
LEMMA DeliverResult ==
  ASSUME wire \in Seq(Byte), ends \subseteq 1..Len(wire), wire # << >> => Len(wire) \in ends,
         NEW n \in 1..Len(wire), Deliver(n),
         NEW seg, seg = SubSeq(wire, 1, n)
  PROVE  /\ n <= PacketSize /\ Receive(seg) /\ seg \in Seq(Byte) /\ Len(seg) = n
         /\ \A i \in 1..n : seg[i] = wire[i]
         /\ wire' \in Seq(Byte) /\ Len(wire) \in Nat /\ Len(wire') = Len(wire) - n
         /\ \A i \in 1..Len(wire') : n + i \in 1..Len(wire) /\ wire'[i] = wire[n + i]
         /\ ends' = {e \in 1..Len(wire') : n + e \in ends}
         /\ wire' # << >> => Len(wire') \in ends'
<1> DEFINE total == Len(wire)
           rest == SubSeq(wire, n + 1, total)
           w == wire'
<1>1. /\ n <= PacketSize /\ Receive(seg) /\ w = rest
      /\ ends' = {e \in 1..Len(w) : n + e \in ends}
  BY DEF Deliver
<1>2. total \in Nat /\ n \in 1..total /\ n \in Int /\ n + 1 \in Int /\ 1 \in Int /\ total \in Int
  BY LenProperties
<1>3. \A i \in 1..total : wire[i] \in Byte
  BY ElementOfSeq
<1> HIDE DEF total
<1>4. /\ seg \in Seq(Byte) /\ Len(seg) = IF 1 <= n THEN n - 1 + 1 ELSE 0
      /\ \A i \in 1..(n - 1 + 1) : seg[i] = wire[1 + i - 1]
  <2>1. \A i \in 1..n : wire[i] \in Byte
    BY <1>2, <1>3
  <2> QED BY <1>2, <2>1, SubSeqProperties
<1>5. /\ Len(seg) = n
      /\ \A i \in 1..n : seg[i] = wire[i]
  <2>1. n - 1 + 1 = n /\ 1 <= n /\ \A i \in 1..n : 1 + i - 1 = i
    BY <1>2
  <2> QED BY <1>4, <2>1
<1>6. /\ rest \in Seq(Byte) /\ Len(rest) = IF n + 1 <= total THEN total - (n + 1) + 1 ELSE 0
      /\ \A i \in 1..(total - (n + 1) + 1) : rest[i] = wire[(n + 1) + i - 1]
  <2>1. \A i \in (n + 1)..total : wire[i] \in Byte
    <3>1. \A i \in (n + 1)..total : i \in 1..total
      BY <1>2
    <3> QED BY <1>3, <3>1
  <2> QED BY <1>2, <2>1, SubSeqProperties
<1>7. Len(rest) = total - n
  <2>1. (IF n + 1 <= total THEN total - (n + 1) + 1 ELSE 0) = total - n
    BY <1>2
  <2> QED BY <1>6, <2>1
<1>8. \A i \in 1..(total - n) : n + i \in 1..total /\ rest[i] = wire[n + i]
  <2>1. /\ total - (n + 1) + 1 = total - n
        /\ \A i \in 1..(total - n) : (n + 1) + i - 1 = n + i /\ n + i \in 1..total
    BY <1>2
  <2> QED BY <1>6, <2>1
<1>9. w \in Seq(Byte) /\ Len(w) = total - n
      /\ \A i \in 1..Len(w) : n + i \in 1..total /\ w[i] = wire[n + i]
  BY <1>1, <1>6, <1>7, <1>8
<1>10. ASSUME w # << >> PROVE Len(w) \in ends'
  <2> DEFINE l == Len(w)
  <2>1. l \in Nat /\ l # 0
    BY <1>9, <1>10, LenProperties, EmptySeq
  <2>2. l = total - n /\ ends' = {e \in 1..l : n + e \in ends}
    BY <1>1, <1>9
  <2> HIDE DEF l, w
  <2>3. l \in 1..l /\ n + l = total
    BY <1>2, <2>1, <2>2
  <2>4. wire # << >>
    <3>1. total # 0
      BY <1>2
    <3> QED BY <3>1 DEF total
  <2>5. total \in ends
    BY <2>4 DEF total
  <2> QED BY <2>2, <2>3, <2>5 DEF l
<1> QED BY <1>1, <1>2, <1>4, <1>5, <1>9, <1>10 DEF total, w

\* The session's inductive invariant for types and the contract.
SInv == IInv /\ SessionTypeOK

\* A step of the session is, for the connection, one of its own, a Receive of what
\* the client sent, or nothing.
LEMMA ServerSteps ==
  ASSUME [SessionNext]_allVars
  PROVE  [Next]_vars \/ \E n \in 1..Len(wire) : Deliver(n)
BY DEF SessionNext, ClientStarts, ClientHandles, ClientCloses, ServerReceives,
       ServerSeesClose, ServerWorks, ServerSends, Next, HandlerStep, allVars

\* SInv holds when the session begins.
LEMMA SessionTypedInit == SessionInit => SInv
<1> SUFFICES ASSUME SessionInit PROVE SInv
  OBVIOUS
<1>1. IInv
  BY PacketSizeAssumption, BeyondAssumption
     DEF SessionInit, Init, IInv, TypeOK, InvLoop, InvSend, InvJoin, Ready, Running, States,
         Byte
<1>2. << >> \in Seq(Byte) /\ << >> \in Seq(Message) /\ Len(<< >>) = 0
  BY EmptySeq
<1>3. SessionTypeOK
  BY <1>2, MaxTearsAssumption DEF SessionInit, SessionTypeOK, ClientStates
<1> QED BY <1>1, <1>3 DEF SInv

\* What the client answers.
LEMMA ReactionType ==
  ASSUME NEW state, NEW m
  PROVE  /\ Reaction(state, m)[1] \in ClientStates \ {"new", "greeted", "login", "left"}
         /\ Reaction(state, m)[2] # Silent => Reaction(state, m)[2] \in Kinds
BY DEF Reaction, ClientStates, Kinds, Silent

\* Every step of the session preserves it.
LEMMA SessionTypedStep == SInv /\ [SessionNext]_allVars => SInv'
<1> SUFFICES ASSUME SInv, [SessionNext]_allVars PROVE SInv'
  OBVIOUS
<1>1. IInv'
  <2>1. CASE [Next]_vars
    BY <2>1, StepPreserves DEF SInv
  <2>2. ASSUME NEW n \in 1..Len(wire), Deliver(n) PROVE IInv'
    <3> DEFINE seg == SubSeq(wire, 1, n)
    <3>1. n <= PacketSize /\ Receive(seg) /\ seg \in Seq(Byte) /\ Len(seg) = n
      BY <2>2, DeliverResult DEF SInv, SessionTypeOK
    <3>2. n \in 1..PacketSize
      <4>1. n \in Int /\ 1 <= n
        BY <2>2
      <4> QED BY <3>1, <4>1, PacketSizeAssumption
    <3> HIDE DEF seg
    <3> QED BY <3>1, <3>2, ReceivePreserves DEF SInv
  <2> QED BY <2>1, <2>2, ServerSteps
<1> USE DEF SInv
<1>2. CASE ClientStarts
  <2>1. PICK kind \in Kinds : Say(kind)
    BY <1>2 DEF ClientStarts, Kinds
  <2>2. /\ said' \subseteq Kinds /\ wire' \in Seq(Byte)
        /\ ends' \subseteq 1..Len(wire') /\ Len(wire') \in ends'
    BY <2>1, SayResult DEF SessionTypeOK
  <2> QED BY <1>1, <1>2, <2>2 DEF ClientStarts, SessionTypeOK, ClientStates
<1>3. CASE ClientHandles
  <2> DEFINE reaction == Reaction(client, Head(inbox))
  <2>1. reaction[1] \in ClientStates /\ (reaction[2] # Silent => reaction[2] \in Kinds)
    BY ReactionType
  <2>2. /\ client' = reaction[1]
        /\ IF reaction[2] = Silent THEN UNCHANGED <<said, wire, ends>> ELSE Say(reaction[2])
        /\ inbox # << >> /\ inbox' = Tail(inbox)
        /\ UNCHANGED <<self, tears>>
    BY <1>3 DEF ClientHandles
  <2> HIDE DEF reaction
  <2>3. /\ said' \subseteq Kinds /\ wire' \in Seq(Byte)
        /\ ends' \subseteq 1..Len(wire') /\ (wire' # << >> => Len(wire') \in ends')
    <3>1. CASE reaction[2] = Silent
      <4>1. said' = said /\ wire' = wire /\ ends' = ends
        BY <2>2, <3>1
      <4>2. /\ said \subseteq Kinds /\ wire \in Seq(Byte)
            /\ ends \subseteq 1..Len(wire) /\ (wire # << >> => Len(wire) \in ends)
        BY DEF SessionTypeOK
      <4> QED BY <4>1, <4>2
    <3>2. CASE reaction[2] # Silent
      BY <2>1, <2>2, <3>2, SayResult DEF SessionTypeOK
    <3> QED BY <3>1, <3>2
  <2>4. inbox' \in Seq(Message)
    BY <2>2, HeadTailProperties DEF SessionTypeOK
  <2> QED BY <1>1, <2>1, <2>2, <2>3, <2>4 DEF SessionTypeOK
<1>4. CASE ClientCloses
  BY <1>1, <1>4 DEF ClientCloses, SessionTypeOK, ClientStates
<1>5. CASE ServerReceives
  <2>1. PICK n \in 1..Len(wire) : /\ Deliver(n)
                                  /\ \/ UNCHANGED tears
                                     \/ tears < MaxTears /\ tears' = tears + 1
    BY <1>5 DEF ServerReceives
  <2>2. /\ wire' \in Seq(Byte) /\ (wire' # << >> => Len(wire') \in ends')
        /\ ends' = {e \in 1..Len(wire') : n + e \in ends}
    BY <2>1, DeliverResult DEF SessionTypeOK
  <2>3. tears' \in 0..MaxTears
    BY <2>1, MaxTearsAssumption DEF SessionTypeOK
  <2>4. ends' \subseteq 1..Len(wire')
    BY <2>2
  <2> QED BY <1>1, <1>5, <2>2, <2>3, <2>4 DEF ServerReceives, SessionTypeOK
<1>6. CASE ServerSeesClose \/ ServerWorks
  BY <1>1, <1>6 DEF ServerSeesClose, ServerWorks, session, SessionTypeOK
<1>7. CASE ServerSends
  <2>1. Msg("Sync", 0) \in Message
    BY DEF Message, Single
  <2>2. Send => Head(todo) \in Message
    BY HeadTailProperties DEF Send, IInv, TypeOK, InvSend
  <2>3. inbox' \in Seq(Message)
    <3>1. \A m \in Message : Append(inbox, m) \in Seq(Message)
      BY AppendProperties DEF SessionTypeOK
    <3> QED BY <1>7, <2>1, <2>2, <3>1 DEF ServerSends, SessionTypeOK
  <2> QED BY <1>1, <1>7, <2>3 DEF ServerSends, SessionTypeOK
<1>8. CASE UNCHANGED allVars
  BY <1>1, <1>8 DEF allVars, session, SessionTypeOK
<1> QED BY <1>2, <1>3, <1>4, <1>5, <1>6, <1>7, <1>8 DEF SessionNext

\* In a session too the connection keeps its invariant, and the client, what it has
\* sent and what is on its way are well typed: every packet ends inside the wire.
THEOREM SessionTyped == SessionSpec => []SessionTypeOK
<1>1. SInv => SessionTypeOK
  BY DEF SInv
<1> QED BY <1>1, SessionTypedInit, SessionTypedStep, PTL DEF SessionSpec

\* The connection keeps the contract in a session: what a real client sends,
\* however TCP cuts it, is no more than what the arbitrary client of
\* PlayerHandler may send.
THEOREM SessionRefinement == SessionSpec => ImplementsContract
<1>1. SessionInit => Contract!Init
  BY DEF SessionInit, Init, Contract!Init, None, Contract!None, Msg, Contract!Msg, Running
<1>2. SInv /\ [SessionNext]_allVars => [Contract!Next]_(Contract!vars)
  <2> SUFFICES ASSUME SInv, [SessionNext]_allVars
               PROVE  [Contract!Next]_(Contract!vars)
    OBVIOUS
  <2>1. CASE [Next]_vars
    BY <2>1, StepRefines DEF SInv
  <2>2. ASSUME NEW n \in 1..Len(wire), Deliver(n) PROVE UNCHANGED Contract!vars
    BY <2>2 DEF Deliver, Receive, Contract!vars, Running
  <2> QED BY <2>1, <2>2, ServerSteps
<1> QED BY <1>1, <1>2, SessionTypedInit, SessionTypedStep, PTL
        DEF SessionSpec, ImplementsContract, Contract!Spec

-----------------------------------------------------------------------------
(* A session with a client: the server follows it.                         *)

\* The messages a client may have been sent by the time the server is in a state.
Heard(state) ==
  CASE state = "IDLE"   -> {}
    [] state = "STATUS" -> {"Status", "Pong"}
    [] state = "LOGIN"  -> {"LoginSuccess"}
    [] OTHER            -> {m.type : m \in Message}
AllHeard(messages, state) == \A i \in 1..Len(messages) : messages[i].type \in Heard(state)

\* What is to be sent and what is on its way to the client fits the state.
InvHeard == AllHeard(todo, m_state) /\ AllHeard(inbox, m_state)

\* A new client has said nothing, and only one that left has closed.
InvBegun == (client = "new" => said = {}) /\ (peerOpen <=> client # "left")

\* A size and an id lie between two ends.
InvSpaced == \A e \in ends \cup {0}, f \in ends : e < f => f - e >= 2

\* Before the handshake nothing has happened.
InvNew ==
  "Handshake" \notin said =>
     /\ m_state = "IDLE" /\ pc \in {"receive"} \cup Ended
     /\ peerOpen => pc = "receive"
     /\ client \in {"new", "left"} /\ wire = << >>
     /\ \A i \in 1..PacketSize : data[i] = 0

\* Before the login acknowledgement there is none to be read.
InvBefore ==
  "LoginAck" \notin said =>
     /\ m_state \notin {"CONFIG", "PLAY"} /\ client \notin {"config", "play", "joined"}
     /\ "AckConfig" \notin said
     /\ NoAck(data) /\ NoAck(wire) /\ NoAck(beyond)

\* A client that logs in is at its handshake, in the wire or at the front of the
\* buffer, or the server has received all it sent.
H == PacketBytes(self, "Handshake")
L == PacketBytes(self, "LoginStart")
Filled(n) == \A i \in 1..PacketSize : data[i] = IF i <= n THEN H[i] ELSE 0

AwaitsHandshake ==
  /\ pc = "receive" /\ m_state = "IDLE" /\ Filled(0) /\ inbox = << >>
  /\ \/ client = "greeted" /\ wire = H /\ ends = {Len(H)}
     \/ client = "login" /\ wire = H \o L /\ ends = {Len(H), Len(H) + Len(L)}
HasHandshake ==
  /\ Filled(Len(H)) /\ inbox = << >>
  /\ \/ pc = "execute" /\ m_state = "IDLE" /\ packetsIter = 1
     \/ pc = "execute" /\ m_state = "LOGIN" /\ packetsIter = Len(H) + 1
     \/ pc = "receive" /\ m_state = "LOGIN"
  /\ \/ client = "greeted" /\ wire = << >> /\ ends = {}
     \/ client = "login" /\ wire = L /\ ends = {Len(L)}
InvLogin ==
  /\ client = "login" => self.intent = "play"
  /\ client = "login" \/ (client = "greeted" /\ self.intent = "play") =>
       \/ AwaitsHandshake
       \/ HasHandshake
       \/ client = "login" /\ wire = << >>

\* Between the acknowledgements the login's is on the wire, or at the front of the
\* buffer and about to be taken, or taken and behind the iterator.
Old == \A i \in 3..PacketSize : data[i] % 128 # 3
AckComes == m_state = "LOGIN" /\ wire = <<1, 3>> /\ ends = {2} /\ NoAck(data)
AckCame ==
  /\ m_state = "LOGIN" /\ wire = << >> /\ pc = "execute" /\ packetsIter = 1
  /\ data[1] = 1 /\ data[2] = 3 /\ Old
AckTaken ==
  /\ m_state = "CONFIG" /\ NoAck(wire)
  /\ NoAck(data) \/ (Old /\ (pc \in {"execute", "send"} => packetsIter >= 3))
InvAcked ==
  "LoginAck" \in said /\ "AckConfig" \notin said =>
     /\ client \in {"config", "confused", "left"} /\ NoAck(beyond)
     /\ AckComes \/ AckCame \/ AckTaken

\* The inductive invariant: all this holds until a packet is cut in two.
Follows == InvSpaced /\ InvHeard /\ InvNew /\ InvBefore /\ InvLogin /\ InvAcked
FInv == SInv /\ InvBegun /\ (tears = 0 => Follows)

-----------------------------------------------------------------------------
(* FInv is inductive.                                                      *)

\* What Execute reads: the buffer, and behind it whatever is mapped.
LEMMA MemIs ==
  ASSUME TypeOK
  PROVE  /\ data \in Seq(Byte) /\ Len(data) = PacketSize
         /\ Mem \in Seq(Byte) /\ Len(beyond) \in Nat /\ Len(Mem) = PacketSize + Len(beyond)
         /\ \A i \in 1..PacketSize : Mem[i] = data[i]
         /\ \A i \in 1..Len(beyond) : Mem[PacketSize + i] = beyond[i]
<1>1. data \in Seq(Byte) /\ Len(data) = PacketSize /\ beyond \in Seq(Byte)
  BY PacketSizeAssumption DEF TypeOK
<1> DEFINE m == Mem
<1>2. m = data \o beyond
  BY DEF Mem
<1> HIDE DEF m
<1>3. /\ m \in Seq(Byte) /\ Len(beyond) \in Nat /\ Len(m) = Len(data) + Len(beyond)
      /\ \A i \in 1..Len(data) : m[i] = data[i]
      /\ \A i \in 1..Len(beyond) : m[Len(data) + i] = beyond[i]
  <2>1. data \in Seq(Byte) /\ beyond \in Seq(Byte)
    BY <1>1
  <2> QED BY <1>2, <2>1, Concat
<1> QED BY <1>1, <1>3 DEF m

\* No acknowledgement is taken where the bytes from the iterator on spell none.
LEMMA NoAckTaken ==
  ASSUME TypeOK, NoAck(beyond), NoAck(data) \/ (Old /\ packetsIter >= 3)
  PROVE  Taken.kind \notin {"LoginAck", "AckConfig"}
<1> DEFINE it == At(packetsIter)
<1>1. /\ it \in Iterator /\ it.st = "ok" /\ it.pos = packetsIter /\ Mem \in Seq(Byte)
      /\ packetsIter \in Nat \ {0}
  BY TakenResult DEF At, TypeOK
<1>2. ASSUME NEW i \in packetsIter..Len(Mem) PROVE Mem[i] % 128 # 3
  <2>1. i \in Nat /\ i >= 1 /\ i >= packetsIter /\ i <= PacketSize + Len(beyond) /\ Len(beyond) \in Nat
    BY <1>1, <1>2, MemIs
  <2>2. CASE i <= PacketSize
    <3>1. i \in 1..PacketSize
      BY <2>1, <2>2, PacketSizeAssumption
    <3>2. Mem[i] = data[i] /\ i \in 1..Len(data)
      BY <3>1, MemIs
    <3>3. CASE NoAck(data)
      BY <3>2, <3>3 DEF NoAck
    <3>4. CASE Old /\ packetsIter >= 3
      <4>1. i \in 3..PacketSize
        BY <1>1, <2>1, <2>2, <3>4, PacketSizeAssumption
      <4> QED BY <3>2, <3>4, <4>1 DEF Old
    <3> QED BY <3>3, <3>4
  <2>3. CASE i > PacketSize
    <3> DEFINE k == i - PacketSize
    <3>1. k \in 1..Len(beyond) /\ PacketSize + k = i
      BY <2>1, <2>3, PacketSizeAssumption
    <3> HIDE DEF k
    <3>2. Mem[i] = beyond[k]
      BY <3>1, MemIs
    <3> QED BY <3>1, <3>2 DEF NoAck
  <2> QED BY <2>1, <2>2, <2>3, PacketSizeAssumption
<1> HIDE DEF it
<1>3. Taken = NextPacket(m_state, Mem, it)
  BY DEF Taken, it
<1> QED BY <1>1, <1>2, <1>3, NextPacketForward

\* What a handler changes: the iterator goes on, the state moves along the
\* protocol, and what is to be sent is for that state.
LEMMA DispatchResult ==
  ASSUME IInv, Dispatch
  PROVE  /\ pc = "execute" /\ pc' \in {"execute", "send"} /\ UNCHANGED <<buffer, context>>
         /\ packetsIter' = Taken.it.pos /\ packetsIter' >= packetsIter
         /\ m_state \in {"IDLE", "STATUS", "LOGIN", "CONFIG"}
         /\ m_state = "IDLE"   => /\ m_state' = RequestedState(Taken.it.val) /\ todo' = << >>
                                  /\ m_state' \in {"IDLE", "STATUS", "LOGIN"}
                                  /\ pc' = "execute"
         /\ m_state = "STATUS" => m_state' = "STATUS"
         /\ m_state = "LOGIN"  => m_state' = IF Taken.kind = "LoginAck" THEN "CONFIG" ELSE "LOGIN"
         /\ m_state = "CONFIG" => m_state' = IF Taken.kind = "AckConfig" THEN "PLAY" ELSE "CONFIG"
         /\ Taken.kind # "null" /\ AllHeard(todo', m_state')
<1>1. PICK kind \in Kinds : Taken.kind = kind
  BY DEF Dispatch, OnHandshake, OnStatusRequest, OnPing, OnLoginStart,
         OnLoginAck, OnKnownPacks, OnAckConfig, Handle, Kinds
<1>2. /\ pc = "execute" /\ pc' \in {"execute", "send"} /\ UNCHANGED <<buffer, context>>
      /\ packetsIter' = Taken.it.pos
  BY DEF Dispatch, OnHandshake, OnStatusRequest, OnPing, OnLoginStart,
         OnLoginAck, OnKnownPacks, OnAckConfig, Handle
<1>3. packetsIter' >= packetsIter
  <2> DEFINE it == At(packetsIter)
  <2>1. it.pos = packetsIter /\ it \in Iterator /\ Mem \in Seq(Byte) /\ Taken = NextPacket(m_state, Mem, it)
    BY TakenResult DEF At, Taken, IInv
  <2> HIDE DEF it
  <2>2. Taken.it.pos >= it.pos
    BY <2>1, NextPacketForward
  <2> QED BY <1>2, <2>1, <2>2
<1>4. m_state \in {"IDLE", "STATUS", "LOGIN", "CONFIG"}
  BY <1>2 DEF IInv, TypeOK, InvLoop, States
<1>5. \E id : Taken.kind = KindOf(m_state, id)
  BY <1>1, TakenResult DEF IInv, Kinds
<1>6. ASSUME NEW s \in Seq(Message), NEW state \in {"CONFIG", "PLAY"} PROVE AllHeard(s, state)
  <2>1. \A i \in 1..Len(s) : s[i] \in Message
    BY ElementOfSeq
  <2> QED BY <2>1 DEF AllHeard, Heard
<1>7. CASE OnHandshake
  <2>1. m_state = "IDLE" /\ todo' = << >> /\ m_state' = RequestedState(Taken.it.val) /\ pc' = "execute"
    BY <1>5, <1>7 DEF OnHandshake, Handle, KindOf
  <2>2. m_state' \in {"IDLE", "STATUS", "LOGIN"}
    BY <2>1 DEF RequestedState
  <2>3. AllHeard(todo', m_state')
    BY <2>1 DEF AllHeard
  <2> QED BY <1>1, <1>2, <1>3, <2>1, <2>2, <2>3 DEF Kinds
<1>8. CASE OnStatusRequest \/ OnPing
  <2>1. /\ m_state = "STATUS" /\ m_state' = m_state
        /\ todo' = <<Msg("Status", 0)>> \/ todo' = <<Msg("Pong", 0)>>
    BY <1>5, <1>8 DEF OnStatusRequest, OnPing, Handle, KindOf
  <2>2. AllHeard(todo', m_state')
    BY <2>1 DEF AllHeard, Heard, Msg
  <2> QED BY <1>1, <1>2, <1>3, <2>1, <2>2 DEF Kinds
<1>9. CASE OnLoginStart
  <2>1. m_state = "LOGIN" /\ m_state' = m_state /\ todo' = <<Msg("LoginSuccess", 0)>>
        /\ Taken.kind = "LoginStart"
    BY <1>5, <1>9 DEF OnLoginStart, Handle, KindOf
  <2>2. AllHeard(todo', m_state')
    BY <2>1 DEF AllHeard, Heard, Msg
  <2> QED BY <1>1, <1>2, <1>3, <2>1, <2>2 DEF Kinds
<1>10. CASE OnLoginAck
  <2>1. m_state = "LOGIN" /\ m_state' = "CONFIG" /\ todo' = <<Msg("KnownPacks", 0)>>
        /\ Taken.kind = "LoginAck"
    BY <1>5, <1>10 DEF OnLoginAck, Handle, KindOf
  <2>2. "KnownPacks" \in Single
    BY DEF Single
  <2>3. todo' \in Seq(Message)
    BY <2>1, <2>2, SingleLinked
  <2>4. AllHeard(todo', m_state')
    BY <1>6, <2>1, <2>3
  <2> QED BY <1>1, <1>2, <1>3, <2>1, <2>4 DEF Kinds
<1>11. CASE OnKnownPacks
  <2>1. m_state = "CONFIG" /\ m_state' = m_state /\ todo' = RegistryBatch
        /\ Taken.kind = "KnownPacks"
    BY <1>5, <1>11 DEF OnKnownPacks, Handle, KindOf
  <2>2. AllHeard(todo', m_state')
    BY <1>6, <2>1, RegistryBatchLinked
  <2> QED BY <1>1, <1>2, <1>3, <2>1, <2>2 DEF Kinds
<1>12. CASE OnAckConfig
  <2>1. m_state = "CONFIG" /\ m_state' = "PLAY" /\ todo' = JoinBatch /\ Taken.kind = "AckConfig"
    BY <1>5, <1>12 DEF OnAckConfig, Handle, KindOf
  <2>2. AllHeard(todo', m_state')
    BY <1>6, <2>1, JoinBatchLinked
  <2> QED BY <1>1, <1>2, <1>3, <2>1, <2>2 DEF Kinds
<1> QED BY <1>7, <1>8, <1>9, <1>10, <1>11, <1>12 DEF Dispatch

\* What the client says keeps the ends apart.
LEMMA SaySpaced ==
  ASSUME SInv, InvSpaced, NEW kind \in Kinds, Say(kind)
  PROVE  InvSpaced'
<1> DEFINE P == PacketBytes(self, kind)
           n == Len(wire)
           p == Len(P)
<1>1. p \in Nat /\ p >= 2 /\ n \in Nat
  BY PacketIs, LenProperties DEF SInv, SessionTypeOK
<1>2. ends' = ends \cup {n + p} /\ ends \subseteq 1..n
  BY SayResult DEF SInv, SessionTypeOK
<1> HIDE DEF P, n, p
<1>3. SUFFICES ASSUME NEW e \in ends' \cup {0}, NEW f \in ends', e < f PROVE f - e >= 2
  BY DEF InvSpaced
<1>4. \A x \in ends : x \in Int /\ x >= 1 /\ x <= n
  <2>1. \A x \in 1..n : x \in Int /\ x >= 1 /\ x <= n
    BY <1>1
  <2> QED BY <1>2, <2>1
<1>5. CASE e \in ends \cup {0} /\ f \in ends
  BY <1>3, <1>5 DEF InvSpaced
<1>6. CASE e \in ends \cup {0} /\ f = n + p
  <2>1. e \in Int /\ e <= n
    BY <1>1, <1>4, <1>6
  <2> QED BY <1>1, <1>6, <2>1
<1>7. CASE e = n + p
  <2>1. f <= n + p /\ f \in Int
    BY <1>1, <1>2, <1>4
  <2> QED BY <1>1, <1>3, <1>7, <2>1
<1> QED BY <1>2, <1>5, <1>6, <1>7

\* And no acknowledgement can be read from it, unless it is one.
LEMMA SayNoAck ==
  ASSUME AcksUnmistakable, SInv, NoAck(wire),
         NEW kind \in Kinds \ {"LoginAck", "AckConfig"}, Say(kind)
  PROVE  NoAck(wire')
<1> DEFINE P == PacketBytes(self, kind)
           w == wire'
<1>1. P \in Seq(Byte) /\ NoAck(P) /\ wire \in Seq(Byte)
  BY PacketIs DEF SInv, SessionTypeOK, AcksUnmistakable
<1>2. w = wire \o P
  BY DEF Say
<1> HIDE DEF P, w
<1>3. /\ w \in Seq(Byte) /\ Len(wire) \in Nat /\ Len(P) \in Nat /\ Len(w) = Len(wire) + Len(P)
      /\ \A i \in 1..Len(wire) : w[i] = wire[i]
      /\ \A i \in 1..Len(P) : w[Len(wire) + i] = P[i]
  BY <1>1, <1>2, Concat
<1>4. ASSUME NEW i \in 1..Len(w) PROVE w[i] % 128 # 3
  <2> DEFINE n == Len(wire)
             p == Len(P)
             k == i - n
  <2>1. n \in Nat /\ p \in Nat /\ i \in 1..(n + p)
    BY <1>3, <1>4
  <2>2. CASE i <= n
    <3>1. i \in 1..Len(wire)
      BY <2>1, <2>2
    <3> QED BY <1>3, <3>1 DEF NoAck
  <2>3. CASE ~(i <= n)
    <3> HIDE DEF n, p
    <3>1. k \in 1..p /\ n + k = i
      BY <2>1, <2>3
    <3> HIDE DEF k
    <3>2. w[i] = P[k]
      BY <1>3, <3>1 DEF n, p
    <3> QED BY <1>1, <3>1, <3>2 DEF NoAck, p
  <2> QED BY <2>2, <2>3
<1> QED BY <1>4 DEF NoAck, w

\* The client's first steps.
LEMMA StartsFollow ==
  ASSUME AcksUnmistakable, FInv, ClientStarts
  PROVE  InvBegun' /\ (tears' = 0 => Follows')
<1>1. InvBegun'
  BY DEF ClientStarts, FInv, InvBegun, vars, context
<1>2. SUFFICES ASSUME tears' = 0 PROVE Follows'
  BY <1>1
<1>3. Follows /\ SInv /\ UNCHANGED vars /\ UNCHANGED <<self, inbox>> /\ peerOpen
  BY <1>2 DEF FInv, ClientStarts
<1>4. PICK kind \in {"Handshake", "StatusRequest", "LoginStart"} :
        /\ Say(kind)
        /\ kind = "Handshake" => client = "new" /\ client' = "greeted"
        /\ kind = "StatusRequest" => client = "greeted" /\ client' = "asking" /\ self.intent = "ping"
        /\ kind = "LoginStart" => client = "greeted" /\ client' = "login" /\ self.intent = "play"
  BY DEF ClientStarts
<1>5. kind \in Kinds /\ kind \in Kinds \ {"LoginAck", "AckConfig"}
  BY DEF Kinds
<1> DEFINE P == PacketBytes(self, kind)
<1>6. /\ said' = said \cup {kind}
      /\ wire' = wire \o P
      /\ ends' = ends \cup {Len(wire) + Len(P)}
      /\ ends \subseteq 1..Len(wire) /\ wire \in Seq(Byte) /\ P \in Seq(Byte)
  BY <1>3, <1>4, <1>5, SayResult, PacketIs DEF SInv, SessionTypeOK
<1>7. InvSpaced'
  BY <1>3, <1>4, <1>5, SaySpaced DEF Follows
<1>8. InvHeard'
  BY <1>3 DEF Follows, InvHeard, vars
<1>9. InvNew'
  BY <1>3, <1>4, <1>6 DEF Follows, InvNew
<1>10. InvBefore'
  <2>1. ASSUME "LoginAck" \notin said' PROVE NoAck(wire')
    BY <1>3, <1>4, <1>5, <1>6, <2>1, SayNoAck DEF Follows, InvBefore
  <2>2. data' = data /\ beyond' = beyond /\ m_state' = m_state
    BY <1>3 DEF vars, buffer
  <2> QED BY <1>3, <1>4, <1>6, <2>1, <2>2 DEF Follows, InvBefore
<1>11. InvLogin'
  <2>a. UNCHANGED <<pc, m_state, data, packetsIter, inbox, self>>
    BY <1>3 DEF vars, buffer
  <2>b. H \in Seq(Byte) /\ L \in Seq(Byte) /\ H' = H /\ L' = L
    BY <1>3, PacketIs DEF H, L, SInv, SessionTypeOK, Kinds
  <2>1. CASE kind = "Handshake"
    <3>1. /\ m_state = "IDLE" /\ pc = "receive" /\ wire = << >>
          /\ \A i \in 1..PacketSize : data[i] = 0
      BY <1>3, <1>4, <2>1 DEF Follows, InvNew, FInv, InvBegun
    <3>2. ends = {} /\ Len(wire) = 0
      <4>1. Len(wire) = 0
        BY <3>1, EmptySeq
      <4> QED BY <1>6, <4>1
    <3>3. inbox = << >>
      <4>1. AllHeard(inbox, "IDLE") /\ inbox \in Seq(Message)
        BY <1>3, <3>1 DEF Follows, InvHeard, SInv, SessionTypeOK
      <4>2. ASSUME inbox # << >> PROVE FALSE
        <5>1. Len(inbox) \in Nat \ {0}
          BY <4>1, <4>2, EmptySeq
        <5>2. 1 \in 1..Len(inbox)
          BY <5>1
        <5> QED BY <4>1, <5>2 DEF AllHeard, Heard
      <4> QED BY <4>2
    <3>4. wire' = H /\ ends' = {Len(H)}
      <4>1. P = H
        BY <2>1 DEF H
      <4>2. wire' = H
        BY <1>6, <2>b, <3>1, <4>1, ConcatEmptySeq
      <4>3. Len(H) \in Nat
        BY <2>b, LenProperties
      <4> QED BY <1>6, <3>2, <4>1, <4>2, <4>3
    <3>5. Filled(0)'
      <4>1. \A i \in 1..PacketSize : ~(i <= 0)
        OBVIOUS
      <4> QED BY <2>a, <3>1, <4>1 DEF Filled
    <3>6. AwaitsHandshake'
      BY <1>4, <2>a, <2>b, <2>1, <3>1, <3>3, <3>4, <3>5 DEF AwaitsHandshake
    <3> QED BY <1>4, <2>1, <3>6 DEF InvLogin
  <2>2. CASE kind = "StatusRequest"
    BY <1>4, <2>2 DEF InvLogin
  <2>3. CASE kind = "LoginStart"
    <3>1. client = "greeted" /\ client' = "login" /\ self.intent = "play" /\ P = L
      BY <1>4, <2>3 DEF L
    <3>2. AwaitsHandshake \/ HasHandshake
      BY <1>3, <3>1 DEF Follows, InvLogin
    <3>3. CASE AwaitsHandshake
      <4>1. /\ wire = H /\ ends = {Len(H)} /\ Filled(0) /\ pc = "receive" /\ m_state = "IDLE"
            /\ inbox = << >>
        BY <3>1, <3>3 DEF AwaitsHandshake
      <4>2. wire' = H \o L /\ ends' = {Len(H), Len(H) + Len(L)}
        BY <1>6, <3>1, <4>1
      <4>3. Filled(0)'
        BY <2>a, <2>b, <4>1 DEF Filled
      <4>4. AwaitsHandshake'
        BY <2>a, <2>b, <3>1, <4>1, <4>2, <4>3 DEF AwaitsHandshake
      <4> QED BY <2>a, <3>1, <4>4 DEF InvLogin
    <3>4. CASE HasHandshake
      <4>1. wire = << >> /\ ends = {} /\ Filled(Len(H)) /\ inbox = << >>
        BY <3>1, <3>4 DEF HasHandshake
      <4>2. wire' = L /\ ends' = {Len(L)}
        <5>1. wire' = L
          BY <1>6, <2>b, <3>1, <4>1, ConcatEmptySeq
        <5>2. Len(wire) = 0 /\ Len(L) \in Nat
          BY <2>b, <4>1, EmptySeq, LenProperties
        <5> QED BY <1>6, <3>1, <4>1, <5>1, <5>2
      <4>3. Filled(Len(H))'
        BY <2>a, <2>b, <4>1 DEF Filled
      <4>4. HasHandshake'
        BY <2>a, <2>b, <3>1, <3>4, <4>1, <4>2, <4>3 DEF HasHandshake
      <4> QED BY <2>a, <3>1, <4>4 DEF InvLogin
    <3> QED BY <3>2, <3>3, <3>4
  <2> QED BY <1>4, <2>1, <2>2, <2>3
<1>12. InvAcked'
  BY <1>3, <1>4, <1>6 DEF Follows, InvAcked
<1> QED BY <1>7, <1>8, <1>9, <1>10, <1>11, <1>12 DEF Follows

\* When the client answers what.
LEMMA ReactionCases ==
  ASSUME NEW state, NEW m, NEW r, r = Reaction(state, m)
  PROVE  /\ r[1] \notin {"new", "greeted", "asking", "login", "left"}
         /\ r[2] \in {Silent, "Ping", "LoginAck", "KnownPacks", "AckConfig"}
         /\ r[2] = "Ping"       => state = "asking" /\ r[1] = "pinging"
         /\ r[2] = "LoginAck"   => state = "login" /\ m.type = "LoginSuccess" /\ r[1] = "config"
         /\ r[2] = "KnownPacks" => state = "config" /\ m.type = "KnownPacks" /\ r[1] = "config"
         /\ r[2] = "AckConfig"  => state = "config" /\ r[1] = "play"
         /\ r[2] = Silent => \/ r[1] = "confused"
                             \/ r[1] = "pinged" /\ state = "pinging"
                             \/ r[1] = "config" /\ state = "config"
                             \/ r[1] \in {"play", "joined"} /\ state \in {"play", "joined"}
BY DEF Reaction, Silent

\* What is left of messages all heard is heard.
LEMMA TailHeard ==
  ASSUME NEW s \in Seq(Message), s # << >>, NEW state, AllHeard(s, state), NEW t, t = Tail(s)
  PROVE  AllHeard(t, state) /\ Head(s).type \in Heard(state) /\ t \in Seq(Message)
<1>1. /\ Len(s) \in Nat \ {0} /\ t \in Seq(Message) /\ Len(t) = Len(s) - 1
      /\ Head(s) = s[1] /\ \A i \in 1..Len(t) : t[i] = s[i + 1]
  BY EmptySeq, HeadTailProperties
<1> DEFINE n == Len(s)
           k == Len(t)
<1>2. n \in Nat \ {0} /\ k = n - 1
  BY <1>1
<1> HIDE DEF n, k
<1>3. 1 \in 1..n /\ \A i \in 1..k : i + 1 \in 1..n
  BY <1>2
<1> QED BY <1>1, <1>3 DEF AllHeard, n, k

\* The client handles a message.
LEMMA HandlesFollow ==
  ASSUME AcksUnmistakable, FInv, ClientHandles
  PROVE  InvBegun' /\ (tears' = 0 => Follows')
<1> DEFINE m == Head(inbox)
           r == Reaction(client, m)
           answer == r[2]
<1>1. /\ peerOpen /\ inbox # << >> /\ client' = r[1] /\ inbox' = Tail(inbox)
      /\ IF answer = Silent THEN UNCHANGED <<said, wire, ends>> ELSE Say(answer)
      /\ UNCHANGED <<vars, self, tears>>
  BY DEF ClientHandles
<1>2. r = Reaction(client, m)
  OBVIOUS
<1> HIDE DEF r
<1>3. /\ client' \notin {"new", "greeted", "asking", "login", "left"}
      /\ answer \in {Silent, "Ping", "LoginAck", "KnownPacks", "AckConfig"}
      /\ answer = "Ping"       => client = "asking" /\ client' = "pinging"
      /\ answer = "LoginAck"   => client = "login" /\ m.type = "LoginSuccess" /\ client' = "config"
      /\ answer = "KnownPacks" => client = "config" /\ m.type = "KnownPacks" /\ client' = "config"
      /\ answer = "AckConfig"  => client = "config" /\ client' = "play"
      /\ answer = Silent => \/ client' = "confused"
                            \/ client' = "pinged" /\ client = "pinging"
                            \/ client' = "config" /\ client = "config"
                            \/ client' \in {"play", "joined"} /\ client \in {"play", "joined"}
  BY <1>1, <1>2, ReactionCases
<1> HIDE DEF answer, m
<1>4. InvBegun'
  BY <1>1, <1>3 DEF FInv, InvBegun, vars, context
<1>5. SUFFICES ASSUME tears' = 0 PROVE Follows'
  BY <1>4
<1>6. Follows /\ SInv
  BY <1>1, <1>5 DEF FInv
<1>7. UNCHANGED <<pc, m_state, data, beyond, packetsIter, todo, self>>
  BY <1>1 DEF vars, buffer
<1>8. m.type \in Heard(m_state) /\ AllHeard(inbox', m_state)
  BY <1>1, <1>6, TailHeard DEF Follows, InvHeard, SInv, SessionTypeOK, m
<1>10. \/ answer = Silent /\ said' = said /\ wire' = wire /\ ends' = ends
       \/ /\ answer # Silent /\ answer \in Kinds /\ Say(answer)
          /\ said' = said \cup {answer}
  BY <1>1, <1>3, SayResult, <1>6 DEF Kinds, Say
<1>11. InvSpaced'
  BY <1>6, <1>10, SaySpaced DEF Follows, InvSpaced
<1>12. InvHeard'
  BY <1>6, <1>7, <1>8 DEF Follows, InvHeard
<1>13. InvNew'
  <2>1. ASSUME "Handshake" \notin said PROVE FALSE
    BY <1>6, <1>8, <2>1 DEF Follows, InvNew, Heard
  <2> QED BY <1>10, <2>1 DEF InvNew
<1>14. ASSUME NoAck(wire), answer \notin {"LoginAck", "AckConfig"} PROVE NoAck(wire')
  BY <1>6, <1>10, <1>14, SayNoAck
<1>15. InvBefore'
  <2> SUFFICES ASSUME "LoginAck" \notin said'
               PROVE  /\ m_state \notin {"CONFIG", "PLAY"} /\ client' \notin {"config", "play", "joined"}
                      /\ "AckConfig" \notin said'
                      /\ NoAck(data) /\ NoAck(wire') /\ NoAck(beyond)
    BY <1>7 DEF InvBefore
  <2>1. "LoginAck" \notin said /\ answer # "LoginAck"
    BY <1>10 DEF Silent
  <2>2. /\ m_state \notin {"CONFIG", "PLAY"} /\ client \notin {"config", "play", "joined"}
        /\ "AckConfig" \notin said
        /\ NoAck(data) /\ NoAck(wire) /\ NoAck(beyond)
    BY <1>6, <2>1 DEF Follows, InvBefore
  <2>3. client' \in {"pinging", "pinged", "confused"} /\ answer # "AckConfig"
    BY <1>3, <2>1, <2>2
  <2> QED BY <1>10, <1>14, <2>1, <2>2, <2>3
<1>16. InvLogin'
  BY <1>3 DEF InvLogin
<1>17. InvAcked'
  <2> SUFFICES ASSUME "LoginAck" \in said', "AckConfig" \notin said' PROVE InvAcked'
    BY DEF InvAcked
  <2>1. "AckConfig" \notin said /\ answer # "AckConfig"
    BY <1>10 DEF Silent
  <2>2. CASE answer = "LoginAck"
    <3>1. client = "login" /\ client' = "config"
      BY <1>3, <2>2
    <3>2. "LoginAck" \notin said
      BY <1>6, <2>1, <3>1 DEF Follows, InvAcked
    <3>3. NoAck(data) /\ NoAck(beyond) /\ m_state \notin {"CONFIG", "PLAY"}
      BY <1>6, <3>2 DEF Follows, InvBefore
    <3>4. m_state = "LOGIN"
      <4>1. m.type = "LoginSuccess"
        BY <1>3, <2>2
      <4>2. m_state \in States
        BY <1>6 DEF SInv, IInv, TypeOK
      <4> QED BY <1>8, <3>3, <4>1, <4>2 DEF Heard, States
    <3>5. wire = << >>
      BY <1>1, <1>6, <3>1 DEF Follows, InvLogin, AwaitsHandshake, HasHandshake
    <3>6. ends = {} /\ Len(wire) = 0
      <4>1. Len(wire) = 0
        BY <3>5, EmptySeq
      <4> QED BY <1>6, <4>1 DEF SInv, SessionTypeOK
    <3>7. wire' = <<1, 3>> /\ ends' = {2}
      <4>1. PacketBytes(self, "LoginAck") = <<1, 3>>
        BY <1>6, AckIs DEF SInv, SessionTypeOK
      <4>2. wire' = wire \o <<1, 3>> /\ ends' = ends \cup {Len(wire) + Len(<<1, 3>>)}
        BY <1>10, <2>2, <4>1 DEF Say, Silent
      <4> QED BY <3>5, <3>6, <4>2
    <3>8. AckComes'
      BY <1>7, <3>3, <3>4, <3>7 DEF AckComes
    <3> QED BY <1>7, <3>1, <3>3, <3>8 DEF InvAcked
  <2>3. CASE answer # "LoginAck"
    <3>1. "LoginAck" \in said
      BY <1>10, <2>3
    <3>2. /\ client \in {"config", "confused", "left"} /\ NoAck(beyond)
          /\ AckComes \/ AckCame \/ AckTaken
      BY <1>6, <2>1, <3>1 DEF Follows, InvAcked
    <3>3. client' \in {"config", "confused"} /\ answer \in {Silent, "KnownPacks"}
      BY <1>3, <2>1, <2>3, <3>2
    <3>4. CASE answer = Silent
      <4>1. wire' = wire /\ ends' = ends
        BY <1>10, <3>4
      <4>2. AckComes' \/ AckCame' \/ AckTaken'
        BY <1>7, <3>2, <4>1 DEF AckComes, AckCame, AckTaken, Old
      <4> QED BY <1>7, <3>2, <3>3, <4>2 DEF InvAcked
    <3>5. CASE answer = "KnownPacks"
      <4>1. m.type = "KnownPacks"
        BY <1>3, <3>5
      <4>2. m_state # "LOGIN"
        BY <1>8, <4>1 DEF Heard
      <4>3. AckTaken
        BY <3>2, <4>2 DEF AckComes, AckCame
      <4>4. NoAck(wire')
        BY <1>14, <2>1, <2>3, <4>3 DEF AckTaken
      <4>5. AckTaken'
        BY <1>7, <4>3, <4>4 DEF AckTaken, Old
      <4> QED BY <1>7, <3>2, <3>3, <4>5 DEF InvAcked
    <3> QED BY <3>3, <3>4, <3>5
  <2> QED BY <2>2, <2>3
<1> QED BY <1>11, <1>12, <1>13, <1>15, <1>16, <1>17 DEF Follows

\* The client leaves.
LEMMA ClosesFollow ==
  ASSUME FInv, ClientCloses
  PROVE  InvBegun' /\ (tears' = 0 => Follows')
<1>1. /\ client' = "left" /\ peerOpen' = FALSE
      /\ UNCHANGED <<self, said, wire, ends, inbox, tears>>
      /\ UNCHANGED <<pc, m_state, data, beyond, packetsIter, todo>>
  BY DEF ClientCloses, ClientLeaves, buffer
<1>2. InvBegun'
  BY <1>1 DEF InvBegun
<1>3. SUFFICES ASSUME Follows PROVE Follows'
  BY <1>1, <1>2 DEF FInv
<1>4. InvSpaced' /\ InvHeard'
  BY <1>1, <1>3 DEF Follows, InvSpaced, InvHeard
<1>5. InvNew' /\ InvBefore' /\ InvLogin'
  BY <1>1, <1>3 DEF Follows, InvNew, InvBefore, InvLogin
<1>6. InvAcked'
  <2>1. (AckComes \/ AckCame \/ AckTaken) => (AckComes' \/ AckCame' \/ AckTaken')
    BY <1>1 DEF AckComes, AckCame, AckTaken, Old
  <2> QED BY <1>1, <1>3, <2>1 DEF Follows, InvAcked
<1> QED BY <1>4, <1>5, <1>6 DEF Follows

\* Where the bytes are after a Receive.
LEMMA DeliveredBytes ==
  ASSUME SInv, SInv', NEW n \in 1..Len(wire), Deliver(n)
  PROVE  /\ n \in 1..PacketSize /\ pc = "receive" /\ pc' = "execute" /\ packetsIter' = 1
         /\ beyond' \in Beyond /\ UNCHANGED <<m_state, todo, peerOpen>>
         /\ \A i \in 1..PacketSize : data'[i] = IF i <= n THEN wire[i] ELSE data[i]
         /\ Len(data) = PacketSize /\ Len(data') = PacketSize
         /\ NoAck(wire) => NoAck(wire')
         /\ NoAck(wire) /\ (NoAck(data) \/ (Old /\ n >= 2)) => NoAck(data')
<1> DEFINE seg == SubSeq(wire, 1, n)
           w == wire'
           d == data'
<1>1. /\ n <= PacketSize /\ Receive(seg) /\ Len(seg) = n
      /\ \A i \in 1..n : seg[i] = wire[i]
      /\ w \in Seq(Byte)
      /\ \A i \in 1..Len(w) : n + i \in 1..Len(wire) /\ w[i] = wire[n + i]
  BY DeliverResult DEF SInv, SessionTypeOK
<1> HIDE DEF w
<1>2. Len(data) = PacketSize /\ Len(d) = PacketSize
  BY PacketSizeAssumption DEF SInv, IInv, TypeOK
<1>3. n \in 1..PacketSize
  <2>1. n \in Int /\ 1 <= n
    OBVIOUS
  <2> QED BY <1>1, <2>1, PacketSizeAssumption
<1>4. \A i \in 1..PacketSize : d[i] = IF i <= n THEN wire[i] ELSE data[i]
  <2> HIDE DEF seg
  <2>1. \A i \in 1..PacketSize : d[i] = IF i <= Len(seg) THEN seg[i] ELSE data[i]
    BY <1>1 DEF Receive
  <2>2. \A i \in 1..PacketSize : i <= n => i \in 1..n
    BY <1>3
  <2> QED BY <1>1, <2>1, <2>2
<1>5. /\ pc = "receive" /\ pc' = "execute" /\ packetsIter' = 1
      /\ beyond' \in Beyond /\ UNCHANGED <<m_state, todo, peerOpen>>
  BY <1>1 DEF Receive, context
<1> HIDE DEF seg, d
<1>6. NoAck(wire) => NoAck(w)
  BY <1>1 DEF NoAck
<1>7. ASSUME NoAck(wire), NoAck(data) \/ (Old /\ n >= 2) PROVE NoAck(d)
  <2>1. ASSUME NEW i \in 1..PacketSize PROVE d[i] % 128 # 3
    <3>1. CASE i <= n
      <4>1. i \in 1..Len(wire)
        BY <3>1, LenProperties DEF SInv, SessionTypeOK
      <4>2. d[i] = wire[i]
        BY <1>4, <3>1
      <4> QED BY <1>7, <4>1, <4>2 DEF NoAck
    <3>2. CASE ~(i <= n)
      <4>1. d[i] = data[i]
        BY <1>4, <3>2
      <4>2. i \in 1..Len(data) /\ (n >= 2 => i \in 3..PacketSize)
        BY <1>2, <1>3, <3>2
      <4> QED BY <1>7, <4>1, <4>2 DEF NoAck, Old
    <3> QED BY <3>1, <3>2
  <2> QED BY <1>2, <2>1 DEF NoAck
<1> QED BY <1>2, <1>3, <1>4, <1>5, <1>6, <1>7 DEF w, d

\* The server receives whole packets.
LEMMA ReceivesFollow ==
  ASSUME AcksUnmistakable, FInv, SInv', ServerReceives
  PROVE  InvBegun' /\ (tears' = 0 => Follows')
<1>1. UNCHANGED <<self, client, said, inbox>>
  BY DEF ServerReceives
<1>2. PICK n \in 1..Len(wire) : Deliver(n) /\ ((n \in ends /\ UNCHANGED tears) \/ tears' = tears + 1)
  BY DEF ServerReceives
<1>a. SInv
  BY DEF FInv
<1>3. /\ n \in 1..PacketSize /\ pc = "receive" /\ pc' = "execute" /\ packetsIter' = 1
      /\ beyond' \in Beyond /\ UNCHANGED <<m_state, todo, peerOpen>>
      /\ \A i \in 1..PacketSize : data'[i] = IF i <= n THEN wire[i] ELSE data[i]
      /\ NoAck(wire) => NoAck(wire')
      /\ NoAck(wire) /\ (NoAck(data) \/ (Old /\ n >= 2)) => NoAck(data')
  BY <1>2, <1>a, DeliveredBytes
<1>4. InvBegun'
  BY <1>1, <1>3 DEF FInv, InvBegun
<1>5. SUFFICES ASSUME tears' = 0 PROVE Follows'
  BY <1>4
<1>6. n \in ends /\ Follows
  <2>1. tears \in Nat
    BY <1>a, MaxTearsAssumption DEF SInv, SessionTypeOK
  <2>2. tears' # tears + 1
    BY <1>5, <2>1
  <2> QED BY <1>2, <1>5, <2>2 DEF FInv
<1>7. /\ wire' \in Seq(Byte) /\ Len(wire) \in Nat /\ Len(wire') = Len(wire) - n
      /\ \A i \in 1..Len(wire') : n + i \in 1..Len(wire) /\ wire'[i] = wire[n + i]
      /\ ends' = {e \in 1..Len(wire') : n + e \in ends}
      /\ ends \subseteq 1..Len(wire) /\ wire \in Seq(Byte)
  BY <1>2, <1>a, DeliverResult DEF SInv, SessionTypeOK
<1>8. NoAck(beyond')
  BY <1>3 DEF AcksUnmistakable
<1>b. n >= 2 /\ n \in Nat
  <2>1. 0 < n /\ n \in Nat
    BY <1>3
  <2>2. n - 0 >= 2
    BY <1>6, <2>1 DEF Follows, InvSpaced
  <2> QED BY <2>1, <2>2
<1>9. InvSpaced'
  <2> SUFFICES ASSUME NEW e \in ends' \cup {0}, NEW f \in ends', e < f PROVE f - e >= 2
    BY DEF InvSpaced
  <2>1. n + e \in ends /\ n + f \in ends
    <3>1. n + 0 = n
      BY <1>b
    <3> QED BY <1>6, <1>7, <3>1
  <2>2. e \in Int /\ f \in Int
    <3> DEFINE l == Len(wire')
    <3>1. ends' \subseteq 1..l
      BY <1>7
    <3> HIDE DEF l
    <3>2. \A x \in 1..l : x \in Int
      OBVIOUS
    <3> QED BY <3>1, <3>2
  <2>3. n + e < n + f
    BY <1>b, <2>2
  <2>4. (n + f) - (n + e) >= 2
    BY <1>6, <2>1, <2>3 DEF Follows, InvSpaced
  <2> QED BY <1>b, <2>2, <2>4
<1>10. InvHeard'
  BY <1>1, <1>3, <1>6 DEF Follows, InvHeard
<1>11. wire # << >>
  <2>1. ASSUME wire = << >> PROVE FALSE
    <3>1. Len(wire) = 0
      BY <2>1, EmptySeq
    <3>2. ends = {}
      BY <1>7, <3>1
    <3> QED BY <1>6, <3>2
  <2> QED BY <2>1
<1>12. InvNew'
  BY <1>1, <1>6, <1>11 DEF Follows, InvNew
<1>13. InvBefore'
  BY <1>1, <1>3, <1>6, <1>8 DEF Follows, InvBefore
<1>14. InvLogin'
  <2> SUFFICES ASSUME client = "login" \/ (client = "greeted" /\ self.intent = "play")
               PROVE  \/ HasHandshake' \/ (client = "login" /\ wire' = << >>)
    BY <1>1, <1>6 DEF Follows, InvLogin
  <2>1. AwaitsHandshake \/ HasHandshake
    BY <1>6, <1>11 DEF Follows, InvLogin
  <2>2. /\ H' = H /\ L' = L /\ H \in Seq(Byte) /\ L \in Seq(Byte)
        /\ Len(H) \in Nat /\ Len(L) \in Nat /\ Len(L) >= 2 /\ Len(H) < PacketSize
    BY <1>1, <1>a, PacketIs DEF H, L, SInv, SessionTypeOK, Kinds
  <2> DEFINE h == Len(H)
             l == Len(L)
             k == Len(wire')
  <2>3. h \in Nat /\ l \in Nat /\ l >= 2
    BY <2>2
  <2>4. ASSUME k = 0 PROVE wire' = << >>
    BY <1>7, <2>4, EmptySeq
  <2>5. CASE AwaitsHandshake /\ client = "greeted"
    <3>1. /\ m_state = "IDLE" /\ Filled(0) /\ inbox = << >> /\ wire = H /\ ends = {h}
      BY <2>5 DEF AwaitsHandshake
    <3>2. n = h /\ wire' = << >>
      <4>1. n = h /\ k = h - n
        BY <1>6, <1>7, <3>1
      <4> HIDE DEF h, k
      <4>2. k = 0
        BY <2>3, <4>1
      <4> QED BY <2>4, <4>1, <4>2
    <3>3. ends' = {}
      <4>1. Len(wire') = 0
        BY <3>2, EmptySeq
      <4> QED BY <1>7, <4>1
    <3>4. Filled(Len(H))'
      <4>1. \A i \in 1..PacketSize : data[i] = 0
        BY <3>1 DEF Filled
      <4>2. \A i \in 1..PacketSize : data'[i] = IF i <= Len(H) THEN H[i] ELSE 0
        BY <1>3, <3>1, <3>2, <4>1
      <4> QED BY <2>2, <4>2 DEF Filled
    <3> QED BY <1>1, <1>3, <2>2, <2>5, <3>1, <3>2, <3>3, <3>4 DEF HasHandshake
  <2>6. CASE AwaitsHandshake /\ client = "login"
    <3>1. /\ m_state = "IDLE" /\ Filled(0) /\ inbox = << >> /\ wire = H \o L /\ ends = {h, h + l}
      BY <2>6 DEF AwaitsHandshake
    <3>2. /\ Len(wire) = h + l
          /\ \A i \in 1..h : wire[i] = H[i]
          /\ \A i \in 1..l : wire[h + i] = L[i]
      BY <2>2, <3>1, Concat
    <3>3. CASE n = h + l
      <4>1. k = (h + l) - n
        BY <1>7, <3>2
      <4> HIDE DEF h, l, k
      <4>2. k = 0
        BY <2>3, <3>3, <4>1
      <4> QED BY <2>4, <2>6, <4>2
    <3>4. CASE n = h
      <4>1. k = l
        <5>1. k = (h + l) - n
          BY <1>7, <3>2
        <5> HIDE DEF h, l, k
        <5> QED BY <2>3, <3>4, <5>1
      <4>2. wire' = L
        <5> DEFINE w == wire'
        <5>1. w \in Seq(Byte) /\ Len(w) = Len(L)
          BY <1>7, <4>1
        <5>2. \A i \in 1..Len(L) : w[i] = L[i]
          BY <1>7, <3>2, <3>4, <4>1
        <5> HIDE DEF w
        <5>3. w = L
          BY <2>2, <5>1, <5>2, SeqEqual
        <5> QED BY <5>3 DEF w
      <4>3. ends' = {l}
        <5>1. ends' = {e \in 1..l : h + e \in {h, h + l}}
          BY <1>7, <3>1, <3>4, <4>1
        <5> HIDE DEF h, l
        <5>2. \A e \in 1..l : h + e \in {h, h + l} <=> e = l
          BY <2>3
        <5>3. l \in 1..l
          BY <2>3
        <5> QED BY <5>1, <5>2, <5>3
      <4>4. Filled(Len(H))'
        <5>1. \A i \in 1..PacketSize : data[i] = 0
          BY <3>1 DEF Filled
        <5>2. \A i \in 1..PacketSize : i <= h => i \in 1..h
          BY <2>3
        <5>3. \A i \in 1..PacketSize : data'[i] = IF i <= Len(H) THEN H[i] ELSE 0
          BY <1>3, <3>2, <3>4, <5>1, <5>2
        <5> QED BY <2>2, <5>3 DEF Filled
      <4> QED BY <1>1, <1>3, <2>2, <2>6, <3>1, <4>2, <4>3, <4>4 DEF HasHandshake
    <3> QED BY <1>6, <3>1, <3>3, <3>4
  <2>7. CASE HasHandshake
    <3>1. client = "login" /\ wire = L /\ ends = {Len(L)}
      BY <1>11, <2>7 DEF HasHandshake
    <3>2. n = l /\ k = l - n
      BY <1>6, <1>7, <3>1
    <3>3. k = 0
      <4> HIDE DEF l, k
      <4> QED BY <2>3, <3>2
    <3> QED BY <2>4, <3>1, <3>3
  <2> QED BY <2>1, <2>5, <2>6, <2>7
<1>15. InvAcked'
  <2> SUFFICES ASSUME "LoginAck" \in said, "AckConfig" \notin said
               PROVE  AckCame' \/ AckTaken'
    BY <1>1, <1>6, <1>8 DEF Follows, InvAcked
  <2>1. AckComes \/ AckTaken
    BY <1>3, <1>6 DEF Follows, InvAcked, AckCame
  <2>2. CASE AckComes
    <3>1. m_state = "LOGIN" /\ wire = <<1, 3>> /\ ends = {2} /\ NoAck(data)
      BY <2>2 DEF AckComes
    <3>2. n = 2 /\ Len(wire') = 0
      BY <1>6, <1>7, <3>1
    <3>3. wire' = << >>
      BY <1>7, <3>2, EmptySeq
    <3>4. data'[1] = 1 /\ data'[2] = 3
      <4>1. 1 \in 1..PacketSize /\ 2 \in 1..PacketSize /\ 1 <= 2
        BY <1>3, <3>2, PacketSizeAssumption
      <4>2. wire[1] = 1 /\ wire[2] = 3
        BY <3>1
      <4> QED BY <1>3, <3>2, <4>1, <4>2
    <3>5. Old'
      <4>1. Len(data) = PacketSize
        BY <1>2, <1>a, DeliveredBytes
      <4>2. ASSUME NEW i \in 3..PacketSize PROVE data'[i] % 128 # 3
        <5>1. i \in 1..PacketSize /\ ~(i <= 2)
          BY PacketSizeAssumption
        <5>2. data'[i] = data[i]
          BY <1>3, <3>2, <5>1
        <5> QED BY <3>1, <4>1, <5>1, <5>2 DEF NoAck
      <4> QED BY <4>2 DEF Old
    <3> QED BY <1>3, <3>1, <3>3, <3>4, <3>5 DEF AckCame
  <2>3. CASE AckTaken
    BY <1>3, <1>b, <2>3 DEF AckTaken
  <2> QED BY <2>1, <2>2, <2>3
<1> QED BY <1>9, <1>10, <1>12, <1>13, <1>14, <1>15 DEF Follows

\* The server sees that the client left.
LEMMA SeesCloseFollow ==
  ASSUME FInv, ServerSeesClose
  PROVE  InvBegun' /\ (tears' = 0 => Follows')
<1>1. /\ UNCHANGED <<self, client, said, wire, ends, inbox, tears>>
      /\ UNCHANGED <<m_state, data, beyond, packetsIter, todo, peerOpen>>
      /\ pc = "receive" /\ pc' = "returned" /\ ~peerOpen /\ wire = << >>
  BY DEF ServerSeesClose, ReceiveNothing, session, context
<1>2. InvBegun'
  BY <1>1 DEF FInv, InvBegun
<1>3. SUFFICES ASSUME Follows PROVE Follows'
  BY <1>1, <1>2 DEF FInv
<1>4. client = "left"
  BY <1>1 DEF FInv, InvBegun
<1>5. InvSpaced' /\ InvHeard' /\ InvBefore' /\ InvLogin'
  BY <1>1, <1>3, <1>4 DEF Follows, InvSpaced, InvHeard, InvBefore, InvLogin
<1>6. InvNew'
  BY <1>1, <1>3 DEF Follows, InvNew, Ended
<1>7. InvAcked'
  <2>1. (AckComes \/ AckCame \/ AckTaken) => (AckComes' \/ AckCame' \/ AckTaken')
    BY <1>1 DEF AckComes, AckCame, AckTaken, Old
  <2> QED BY <1>1, <1>3, <2>1 DEF Follows, InvAcked
<1> QED BY <1>3, <1>5, <1>6, <1>7 DEF Follows

\* At the handshake, Execute takes it; behind it there is nothing more to take.
LEMMA HandshakeNext ==
  ASSUME SInv, HasHandshake, pc = "execute", self.intent = "play"
  PROVE  /\ Taken.it.st = "ok"
         /\ m_state = "IDLE"  => Taken.kind = "Handshake" /\ Taken.it.pos = Len(H) + 1
                                 /\ RequestedState(Taken.it.val) = "LOGIN"
         /\ m_state = "LOGIN" => Taken.kind = "null"
         /\ m_state \in {"IDLE", "LOGIN"}
<1>1. /\ Mem \in Seq(Byte) /\ Len(beyond) \in Nat /\ Len(Mem) = PacketSize + Len(beyond)
      /\ \A i \in 1..PacketSize : Mem[i] = data[i]
  BY MemIs DEF SInv, IInv
<1>2. self \in Clients /\ H \in Seq(Byte) /\ Len(H) \in Nat /\ Len(H) < PacketSize
  BY PacketIs DEF H, SInv, SessionTypeOK, Kinds
<1>3. /\ \A i \in 1..PacketSize : data[i] = IF i <= Len(H) THEN H[i] ELSE 0
      /\ \/ m_state = "IDLE" /\ packetsIter = 1
         \/ m_state = "LOGIN" /\ packetsIter = Len(H) + 1
  BY DEF HasHandshake, Filled
<1> DEFINE h == Len(H)
           n == Len(Mem)
<1>4. h \in Nat /\ h < PacketSize /\ PacketSize \in Nat /\ n \in Nat /\ PacketSize <= n
  BY <1>1, <1>2, PacketSizeAssumption
<1>5. CASE m_state = "IDLE"
  <2>1. Taken = NextPacket("IDLE", Mem, At(1))
    BY <1>3, <1>5 DEF Taken
  <2>2. Len(H) <= Len(Mem)
    <3> HIDE DEF h, n
    <3>1. h <= n
      BY <1>4
    <3> QED BY <3>1 DEF h, n
  <2>3. \A i \in 1..Len(H) : Mem[i] = H[i]
    <3>1. \A i \in 1..h : i \in 1..PacketSize /\ i <= h
      <4> HIDE DEF h
      <4> QED BY <1>4
    <3> QED BY <1>1, <1>3, <3>1
  <2>4. H = PacketBytes(self, "Handshake")
    BY DEF H
  <2> HIDE DEF h, n
  <2>5. /\ Taken.kind = "Handshake" /\ Taken.it.st = "ok"
        /\ Taken.it.pos = Len(H) + 1 /\ Taken.it.val = RequestedNext(self)
    BY <1>1, <1>2, <2>1, <2>2, <2>3, <2>4, HandshakeTaken
  <2>6. RequestedNext(self) = 2
    BY DEF RequestedNext
  <2> QED BY <1>5, <2>5, <2>6 DEF RequestedState
<1>6. CASE m_state = "LOGIN"
  <2>1. Taken = NextPacket("LOGIN", Mem, At(h + 1))
    BY <1>3, <1>6 DEF Taken
  <2>2. h + 1 \in 1..PacketSize /\ h + 1 \in 1..n /\ ~(h + 1 <= h)
    <3> HIDE DEF h, n
    <3> QED BY <1>4
  <2>3. Mem[h + 1] = 0
    BY <1>1, <1>3, <2>2
  <2> HIDE DEF h
  <2>4. Taken.kind = "null" /\ Taken.it.st = "ok"
    BY <1>1, <2>1, <2>2, <2>3, ZeroTaken
  <2> QED BY <1>6, <2>4
<1> QED BY <1>3, <1>5, <1>6

\* At the login acknowledgement, Execute takes it.
LEMMA LoginAckNext ==
  ASSUME SInv, AckCame
  PROVE  Taken.kind = "LoginAck" /\ Taken.it.st = "ok" /\ Taken.it.pos = 3
<1>1. /\ Mem \in Seq(Byte) /\ Len(beyond) \in Nat /\ Len(Mem) = PacketSize + Len(beyond)
      /\ \A i \in 1..PacketSize : Mem[i] = data[i]
  BY MemIs DEF SInv, IInv
<1>2. PacketSize >= 2
  <2>1. /\ self \in Clients /\ "LoginAck" \in Kinds
    BY DEF SInv, SessionTypeOK, Kinds
  <2>2. Len(PacketBytes(self, "LoginAck")) \in Nat /\ Len(PacketBytes(self, "LoginAck")) >= 2
        /\ Len(PacketBytes(self, "LoginAck")) < PacketSize
    BY <2>1, PacketIs
  <2> QED BY <2>2, PacketSizeAssumption
<1>3. Mem[1] = 1 /\ Mem[2] = 3
  <2>1. 1 \in 1..PacketSize /\ 2 \in 1..PacketSize
    BY <1>2, PacketSizeAssumption
  <2> QED BY <1>1, <2>1 DEF AckCame
<1>4. Len(Mem) >= 2
  BY <1>1, <1>2, PacketSizeAssumption
<1>5. Taken = NextPacket("LOGIN", Mem, At(1))
  BY DEF Taken, AckCame
<1> QED BY <1>1, <1>3, <1>4, <1>5, LoginAckTaken

\* A handler runs.
LEMMA DispatchFollows ==
  ASSUME FInv, Follows, Dispatch, UNCHANGED session
  PROVE  Follows'
<1>1. /\ UNCHANGED <<self, client, said, wire, ends, inbox, tears>>
      /\ UNCHANGED <<data, beyond, peerOpen>> /\ pc = "execute"
      /\ pc' \in {"execute", "send"}
      /\ packetsIter' = Taken.it.pos /\ packetsIter' >= packetsIter
      /\ m_state \in {"IDLE", "STATUS", "LOGIN", "CONFIG"}
      /\ m_state = "IDLE"   => /\ m_state' = RequestedState(Taken.it.val) /\ todo' = << >>
                               /\ m_state' \in {"IDLE", "STATUS", "LOGIN"}
                               /\ pc' = "execute"
      /\ m_state = "STATUS" => m_state' = "STATUS"
      /\ m_state = "LOGIN"  => m_state' = IF Taken.kind = "LoginAck" THEN "CONFIG" ELSE "LOGIN"
      /\ m_state = "CONFIG" => m_state' = IF Taken.kind = "AckConfig" THEN "PLAY" ELSE "CONFIG"
      /\ Taken.kind # "null" /\ AllHeard(todo', m_state')
  BY DispatchResult DEF FInv, SInv, session, buffer, context
<1>2. InvSpaced'
  BY <1>1 DEF Follows, InvSpaced
<1>3. InvHeard'
  <2>1. AllHeard(inbox, m_state) /\ inbox \in Seq(Message)
    BY DEF Follows, InvHeard, FInv, SInv, SessionTypeOK
  <2>2. CASE m_state = "IDLE"
    BY <1>1, <2>1, <2>2 DEF InvHeard, AllHeard, Heard
  <2>3. CASE m_state' = m_state
    BY <1>1, <2>1, <2>3 DEF InvHeard
  <2>4. CASE m_state' \in {"CONFIG", "PLAY"}
    <3>1. \A i \in 1..Len(inbox) : inbox[i] \in Message
      BY <2>1, ElementOfSeq
    <3>2. AllHeard(inbox, m_state')
      BY <2>4, <3>1 DEF AllHeard, Heard
    <3> QED BY <1>1, <3>2 DEF InvHeard
  <2> QED BY <1>1, <2>2, <2>3, <2>4
<1>4. InvNew'
  BY <1>1 DEF Follows, InvNew, Ended
<1>5. InvBefore'
  <2> SUFFICES ASSUME "LoginAck" \notin said PROVE m_state' \notin {"CONFIG", "PLAY"}
    BY <1>1 DEF Follows, InvBefore
  <2>1. m_state \notin {"CONFIG", "PLAY"} /\ NoAck(data) /\ NoAck(beyond)
    BY DEF Follows, InvBefore
  <2>2. Taken.kind # "LoginAck"
    BY <2>1, NoAckTaken DEF FInv, SInv, IInv
  <2> QED BY <1>1, <2>1, <2>2
<1>6. InvLogin'
  <2> SUFFICES ASSUME client = "login" \/ (client = "greeted" /\ self.intent = "play")
               PROVE  HasHandshake' \/ (client = "login" /\ wire = << >>)
    BY <1>1 DEF Follows, InvLogin
  <2>1. HasHandshake \/ (client = "login" /\ wire = << >>)
    BY <1>1 DEF Follows, InvLogin, AwaitsHandshake
  <2>2. CASE HasHandshake
    <3>1. self.intent = "play"
      BY DEF Follows, InvLogin
    <3>2. m_state = "IDLE" /\ Taken.it.pos = Len(H) + 1 /\ RequestedState(Taken.it.val) = "LOGIN"
      BY <1>1, <2>2, <3>1, HandshakeNext DEF FInv
    <3>3. H' = H /\ L' = L
      BY <1>1 DEF H, L
    <3>4. Filled(Len(H))'
      BY <1>1, <2>2, <3>3 DEF HasHandshake, Filled
    <3> QED BY <1>1, <2>2, <3>2, <3>3, <3>4 DEF HasHandshake
  <2> QED BY <2>1, <2>2
<1>7. InvAcked'
  <2> SUFFICES ASSUME "LoginAck" \in said, "AckConfig" \notin said
               PROVE  AckComes' \/ AckTaken'
    BY <1>1 DEF Follows, InvAcked
  <2>1. NoAck(beyond) /\ (AckComes \/ AckCame \/ AckTaken)
    BY DEF Follows, InvAcked
  <2>2. CASE AckComes
    <3>1. m_state = "LOGIN" /\ NoAck(data)
      BY <2>2 DEF AckComes
    <3>2. Taken.kind # "LoginAck"
      BY <2>1, <3>1, NoAckTaken DEF FInv, SInv, IInv
    <3> QED BY <1>1, <2>2, <3>1, <3>2 DEF AckComes
  <2>3. CASE AckCame
    <3>1. Taken.kind = "LoginAck" /\ Taken.it.pos = 3
      BY <2>3, LoginAckNext DEF FInv
    <3>2. m_state' = "CONFIG" /\ packetsIter' = 3
      BY <1>1, <2>3, <3>1 DEF AckCame
    <3>3. NoAck(wire)
      BY <2>3 DEF AckCame, NoAck
    <3> QED BY <1>1, <2>3, <3>2, <3>3 DEF AckCame, AckTaken, Old
  <2>4. CASE AckTaken
    <3>1. m_state = "CONFIG" /\ NoAck(wire) /\ (NoAck(data) \/ (Old /\ packetsIter >= 3))
      BY <1>1, <2>4 DEF AckTaken
    <3>2. Taken.kind # "AckConfig"
      BY <2>1, <3>1, NoAckTaken DEF FInv, SInv, IInv
    <3>3. packetsIter >= 3 => packetsIter' >= 3
      <4>1. packetsIter \in Nat /\ packetsIter' \in Nat
        BY <1>1, TakenResult DEF FInv, SInv, IInv, TypeOK, Iterator
      <4> QED BY <1>1, <4>1
    <3> QED BY <1>1, <3>1, <3>2, <3>3 DEF AckTaken, Old
  <2> QED BY <2>1, <2>2, <2>3, <2>4
<1> QED BY <1>2, <1>3, <1>4, <1>5, <1>6, <1>7 DEF Follows

\* The server works.
LEMMA WorksFollow ==
  ASSUME FInv, ServerWorks
  PROVE  InvBegun' /\ (tears' = 0 => Follows')
<1>1. /\ UNCHANGED session /\ (Execute \/ SendThrows \/ ReadChunk \/ ReadChunkThrows)
      /\ UNCHANGED <<self, client, said, wire, ends, inbox, tears>>
  BY DEF ServerWorks, session
<1>2. peerOpen' = peerOpen
  BY <1>1, DispatchResult
     DEF Execute, ExecuteReturns, ExecuteThrows, ExecuteFaults, SendThrows, ReadChunk,
         ReadChunkThrows, context, FInv, SInv
<1>3. InvBegun'
  BY <1>1, <1>2 DEF FInv, InvBegun
<1>4. SUFFICES ASSUME Follows PROVE Follows'
  BY <1>1, <1>3 DEF FInv
<1>5. CASE Dispatch
  BY <1>1, <1>4, <1>5, DispatchFollows
<1>6. CASE ~Dispatch
  <2>1. /\ UNCHANGED <<m_state, data, beyond, packetsIter>>
        /\ \/ ExecuteReturns \/ ExecuteThrows \/ ExecuteFaults
           \/ SendThrows \/ ReadChunk \/ ReadChunkThrows
    BY <1>1, <1>6
       DEF Execute, ExecuteReturns, ExecuteThrows, ExecuteFaults, SendThrows, ReadChunk,
           ReadChunkThrows, buffer
  <2>2. /\ pc \in {"execute", "send", "playloop", "chunk"}
        /\ pc' \in {"receive"} \cup Ended \/ (pc = "chunk" /\ pc' = "send" /\ todo' = ChunkBatch)
        /\ todo' = todo \/ (pc = "chunk" /\ todo' = ChunkBatch)
    BY <2>1 DEF ExecuteReturns, ExecuteThrows, ExecuteFaults, SendThrows, ReadChunk,
                ReadChunkThrows, Ended
  <2>3. pc = "chunk" => m_state = "PLAY"
    BY DEF FInv, SInv, IInv, InvJoin
  <2>4. InvSpaced' /\ InvBefore'
    BY <1>1, <1>4, <2>1 DEF Follows, InvSpaced, InvBefore
  <2>5. InvHeard'
    <3>1. ASSUME pc = "chunk", todo' = ChunkBatch PROVE AllHeard(todo', m_state)
      <4>1. \A i \in 1..Len(ChunkBatch) : ChunkBatch[i] \in Message
        BY ChunkBatchLinked, ElementOfSeq
      <4> QED BY <2>3, <3>1, <4>1 DEF AllHeard, Heard
    <3> QED BY <1>1, <1>4, <2>1, <2>2, <3>1 DEF Follows, InvHeard
  <2>6. InvNew'
    BY <1>1, <1>4, <2>2 DEF Follows, InvNew, Ended
  <2>7. InvLogin'
    <3> SUFFICES ASSUME client = "login" \/ (client = "greeted" /\ self.intent = "play")
                 PROVE  HasHandshake' \/ (client = "login" /\ wire = << >>)
      BY <1>1, <1>4 DEF Follows, InvLogin
    <3>1. HasHandshake \/ (client = "login" /\ wire = << >>)
      BY <1>4, <2>2 DEF Follows, InvLogin, AwaitsHandshake
    <3>2. CASE HasHandshake
      <4>1. self.intent = "play" /\ pc = "execute"
        BY <1>4, <2>2, <3>2 DEF Follows, InvLogin, HasHandshake
      <4>2. Taken.it.st = "ok" /\ (m_state = "IDLE" => Taken.kind = "Handshake")
            /\ m_state \in {"IDLE", "LOGIN"}
        BY <3>2, <4>1, HandshakeNext DEF FInv
      <4>3. ExecuteReturns /\ m_state = "LOGIN"
        BY <2>1, <4>1, <4>2
           DEF ExecuteReturns, ExecuteThrows, ExecuteFaults, SendThrows, ReadChunk, ReadChunkThrows
      <4>4. H' = H /\ L' = L
        BY <1>1 DEF H, L
      <4>5. Filled(Len(H))'
        BY <2>1, <3>2, <4>4 DEF HasHandshake, Filled
      <4> QED BY <1>1, <2>1, <3>2, <4>3, <4>4, <4>5 DEF HasHandshake, ExecuteReturns
    <3> QED BY <3>1, <3>2
  <2>8. InvAcked'
    <3> SUFFICES ASSUME "LoginAck" \in said, "AckConfig" \notin said
                 PROVE  AckComes' \/ AckTaken'
      BY <1>1, <1>4, <2>1 DEF Follows, InvAcked
    <3>1. AckComes \/ AckCame \/ AckTaken
      BY <1>4 DEF Follows, InvAcked
    <3>2. ASSUME AckCame PROVE FALSE
      <4>1. Taken.kind = "LoginAck" /\ Taken.it.st = "ok" /\ pc = "execute"
        BY <3>2, LoginAckNext DEF FInv, AckCame
      <4> QED BY <2>1, <4>1
              DEF ExecuteReturns, ExecuteThrows, ExecuteFaults, SendThrows, ReadChunk,
                  ReadChunkThrows
    <3>3. CASE AckComes
      BY <1>1, <2>1, <3>3 DEF AckComes
    <3>4. CASE AckTaken
      <4>1. pc' \notin {"execute", "send"}
        BY <2>2, <2>3, <3>4 DEF AckTaken, Ended
      <4> QED BY <1>1, <2>1, <3>4, <4>1 DEF AckTaken, Old
    <3> QED BY <3>1, <3>2, <3>3, <3>4
  <2> QED BY <2>4, <2>5, <2>6, <2>7, <2>8 DEF Follows
<1> QED BY <1>5, <1>6

\* A message more that may be heard.
LEMMA AppendHeard ==
  ASSUME NEW s \in Seq(Message), NEW m \in Message, NEW state, AllHeard(s, state),
         m.type \in Heard(state), NEW t, t = Append(s, m)
  PROVE  AllHeard(t, state)
<1>1. /\ Len(s) \in Nat /\ Len(t) = Len(s) + 1
      /\ \A i \in 1..Len(s) : t[i] = s[i]
      /\ t[Len(s) + 1] = m
  BY AppendProperties, LenProperties
<1> DEFINE n == Len(s)
<1>2. \A i \in 1..(n + 1) : i \in 1..n \/ i = n + 1
  <2>1. n \in Nat
    BY <1>1
  <2> HIDE DEF n
  <2> QED BY <2>1
<1> QED BY <1>1, <1>2 DEF AllHeard

\* The server sends.
LEMMA SendsFollow ==
  ASSUME FInv, ServerSends
  PROVE  InvBegun' /\ (tears' = 0 => Follows')
<1>1. /\ UNCHANGED <<self, client, said, wire, ends, tears>>
      /\ UNCHANGED <<m_state, data, beyond, packetsIter, peerOpen>>
  BY DEF ServerSends, Send, PlayLoop, buffer, context
<1>2. \/ /\ pc = "send" /\ todo' = Tail(todo) /\ todo # << >>
         /\ inbox' = inbox \/ inbox' = Append(inbox, Head(todo))
      \/ /\ pc = "playloop" /\ m_state = "PLAY" /\ pc' = pc /\ todo' = todo
         /\ inbox' = inbox \/ inbox' = Append(inbox, Msg("Sync", 0))
  BY DEF ServerSends, Send, PlayLoop, FInv, SInv, IInv, InvSend, InvJoin
<1>3. InvBegun'
  BY <1>1 DEF FInv, InvBegun
<1>4. SUFFICES ASSUME Follows PROVE Follows'
  BY <1>1, <1>3 DEF FInv
<1>5. InvSpaced' /\ InvBefore'
  BY <1>1, <1>4 DEF Follows, InvSpaced, InvBefore
<1>6. InvHeard'
  <2>1. /\ todo \in Seq(Message) /\ inbox \in Seq(Message)
        /\ AllHeard(todo, m_state) /\ AllHeard(inbox, m_state)
    BY <1>4 DEF FInv, SInv, IInv, TypeOK, SessionTypeOK, Follows, InvHeard
  <2>2. CASE pc = "send"
    <3>1. todo # << >> /\ todo' = Tail(todo)
          /\ (inbox' = inbox \/ inbox' = Append(inbox, Head(todo)))
      BY <1>2, <2>2
    <3>2. AllHeard(todo', m_state) /\ Head(todo).type \in Heard(m_state)
      BY <2>1, <3>1, TailHeard
    <3>3. Head(todo) \in Message
      BY <2>1, <3>1, HeadTailProperties
    <3>4. AllHeard(inbox', m_state)
      BY <2>1, <3>1, <3>2, <3>3, AppendHeard
    <3> QED BY <1>1, <3>2, <3>4 DEF InvHeard
  <2>3. CASE pc = "playloop"
    <3>1. m_state = "PLAY" /\ todo' = todo
          /\ (inbox' = inbox \/ inbox' = Append(inbox, Msg("Sync", 0)))
      BY <1>2, <2>3
    <3>2. Msg("Sync", 0) \in Message /\ Msg("Sync", 0).type \in Heard(m_state)
      <4>1. Msg("Sync", 0) \in Message
        BY DEF Message, Single
      <4> QED BY <3>1, <4>1 DEF Heard
    <3>3. AllHeard(inbox', m_state)
      BY <2>1, <3>1, <3>2, AppendHeard
    <3> QED BY <1>1, <2>1, <3>1, <3>3 DEF InvHeard
  <2> QED BY <1>2, <2>2, <2>3
<1>7. InvNew'
  BY <1>1, <1>2, <1>4 DEF Follows, InvNew, Ended
<1>8. InvLogin'
  BY <1>1, <1>2, <1>4 DEF Follows, InvLogin, AwaitsHandshake, HasHandshake
<1>9. InvAcked'
  <2> SUFFICES ASSUME "LoginAck" \in said, "AckConfig" \notin said
               PROVE  AckComes' \/ AckTaken'
    BY <1>1, <1>4 DEF Follows, InvAcked
  <2>1. AckComes \/ AckTaken
    BY <1>2, <1>4 DEF Follows, InvAcked, AckCame
  <2>2. AckTaken => pc = "send"
    BY <1>2 DEF AckTaken
  <2>3. AckTaken => AckTaken'
    BY <1>1, <2>2 DEF AckTaken, Old
  <2> QED BY <1>1, <2>1, <2>3 DEF AckComes
<1> QED BY <1>5, <1>6, <1>7, <1>8, <1>9 DEF Follows

\* FInv holds when the session begins.
LEMMA FollowsInit == AcksUnmistakable /\ SessionInit => FInv
<1> SUFFICES ASSUME AcksUnmistakable, SessionInit PROVE FInv
  OBVIOUS
<1>1. SInv
  BY SessionTypedInit
<1>2. /\ pc = "receive" /\ m_state = "IDLE" /\ data = [i \in 1..PacketSize |-> 0]
      /\ beyond \in Beyond /\ todo = << >> /\ peerOpen = TRUE
      /\ client = "new" /\ said = {} /\ wire = << >> /\ ends = {} /\ inbox = << >>
  BY DEF SessionInit, Init
<1>3. InvBegun /\ InvSpaced /\ InvHeard /\ InvNew /\ InvLogin /\ InvAcked
  BY <1>2 DEF InvBegun, InvSpaced, InvHeard, AllHeard, InvNew, InvLogin, InvAcked
<1>4. NoAck(data) /\ NoAck(wire) /\ NoAck(beyond)
  <2>1. \A i \in 1..PacketSize : data[i] % 128 # 3
    BY <1>2
  <2>2. Len(data) = PacketSize
    BY <1>1, PacketSizeAssumption DEF SInv, IInv, TypeOK
  <2>3. NoAck(data)
    BY <2>1, <2>2 DEF NoAck
  <2>4. NoAck(wire)
    <3>1. Len(wire) = 0
      BY <1>2, EmptySeq
    <3> QED BY <3>1 DEF NoAck
  <2>5. NoAck(beyond)
    BY <1>2 DEF AcksUnmistakable
  <2> QED BY <2>3, <2>4, <2>5
<1>5. InvBefore
  BY <1>2, <1>4 DEF InvBefore
<1> QED BY <1>1, <1>3, <1>5 DEF FInv, Follows

\* Every step of the session preserves it.
LEMMA FollowsStep == AcksUnmistakable /\ FInv /\ [SessionNext]_allVars => FInv'
<1> SUFFICES ASSUME AcksUnmistakable, FInv, [SessionNext]_allVars PROVE FInv'
  OBVIOUS
<1>1. SInv'
  BY SessionTypedStep DEF FInv
<1>2. CASE UNCHANGED allVars
  <2>1. UNCHANGED <<pc, m_state, data, beyond, packetsIter, todo, peerOpen>>
        /\ UNCHANGED <<self, client, said, wire, ends, inbox, tears>>
    BY <1>2 DEF allVars, vars, session, buffer, context
  <2>2. H' = H /\ L' = L
    BY <2>1 DEF H, L
  <2>3. InvBegun' /\ (Follows => InvSpaced' /\ InvHeard' /\ InvNew' /\ InvBefore')
    BY <2>1 DEF FInv, Follows, InvBegun, InvSpaced, InvHeard, InvNew, InvBefore
  <2>4. InvLogin => InvLogin'
    BY <2>1, <2>2 DEF InvLogin, AwaitsHandshake, HasHandshake, Filled
  <2>5. InvAcked => InvAcked'
    BY <2>1 DEF InvAcked, AckComes, AckCame, AckTaken, Old
  <2> QED BY <1>1, <2>1, <2>3, <2>4, <2>5 DEF FInv, Follows
<1>3. CASE SessionNext
  <2>1. InvBegun' /\ (tears' = 0 => Follows')
    BY <1>1, <1>3, StartsFollow, HandlesFollow, ClosesFollow, ReceivesFollow, SeesCloseFollow,
       WorksFollow, SendsFollow DEF SessionNext
  <2> QED BY <1>1, <2>1 DEF FInv
<1> QED BY <1>2, <1>3

\* Until a packet is cut in two the server follows the client: it leaves IDLE only
\* after a handshake, enters CONFIG only after a login acknowledgement and PLAY only
\* after a configuration acknowledgement, however packets are joined, for every
\* client whose other bytes cannot be read as an acknowledgement.
THEOREM FollowsClient ==
  ASSUME AcksUnmistakable
  PROVE  SessionSpec => []ServerFollowsClient
<1>1. SessionInit => FInv
  BY FollowsInit
<1>2. FInv /\ [SessionNext]_allVars => FInv'
  BY FollowsStep
<1>3. FInv => ServerFollowsClient
  <2> SUFFICES ASSUME FInv, tears = 0
               PROVE  /\ m_state # "IDLE"   => "Handshake" \in said
                      /\ m_state = "CONFIG" => "LoginAck" \in said
                      /\ PlayAfterAck
    BY DEF ServerFollowsClient
  <2> QED BY DEF FInv, Follows, InvNew, InvBefore, InvAcked, AckComes, AckCame, AckTaken,
                 PlayAfterAck
<1> QED BY <1>1, <1>2, <1>3, PTL DEF SessionSpec

-----------------------------------------------------------------------------
(* A session with a client: the client understands the server.             *)

Bytes(kind) == PacketBytes(self, kind)

\* What was received is used up, but for less than a packet.
Spent == pc \in {"execute", "send"} => packetsIter >= recv

\* A packet of this kind is in the buffer, from p on.
Sits(kind, p) ==
  /\ p + Len(Bytes(kind)) <= PacketSize + 1
  /\ \A i \in 1..Len(Bytes(kind)) : data[p + i - 1] = Bytes(kind)[i]

\* What the server has still to read: nothing; one packet, on the wire or where
\* Execute is; or a handshake and the packet behind it.  Or nobody reads any more.
Quiet == pc \in Ended \/ (wire = << >> /\ Spent)
Coming(kind) == wire = Bytes(kind) /\ ends = {Len(Bytes(kind))}
Pending(kind) ==
  \/ pc \in Ended
  \/ Coming(kind) /\ Spent
  \/ /\ wire = << >> /\ pc = "execute" /\ Sits(kind, packetsIter)
     /\ recv + 1 = packetsIter + Len(Bytes(kind))
     /\ kind = "Handshake" => packetsIter = 1
Second(kind) ==
  \/ pc \in Ended
  \/ wire = H \o Bytes(kind) /\ ends = {Len(H), Len(H) + Len(Bytes(kind))} /\ Spent
  \/ /\ pc = "execute" /\ packetsIter = 1 /\ Sits("Handshake", 1)
     /\ \/ Coming(kind) /\ recv = Len(H)
        \/ wire = << >> /\ Sits(kind, Len(H) + 1) /\ recv = Len(H) + Len(Bytes(kind))

\* What the client has still to be told: nothing; one message; registries and the
\* end of the configuration; or what a client is shown when it joins and then its
\* position again and again.
Silence == inbox = << >> /\ todo = << >>
One(s, type) == Len(s) = 1 /\ s[1].type = type
Told(type) == (inbox = << >> /\ One(todo, type)) \/ (One(inbox, type) /\ todo = << >>)

Only(s, types) == \A i \in 1..Len(s) : s[i].type \in types
Ordered(s) ==
  /\ Only(s, {"Registry", "Finish"})
  /\ \A i \in 1..Len(s) : s[i].type = "Finish" => i = Len(s)
Configures == Ordered(inbox) /\ Ordered(todo) /\ (todo # << >> => Only(inbox, {"Registry"}))

Shown == {"LoginPlay", "GameEvent", "ChunkCenter", "Chunk"}
SyncsLast(s) == \A i, j \in 1..Len(s) : i <= j /\ s[i].type = "Sync" => s[j].type = "Sync"
Joining ==
  /\ Only(todo, Shown)
  /\ pc # "playloop" => client = "play" /\ Only(inbox, Shown)
  /\ pc = "playloop" =>
       /\ todo = << >> /\ Only(inbox, Shown \cup {"Sync"}) /\ SyncsLast(inbox)
       /\ client = "joined" => Only(inbox, {"Sync"})

\* The state the client's handshake asks for.
Asked == IF self.intent = "ping" THEN "STATUS" ELSE "LOGIN"

\* Where the client and the server are: the client has just said something, it is
\* being answered, or it is its turn.
Says(state, serverState, kind) ==
  client = state /\ m_state = serverState /\ Pending(kind) /\ Silence
IsTold(state, serverState, type) ==
  client = state /\ m_state = serverState /\ Quiet /\ Told(type)
Rests(state, serverState) ==
  client = state /\ m_state = serverState /\ Quiet /\ Silence

Greets ==
  \/ client = "new" /\ pc = "receive" /\ m_state = "IDLE" /\ wire = << >> /\ Silence
  \/ Says("greeted", "IDLE", "Handshake")
AsksFor(state, serverState, kind, answer) ==
  \/ Rests("greeted", serverState)
  \/ client = state /\ m_state = "IDLE" /\ Second(kind) /\ Silence
  \/ Says(state, serverState, kind)
  \/ IsTold(state, serverState, answer)
Asks ==
  IF self.intent = "ping" THEN AsksFor("asking", "STATUS", "StatusRequest", "Status")
  ELSE AsksFor("login", "LOGIN", "LoginStart", "LoginSuccess")
Pings ==
  \/ Says("pinging", "STATUS", "Ping")
  \/ IsTold("pinging", "STATUS", "Pong")
  \/ Rests("pinged", "STATUS")
Configured ==
  \/ Says("config", "LOGIN", "LoginAck")
  \/ IsTold("config", "CONFIG", "KnownPacks")
  \/ Says("config", "CONFIG", "KnownPacks")
  \/ client = "config" /\ m_state = "CONFIG" /\ Quiet /\ Configures
  \/ Says("play", "CONFIG", "AckConfig")
Plays == client \in {"play", "joined"} /\ m_state = "PLAY" /\ Joining

\* The inductive invariant, for a session in which no packet was torn.
Stage == Greets \/ Asks \/ Pings \/ Configured \/ Plays
UInv ==
  /\ SInv
  /\ peerOpen <=> client # "left"
  /\ tears = 0 /\ peerOpen => Stage

-----------------------------------------------------------------------------
(* What Execute makes of a client's packets.                               *)

\* Once a size and an id are read, the packet is the one the id names, if its
\* constructor succeeds.
LEMMA HeaderTaken ==
  ASSUME NEW mem \in Seq(Byte), NEW p \in Nat \ {0}, p + 1 <= Len(mem),
         mem[p] < 128, mem[p] # 0, mem[p + 1] < 128, NEW state,
         NEW next, next = NextPacket(state, mem, At(p)),
         NEW named, named = KindOf(state, mem[p + 1])
  PROVE  \E id \in Iterator :
           /\ id.st = "ok" /\ id.pos = p + 2
           /\ next = [kind |-> IF Construct(named, mem, id).st = "ok" THEN named ELSE "null",
                      it |-> Construct(named, mem, id)]
<1> DEFINE it == At(p)
           size == readVarInt(mem)[it]
           id == readVarInt(mem)[size]
<1>1. it \in Iterator /\ it.st = "ok" /\ it.pos = p
  BY DEF At, Iterator, Outcome
<1>2. Len(mem) \in Nat /\ p <= Len(mem)
  <2>1. Len(mem) \in Nat
    BY LenProperties
  <2> QED BY <2>1
<1>3. next = NextPacket(state, mem, it)
  OBVIOUS
<1>4. size = readVarInt(mem)[it] /\ id = readVarInt(mem)[size]
  OBVIOUS
<1> HIDE DEF it, size, id
<1>5. size \in Iterator /\ size.st = "ok" /\ size.pos = p + 1 /\ size.val = mem[p]
  <2>1. /\ size = readVarInt(mem)[it] /\ it \in Iterator /\ it.st = "ok"
        /\ it.pos <= Len(mem) /\ mem[it.pos] < 128
    BY <1>1, <1>2, <1>4
  <2>2. size \in Iterator /\ size.st = "ok" /\ size.pos = it.pos + 1 /\ size.val = mem[it.pos]
    BY <2>1, ByteRead
  <2> QED BY <1>1, <2>2
<1>6. id \in Iterator /\ id.st = "ok" /\ id.pos = p + 2 /\ id.val = mem[p + 1]
  <2>1. /\ id = readVarInt(mem)[size] /\ size \in Iterator /\ size.st = "ok"
        /\ size.pos <= Len(mem) /\ mem[size.pos] < 128
    BY <1>4, <1>5
  <2>2. id \in Iterator /\ id.st = "ok" /\ id.pos = size.pos + 1 /\ id.val = mem[size.pos]
    BY <2>1, ByteRead
  <2>3. (p + 1) + 1 = p + 2
    OBVIOUS
  <2> QED BY <1>5, <2>2, <2>3
<1>7. ~NoPacket(size)
  BY <1>5 DEF NoPacket
<1> DEFINE kind == KindOf(state, id.val)
           done == Construct(kind, mem, id)
<1>8. next = IF NoPacket(size) THEN [kind |-> "null", it |-> size]
             ELSE IF id.st # "ok" THEN [kind |-> "null", it |-> id]
             ELSE IF done.st # "ok" THEN [kind |-> "null", it |-> done]
             ELSE [kind |-> kind, it |-> done]
  BY <1>3, <1>4 DEF NextPacket
<1>9. next = [kind |-> IF done.st = "ok" THEN kind ELSE "null", it |-> done]
  <2> HIDE DEF kind, done
  <2> QED BY <1>6, <1>7, <1>8
<1>10. kind = named
  BY <1>6
<1> QED BY <1>6, <1>9, <1>10

\* A string that was read lies behind its size.
LEMMA StringPasses ==
  ASSUME NEW mem \in Seq(Byte), NEW it \in Iterator, it.st = "ok", NEW n \in Nat, n < 128,
         it.pos <= Len(mem), mem[it.pos] = n, NEW next, next = readString(mem)[it]
  PROVE  next \in Iterator /\ (next.st = "ok" => next.pos = (it.pos + 1) + n)
<1> DEFINE size == readVarInt(mem)[it]
<1>1. size \in Iterator /\ size.st = "ok" /\ size.pos = it.pos + 1 /\ size.val = n
  <2>1. size = readVarInt(mem)[it] /\ mem[it.pos] < 128
    OBVIOUS
  <2> HIDE DEF size
  <2>2. size \in Iterator /\ size.st = "ok" /\ size.pos = it.pos + 1 /\ size.val = mem[it.pos]
    BY <2>1, ByteRead
  <2> QED BY <2>2
<1>2. next = IF size.st = "ok" /\ size.val < 0 THEN Failed(size, "throw")
             ELSE readBytes(mem, size.val, size.val)[size]
  BY DEF readString
<1> HIDE DEF size
<1>3. next = readBytes(mem, n, n)[size]
  BY <1>1, <1>2
<1>4. next \in {size, Failed(size, "fault"), At(size.pos + n)}
      /\ (next = size => size.st # "ok" \/ next = At(size.pos + n))
  BY <1>1, <1>3 DEF readBytes, Failed, At
<1>5. next.st = "ok" => next = At(size.pos + n)
  BY <1>1, <1>4 DEF Failed
<1>6. next \in Iterator
  BY readStringType
<1> QED BY <1>1, <1>5, <1>6 DEF At

\* So does a blob, as far as the iterator was advanced.
LEMMA BlobPasses ==
  ASSUME NEW mem \in Seq(Byte), NEW it \in Iterator, NEW n \in Int, NEW k \in Nat,
         NEW next, next = readBytes(mem, n, k)[it]
  PROVE  next \in Iterator /\ (next.st = "ok" => it.st = "ok" /\ next.pos = it.pos + k)
<1>1. next \in {it, Failed(it, "fault"), At(it.pos + k)}
  BY DEF readBytes
<1>2. next.st = "ok" => it.st = "ok" /\ next = At(it.pos + k)
  BY DEF readBytes, Failed
<1>3. next \in Iterator
  BY readBytesType
<1> QED BY <1>2, <1>3 DEF At

\* Where the bytes of a body are in its packet.
LEMMA FrameIs ==
  ASSUME NEW body \in Seq(Nat), NEW P, P = Frame(body)
  PROVE  /\ Len(body) \in Nat /\ Len(P) = 1 + Len(body) /\ P[1] = Len(body)
         /\ \A i \in 1..Len(body) : P[1 + i] = body[i]
<1>1. P = <<Len(body)>> \o body
  BY DEF Frame
<1> QED BY <1>1, LengthInFront

\* Packets without fields.
LEMMA ShortIs ==
  ASSUME NEW c
  PROVE  /\ PacketBytes(c, "StatusRequest") = <<1, 0>>
         /\ PacketBytes(c, "LoginAck") = <<1, 3>>
         /\ PacketBytes(c, "AckConfig") = <<1, 3>>
<1>1. /\ PacketBytes(c, "StatusRequest") = <<1>> \o <<0>>
      /\ PacketBytes(c, "LoginAck") = <<1>> \o <<3>>
      /\ PacketBytes(c, "AckConfig") = <<1>> \o <<3>>
  BY DEF PacketBytes, Frame
<1> QED BY <1>1

\* A ping is an id and its payload.
LEMMA PingIs ==
  ASSUME NEW c \in Clients, NEW P, P = PacketBytes(c, "Ping")
  PROVE  Len(P) = PayloadSize + 2 /\ P[1] = Len(P) - 1 /\ P[2] = 1
<1> DEFINE f == <<1>>
           l == c.payload
           body == f \o l
<1>1. l \in Seq(Byte) /\ Len(l) = PayloadSize
  BY ClientsAssumption DEF ClientRecord
<1>2. l \in Seq(Nat) /\ f \in Seq(Nat) /\ Len(f) = 1 /\ f[1] = 1 /\ body = f \o l
  BY <1>1, BytesAreNumbers
<1>3. P = Frame(body)
  BY DEF PacketBytes
<1> HIDE DEF f, l, body
<1>4. /\ body \in Seq(Nat) /\ Len(body) = Len(f) + Len(l)
      /\ \A i \in 1..Len(f) : body[i] = f[i]
  <2>1. f \in Seq(Nat) /\ l \in Seq(Nat) /\ body = f \o l
    BY <1>2
  <2> QED BY <2>1, NumberConcat
<1>5. /\ Len(body) \in Nat /\ Len(P) = 1 + Len(body) /\ P[1] = Len(body)
      /\ \A i \in 1..Len(body) : P[1 + i] = body[i]
  BY <1>3, <1>4, FrameIs
<1>6. Len(body) = PayloadSize + 1 /\ Len(P) = PayloadSize + 2 /\ P[1] = Len(P) - 1
  BY <1>1, <1>2, <1>4, <1>5, PayloadSizeAssumption
<1>7. P[2] = 1
  <2>1. 1 \in 1..Len(f) /\ 1 \in 1..Len(body) /\ 1 + 1 = 2
    BY <1>2, <1>6, PayloadSizeAssumption
  <2> QED BY <1>2, <1>4, <1>5, <2>1
<1> QED BY <1>6, <1>7

\* A login start is an id, a name and a uuid.
LEMMA LoginStartIs ==
  ASSUME NEW c \in Clients, NEW P, P = PacketBytes(c, "LoginStart")
  PROVE  /\ Len(c.name) \in Nat /\ Len(P) = Len(c.name) + UuidSize + 3
         /\ P[1] = Len(P) - 1 /\ P[2] = 0 /\ P[3] = Len(c.name)
<1> DEFINE z == <<0>>
           s == Str(c.name)
           n == Len(c.name)
           b1 == z \o s
           body == b1 \o c.uuid
<1>1. c.name \in Seq(Byte) /\ c.uuid \in Seq(Byte) /\ Len(c.uuid) = UuidSize
  BY ClientsAssumption DEF ClientRecord
<1>2. /\ c.name \in Seq(Nat) /\ c.uuid \in Seq(Nat) /\ n \in Nat
      /\ z \in Seq(Nat) /\ Len(z) = 1 /\ z[1] = 0
      /\ b1 = z \o s /\ body = b1 \o c.uuid
  BY <1>1, BytesAreNumbers
<1>3. P = Frame(body) /\ s = <<Len(c.name)>> \o c.name
  BY DEF PacketBytes, Str
<1>4. s \in Seq(Nat) /\ Len(s) = 1 + n /\ s[1] = n
  BY <1>2, <1>3, LengthInFront
<1> HIDE DEF z, s, b1, body
<1>5. /\ b1 \in Seq(Nat) /\ Len(b1) = Len(z) + Len(s)
      /\ \A i \in 1..Len(z) : b1[i] = z[i]
      /\ \A i \in 1..Len(s) : b1[Len(z) + i] = s[i]
  <2>1. z \in Seq(Nat) /\ s \in Seq(Nat) /\ b1 = z \o s
    BY <1>2, <1>4
  <2> QED BY <2>1, NumberConcat
<1>6. /\ body \in Seq(Nat) /\ Len(body) = Len(b1) + Len(c.uuid)
      /\ \A i \in 1..Len(b1) : body[i] = b1[i]
  <2>1. b1 \in Seq(Nat) /\ c.uuid \in Seq(Nat) /\ body = b1 \o c.uuid
    BY <1>2, <1>5
  <2> QED BY <2>1, NumberConcat
<1>7. /\ Len(body) \in Nat /\ Len(P) = 1 + Len(body) /\ P[1] = Len(body)
      /\ \A i \in 1..Len(body) : P[1 + i] = body[i]
  BY <1>3, <1>6, FrameIs
<1> HIDE DEF n
<1>8. Len(b1) = n + 2 /\ Len(body) = n + UuidSize + 2 /\ Len(P) = n + UuidSize + 3
      /\ P[1] = Len(P) - 1
  <2>1. /\ Len(z) = 1 /\ Len(s) = 1 + n /\ Len(b1) = Len(z) + Len(s) /\ Len(c.uuid) = UuidSize
        /\ Len(body) = Len(b1) + Len(c.uuid) /\ Len(P) = 1 + Len(body) /\ P[1] = Len(body)
        /\ n \in Nat /\ UuidSize \in Nat
    BY <1>1, <1>2, <1>4, <1>5, <1>6, <1>7, UuidSizeAssumption
  <2>2. Len(b1) = n + 2
    BY <2>1
  <2>3. Len(body) = n + UuidSize + 2
    BY <2>1, <2>2
  <2>4. Len(P) = n + UuidSize + 3 /\ P[1] = n + UuidSize + 2
    BY <2>1, <2>3
  <2>5. P[1] = Len(P) - 1
    <3>1. (n + UuidSize + 3) - 1 = n + UuidSize + 2
      BY <2>1
    <3> QED BY <2>4, <3>1
  <2> QED BY <2>2, <2>3, <2>4, <2>5
<1>9. P[2] = 0 /\ P[3] = n
  <2>1. /\ 1 \in 1..Len(z) /\ 1 \in 1..Len(s) /\ Len(z) + 1 = 2 /\ 1 + 1 = 2 /\ 1 + 2 = 3
        /\ 1 \in 1..Len(b1) /\ 2 \in 1..Len(b1) /\ 1 \in 1..Len(body) /\ 2 \in 1..Len(body)
    BY <1>2, <1>4, <1>8, UuidSizeAssumption
  <2>2. P[1 + 1] = body[1] /\ P[1 + 2] = body[2] /\ body[1] = b1[1] /\ body[2] = b1[2]
    BY <1>6, <1>7, <2>1
  <2>3. b1[1] = 0 /\ b1[Len(z) + 1] = n
    BY <1>2, <1>4, <1>5, <2>1
  <2> QED BY <2>1, <2>2, <2>3
<1> QED BY <1>2, <1>8, <1>9 DEF n

\* A string of one byte repeated.
LEMMA StrIs ==
  ASSUME NEW n \in Nat, NEW x \in Nat, NEW s, s = Str([i \in 1..n |-> x])
  PROVE  s \in Seq(Nat) /\ Len(s) = 1 + n /\ s[1] = n
<1> DEFINE l == [i \in 1..n |-> x]
<1>1. l \in Seq(Nat) /\ Len(l) = n
  OBVIOUS
<1>2. s = <<Len(l)>> \o l
  BY DEF Str
<1> HIDE DEF l
<1>3. s \in Seq(Nat) /\ Len(s) = 1 + Len(l) /\ s[1] = Len(l)
  BY <1>1, <1>2, LengthInFront
<1> QED BY <1>1, <1>3

\* The known packs are an id, a count and three strings.
LEMMA KnownPacksIs ==
  ASSUME NEW c, NEW P, P = PacketBytes(c, "KnownPacks")
  PROVE  /\ Len(P) = 25 /\ P[1] = 24 /\ P[2] = 7 /\ P[3] = 1
         /\ P[4] = 9 /\ P[14] = 4 /\ P[19] = 6
<1> DEFINE f == <<7, 1>>
           s9 == Str([i \in 1..9 |-> 97])
           s4 == Str([i \in 1..4 |-> 97])
           s6 == Str([i \in 1..6 |-> 49])
           b1 == f \o s9
           b2 == b1 \o s4
           body == b2 \o s6
<1>1. f \in Seq(Nat) /\ Len(f) = 2 /\ f[1] = 7 /\ f[2] = 1
  OBVIOUS
<1>2. s9 \in Seq(Nat) /\ Len(s9) = 1 + 9 /\ s9[1] = 9
  <2> DEFINE n == 9  x == 97
  <2>1. n \in Nat /\ x \in Nat /\ s9 = Str([i \in 1..n |-> x])
    OBVIOUS
  <2> HIDE DEF n, x, s9
  <2>2. s9 \in Seq(Nat) /\ Len(s9) = 1 + n /\ s9[1] = n
    BY <2>1, StrIs
  <2> QED BY <2>2 DEF n
<1>3. s4 \in Seq(Nat) /\ Len(s4) = 1 + 4 /\ s4[1] = 4
  <2> DEFINE n == 4  x == 97
  <2>1. n \in Nat /\ x \in Nat /\ s4 = Str([i \in 1..n |-> x])
    OBVIOUS
  <2> HIDE DEF n, x, s4
  <2>2. s4 \in Seq(Nat) /\ Len(s4) = 1 + n /\ s4[1] = n
    BY <2>1, StrIs
  <2> QED BY <2>2 DEF n
<1>4. s6 \in Seq(Nat) /\ Len(s6) = 1 + 6 /\ s6[1] = 6
  <2> DEFINE n == 6  x == 49
  <2>1. n \in Nat /\ x \in Nat /\ s6 = Str([i \in 1..n |-> x])
    OBVIOUS
  <2> HIDE DEF n, x, s6
  <2>2. s6 \in Seq(Nat) /\ Len(s6) = 1 + n /\ s6[1] = n
    BY <2>1, StrIs
  <2> QED BY <2>2 DEF n
<1>5. P = Frame(body)
  BY DEF PacketBytes
<1>6. b1 = f \o s9 /\ b2 = b1 \o s4 /\ body = b2 \o s6
  OBVIOUS
<1> HIDE DEF f, s9, s4, s6, b1, b2, body
<1>7. /\ b1 \in Seq(Nat) /\ Len(b1) = 12
      /\ \A i \in 1..2 : b1[i] = f[i]
      /\ \A i \in 1..10 : b1[2 + i] = s9[i]
  <2>1. /\ b1 \in Seq(Nat) /\ Len(b1) = Len(f) + Len(s9)
        /\ \A i \in 1..Len(f) : b1[i] = f[i]
        /\ \A i \in 1..Len(s9) : b1[Len(f) + i] = s9[i]
    <3>1. f \in Seq(Nat) /\ s9 \in Seq(Nat) /\ b1 = f \o s9
      BY <1>1, <1>2, <1>6
    <3> QED BY <3>1, NumberConcat
  <2>2. Len(f) = 2 /\ Len(s9) = 10
    BY <1>1, <1>2
  <2> QED BY <2>1, <2>2
<1>8. /\ b2 \in Seq(Nat) /\ Len(b2) = 17
      /\ \A i \in 1..12 : b2[i] = b1[i]
      /\ \A i \in 1..5 : b2[12 + i] = s4[i]
  <2>1. /\ b2 \in Seq(Nat) /\ Len(b2) = Len(b1) + Len(s4)
        /\ \A i \in 1..Len(b1) : b2[i] = b1[i]
        /\ \A i \in 1..Len(s4) : b2[Len(b1) + i] = s4[i]
    <3>1. b1 \in Seq(Nat) /\ s4 \in Seq(Nat) /\ b2 = b1 \o s4
      BY <1>3, <1>6, <1>7
    <3> QED BY <3>1, NumberConcat
  <2>2. Len(b1) = 12 /\ Len(s4) = 5
    BY <1>3, <1>7
  <2> QED BY <2>1, <2>2
<1>9. /\ body \in Seq(Nat) /\ Len(body) = 24
      /\ \A i \in 1..17 : body[i] = b2[i]
      /\ \A i \in 1..7 : body[17 + i] = s6[i]
  <2>1. /\ body \in Seq(Nat) /\ Len(body) = Len(b2) + Len(s6)
        /\ \A i \in 1..Len(b2) : body[i] = b2[i]
        /\ \A i \in 1..Len(s6) : body[Len(b2) + i] = s6[i]
    <3>1. b2 \in Seq(Nat) /\ s6 \in Seq(Nat) /\ body = b2 \o s6
      BY <1>4, <1>6, <1>8
    <3> QED BY <3>1, NumberConcat
  <2>2. Len(b2) = 17 /\ Len(s6) = 7
    BY <1>4, <1>8
  <2> QED BY <2>1, <2>2
<1>10. /\ Len(P) = 25 /\ P[1] = 24 /\ \A i \in 1..24 : P[1 + i] = body[i]
  <2>1. /\ Len(P) = 1 + Len(body) /\ P[1] = Len(body)
        /\ \A i \in 1..Len(body) : P[1 + i] = body[i]
    <3>1. P = Frame(body) /\ body \in Seq(Nat)
      BY <1>5, <1>9
    <3> QED BY <3>1, FrameIs
  <2> QED BY <1>9, <2>1
<1>11. /\ P[1 + 1] = body[1] /\ P[1 + 2] = body[2] /\ P[1 + 3] = body[3]
       /\ P[1 + 13] = body[13] /\ P[1 + 18] = body[17 + 1]
  BY <1>10
<1>12. /\ body[1] = b2[1] /\ body[2] = b2[2] /\ body[3] = b2[3]
       /\ body[13] = b2[12 + 1] /\ body[17 + 1] = s6[1]
  BY <1>9
<1>13. b2[1] = b1[1] /\ b2[2] = b1[2] /\ b2[3] = b1[2 + 1] /\ b2[12 + 1] = s4[1]
  BY <1>8
<1>14. b1[1] = f[1] /\ b1[2] = f[2] /\ b1[2 + 1] = s9[1]
  BY <1>7
<1> QED BY <1>1, <1>2, <1>3, <1>4, <1>10, <1>11, <1>12, <1>13, <1>14

\* The state in which the server knows a kind of packet.
ReadIn(kind) ==
  CASE kind = "Handshake" -> "IDLE"
    [] kind \in {"StatusRequest", "Ping"} -> "STATUS"
    [] kind \in {"LoginStart", "LoginAck"} -> "LOGIN"
    [] OTHER -> "CONFIG"

\* A packet of a client's is in memory, from p on.
Lies(P, mem, p) ==
  p + Len(P) <= Len(mem) + 1 /\ \A i \in 1..Len(P) : mem[p + i - 1] = P[i]

\* The front of a packet names it: what is left to its constructor are the fields.
LEMMA FieldsTaken ==
  ASSUME NEW mem \in Seq(Byte), NEW p \in Nat \ {0}, NEW P \in Seq(Byte),
         Len(P) \in Nat, Len(P) >= 2, Len(P) <= 128, P[1] = Len(P) - 1, P[2] < 128, Lies(P, mem, p),
         NEW state, NEW kind, KindOf(state, P[2]) = kind,
         NEW next, next = NextPacket(state, mem, At(p))
  PROVE  \E id \in Iterator :
           /\ id.st = "ok" /\ id.pos = p + 2
           /\ next = [kind |-> IF Construct(kind, mem, id).st = "ok" THEN kind ELSE "null",
                      it |-> Construct(kind, mem, id)]
<1> DEFINE n == Len(P)
           total == Len(mem)
<1>1. n \in 2..128 /\ total \in Nat /\ p + n <= total + 1
  <2>1. total \in Nat /\ p + n <= total + 1 /\ n \in Nat /\ n >= 2 /\ n <= 128
    BY LenProperties DEF Lies
  <2> HIDE DEF n, total
  <2> QED BY <2>1
<1>2. mem[p] = P[1] /\ mem[p + 1] = P[2]
  <2>1. 1 \in 1..n /\ 2 \in 1..n /\ p + 1 - 1 = p /\ p + 2 - 1 = p + 1
    <3> HIDE DEF n
    <3> QED BY <1>1
  <2> QED BY <2>1 DEF Lies
<1>3. mem[p] < 128 /\ mem[p] # 0
  <2>1. mem[p] = n - 1
    BY <1>2
  <2> HIDE DEF n
  <2>2. n - 1 < 128 /\ n - 1 # 0
    BY <1>1
  <2> QED BY <2>1, <2>2
<1>4. p + 1 <= total
  <2> HIDE DEF n, total
  <2> QED BY <1>1
<1>5. mem[p + 1] < 128 /\ KindOf(state, mem[p + 1]) = kind
  BY <1>2
<1>6. p + 1 <= Len(mem)
  BY <1>4
<1> HIDE DEF n, total
<1> DEFINE named == KindOf(state, mem[p + 1])
<1>7. \E id \in Iterator :
        /\ id.st = "ok" /\ id.pos = p + 2
        /\ next = [kind |-> IF Construct(named, mem, id).st = "ok" THEN named ELSE "null",
                   it |-> Construct(named, mem, id)]
  <2>1. /\ mem \in Seq(Byte) /\ p \in Nat \ {0} /\ p + 1 <= Len(mem) /\ mem[p] < 128 /\ mem[p] # 0
        /\ mem[p + 1] < 128 /\ next = NextPacket(state, mem, At(p))
        /\ named = KindOf(state, mem[p + 1])
    BY <1>3, <1>5, <1>6
  <2> HIDE DEF named
  <2> QED BY <2>1, HeaderTaken
<1> QED BY <1>5, <1>7

\* Execute takes a packet that lies in memory, to its end or, of a ping, to its last
\* byte, unless a field cannot be read.
LEMMA PacketTaken ==
  ASSUME NEW c \in Clients, NEW kind \in Kinds \ {"Handshake"}, NEW mem \in Seq(Byte),
         NEW p \in Nat \ {0}, NEW P, P = PacketBytes(c, kind), Lies(P, mem, p),
         NEW next, next = NextPacket(ReadIn(kind), mem, At(p))
  PROVE  \/ next.kind = kind /\ next.it.st = "ok" /\ next.it.pos + 1 >= p + Len(P)
         \/ next.kind = "null" /\ next.it.st # "ok"
<1> DEFINE state == ReadIn(kind)
           total == Len(mem)
<1>1. P \in Seq(Byte) /\ Len(P) \in Nat /\ Len(P) >= 2 /\ Len(P) <= 128
  BY PacketIs
<1>2. total \in Nat /\ p + Len(P) <= total + 1 /\ \A i \in 1..Len(P) : mem[p + i - 1] = P[i]
  BY LenProperties DEF Lies
<1>3. SUFFICES
        /\ P[1] = Len(P) - 1 /\ P[2] < 128 /\ KindOf(state, P[2]) = kind
        /\ \A id \in Iterator : id.st = "ok" /\ id.pos = p + 2 =>
             LET done == Construct(kind, mem, id)
             IN  done.st = "ok" => done.pos + 1 >= p + Len(P)
  <2>1. P \in Seq(Byte) /\ Len(P) \in Nat /\ Len(P) >= 2 /\ Len(P) <= 128 /\ Lies(P, mem, p)
    BY <1>1
  <2>2. P[1] = Len(P) - 1 /\ P[2] < 128 /\ KindOf(state, P[2]) = kind
    BY <1>3
  <2>3. next = NextPacket(state, mem, At(p))
    OBVIOUS
  <2> HIDE DEF state
  <2>4. PICK id \in Iterator :
           /\ id.st = "ok" /\ id.pos = p + 2
           /\ next = [kind |-> IF Construct(kind, mem, id).st = "ok" THEN kind ELSE "null",
                      it |-> Construct(kind, mem, id)]
    BY <2>1, <2>2, <2>3, FieldsTaken
  <2>5. Construct(kind, mem, id).st = "ok" => Construct(kind, mem, id).pos + 1 >= p + Len(P)
    BY <1>3, <2>4
  <2> QED BY <2>4, <2>5
<1>4. CASE kind \in {"StatusRequest", "LoginAck", "AckConfig"}
  <2>1. \/ kind = "StatusRequest" /\ P = <<1, 0>>
        \/ kind \in {"LoginAck", "AckConfig"} /\ P = <<1, 3>>
    BY <1>4, ShortIs
  <2>2. KindOf(state, P[2]) = kind
    <3>1. \/ kind = "StatusRequest" /\ P[2] = 0
          \/ kind \in {"LoginAck", "AckConfig"} /\ P[2] = 3
      BY <2>1
    <3> QED BY <3>1 DEF KindOf, ReadIn
  <2>3. Len(P) = 2 /\ P[1] = 1 /\ P[2] < 128
    BY <2>1
  <2>4. \A id \in Iterator : Construct(kind, mem, id) = id
    BY <1>4 DEF Construct
  <2> QED BY <2>2, <2>3, <2>4
<1>5. CASE kind = "Ping"
  <2>1. Len(P) = PayloadSize + 2 /\ P[1] = Len(P) - 1 /\ P[2] = 1
    BY <1>5, PingIs
  <2>2. KindOf(state, P[2]) = kind
    BY <1>5, <2>1 DEF KindOf, ReadIn
  <2>3. ASSUME NEW id \in Iterator, id.pos = p + 2, NEW done, done = Construct(kind, mem, id),
               done.st = "ok"
        PROVE  done.pos + 1 >= p + Len(P)
    <3>1. done = readBytes(mem, PayloadSize, PayloadSize - 1)[id]
      BY <1>5, <2>3 DEF Construct, PingRequest
    <3>2. PayloadSize \in Int /\ PayloadSize - 1 \in Nat
      BY PayloadSizeAssumption
    <3>3. done.pos = id.pos + (PayloadSize - 1)
      <4>1. done.st = "ok"
        BY <2>3
      <4> QED BY <3>1, <3>2, <4>1, BlobPasses
    <3>4. done.pos + 1 = p + Len(P)
      BY <2>1, <2>3, <3>2, <3>3
    <3> QED BY <1>1, <3>4
  <2> QED BY <2>1, <2>2, <2>3
<1>6. CASE kind = "LoginStart"
  <2> DEFINE n == Len(c.name)
  <2>1. /\ n \in Nat /\ Len(P) = n + UuidSize + 3
        /\ P[1] = Len(P) - 1 /\ P[2] = 0 /\ P[3] = n
    BY <1>6, LoginStartIs
  <2> HIDE DEF n
  <2>2. KindOf(state, P[2]) = kind
    BY <1>6, <2>1 DEF KindOf, ReadIn
  <2>3. n < 128 /\ 3 <= Len(P) /\ p + 2 <= total /\ 3 \in 1..Len(P) /\ p + 3 - 1 = p + 2
    <3>1. UuidSize \in Nat
      BY UuidSizeAssumption
    <3>2. n < 128 /\ 3 <= Len(P)
      BY <1>1, <2>1, <3>1
    <3> HIDE DEF total
    <3> QED BY <1>1, <1>2, <3>2
  <2>4. mem[p + 2] = n
    BY <1>2, <2>1, <2>3
  <2>5. ASSUME NEW id \in Iterator, id.st = "ok", id.pos = p + 2,
               NEW done, done = Construct(kind, mem, id), done.st = "ok"
        PROVE  done.pos + 1 >= p + Len(P)
    <3> DEFINE name == readString(mem)[id]
               has == readBytes(mem, 1, 1)[name]
    <3>1. done = readBytes(mem, UuidSize, UuidSize)[has]
      BY <1>6, <2>5 DEF Construct, LoginStartPacket
    <3>2. name = readString(mem)[id] /\ has = readBytes(mem, 1, 1)[name]
      OBVIOUS
    <3> HIDE DEF name, has
    <3>3. name \in Iterator /\ (name.st = "ok" => name.pos = (id.pos + 1) + n)
      <4>1. /\ id \in Iterator /\ id.st = "ok" /\ n \in Nat /\ n < 128 /\ id.pos <= Len(mem)
            /\ mem[id.pos] = n /\ name = readString(mem)[id]
        BY <2>1, <2>3, <2>4, <2>5, <3>2
      <4> QED BY <4>1, StringPasses
    <3>4. has \in Iterator /\ (has.st = "ok" => name.st = "ok" /\ has.pos = name.pos + 1)
      <4>1. name \in Iterator /\ 1 \in Int /\ 1 \in Nat /\ has = readBytes(mem, 1, 1)[name]
        BY <3>2, <3>3
      <4> QED BY <4>1, BlobPasses
    <3>5. done.st = "ok" => has.st = "ok" /\ done.pos = has.pos + UuidSize
      <4>1. has \in Iterator /\ UuidSize \in Int /\ UuidSize \in Nat
            /\ done = readBytes(mem, UuidSize, UuidSize)[has]
        BY <3>1, <3>4, UuidSizeAssumption
      <4> QED BY <4>1, BlobPasses
    <3>6. done.pos = ((((p + 2) + 1) + n) + 1) + UuidSize
      BY <2>5, <3>3, <3>4, <3>5
    <3>7. ((((p + 2) + 1) + n) + 1) + UuidSize + 1 >= p + (n + UuidSize + 3)
      BY <2>1, UuidSizeAssumption
    <3> QED BY <2>1, <3>6, <3>7
  <2> QED BY <2>1, <2>2, <2>5
<1>7. CASE kind = "KnownPacks"
  <2>1. /\ Len(P) = 25 /\ P[1] = 24 /\ P[2] = 7 /\ P[3] = 1
        /\ P[4] = 9 /\ P[14] = 4 /\ P[19] = 6
    BY <1>7, KnownPacksIs
  <2>2. KindOf(state, P[2]) = kind
    BY <1>7, <2>1 DEF KindOf, ReadIn
  <2>3. /\ mem[p + 2] = 1 /\ mem[p + 3] = 9 /\ mem[p + 13] = 4 /\ mem[p + 18] = 6
        /\ p + 18 <= total
    <3>1. /\ p + 3 - 1 = p + 2 /\ p + 4 - 1 = p + 3 /\ p + 14 - 1 = p + 13 /\ p + 19 - 1 = p + 18
      OBVIOUS
    <3>2. /\ mem[p + 3 - 1] = P[3] /\ mem[p + 4 - 1] = P[4]
          /\ mem[p + 14 - 1] = P[14] /\ mem[p + 19 - 1] = P[19]
      BY <1>2, <2>1
    <3>3. p + 18 <= total
      <4> HIDE DEF total
      <4> QED BY <1>2, <2>1
    <3> QED BY <2>1, <3>1, <3>2, <3>3
  <2>4. ASSUME NEW id \in Iterator, id.st = "ok", id.pos = p + 2,
               NEW done, done = Construct(kind, mem, id), done.st = "ok"
        PROVE  done.pos + 1 >= p + Len(P)
    <3> DEFINE count == readVarInt(mem)[id]
               first == readString(mem)[count]
               second == readString(mem)[first]
    <3>1. done = readString(mem)[second]
      BY <1>7, <2>4 DEF Construct, KnownPacksPacket
    <3>2. /\ count = readVarInt(mem)[id] /\ first = readString(mem)[count]
          /\ second = readString(mem)[first]
      OBVIOUS
    <3> HIDE DEF count, first, second, total
    <3>3. count \in Iterator /\ count.st = "ok" /\ count.pos = p + 3
      <4>1. /\ id \in Iterator /\ id.st = "ok" /\ id.pos <= Len(mem) /\ mem[id.pos] < 128
            /\ count = readVarInt(mem)[id]
        BY <1>2, <2>3, <2>4, <3>2 DEF total
      <4>2. count \in Iterator /\ count.st = "ok" /\ count.pos = id.pos + 1
        BY <4>1, ByteRead
      <4> QED BY <2>4, <4>2
    <3>4. ASSUME NEW it \in Iterator, NEW n \in Nat, n < 128, it.st = "ok", it.pos <= total,
                 mem[it.pos] = n, NEW r, r = readString(mem)[it]
          PROVE  r \in Iterator /\ (r.st = "ok" => r.pos = (it.pos + 1) + n)
      BY <3>4, StringPasses DEF total
    <3>5. /\ \A it \in Iterator : it.st # "ok" => readString(mem)[it] = it
      BY DEF readString, readVarInt, readBytes
    <3>6. first \in Iterator /\ (first.st = "ok" => first.pos = p + 13)
      <4>1. first \in Iterator /\ (first.st = "ok" => first.pos = (count.pos + 1) + 9)
        <5>1. /\ 9 \in Nat /\ 9 < 128 /\ count.pos <= total /\ mem[count.pos] = 9
              /\ count \in Iterator /\ count.st = "ok" /\ first = readString(mem)[count]
          BY <1>2, <2>3, <3>2, <3>3
        <5> QED BY <3>4, <5>1
      <4> QED BY <3>3, <4>1
    <3>7. second \in Iterator /\ (second.st = "ok" => second.pos = p + 18)
      <4>1. CASE first.st = "ok"
        <5>1. second \in Iterator /\ (second.st = "ok" => second.pos = (first.pos + 1) + 4)
          <6>1. /\ 4 \in Nat /\ 4 < 128 /\ first.pos <= total /\ mem[first.pos] = 4
                /\ first \in Iterator /\ first.st = "ok" /\ second = readString(mem)[first]
            BY <1>2, <2>3, <3>2, <3>6, <4>1
          <6> QED BY <3>4, <6>1
        <5> QED BY <3>6, <4>1, <5>1
      <4>2. CASE first.st # "ok"
        BY <3>2, <3>5, <3>6, <4>2
      <4> QED BY <4>1, <4>2
    <3>8. CASE second.st = "ok"
      <4>1. done.st = "ok" => done.pos = (second.pos + 1) + 6
        <5>1. /\ 6 \in Nat /\ 6 < 128 /\ second.pos <= total /\ mem[second.pos] = 6
              /\ second \in Iterator /\ second.st = "ok" /\ done = readString(mem)[second]
          BY <1>2, <2>3, <3>1, <3>7, <3>8
        <5> QED BY <3>4, <5>1
      <4> QED BY <2>1, <2>4, <3>7, <3>8, <4>1
    <3>9. CASE second.st # "ok"
      BY <2>4, <3>1, <3>5, <3>7, <3>9
    <3> QED BY <3>8, <3>9
  <2> QED BY <2>1, <2>2, <2>4
<1> QED BY <1>4, <1>5, <1>6, <1>7 DEF Kinds

-----------------------------------------------------------------------------
(* What Execute does where the client is.                                  *)

\* What sits in the buffer lies in what Execute reads.
LEMMA SitsLies ==
  ASSUME SInv, NEW kind \in Kinds, NEW p \in Nat \ {0}, Sits(kind, p)
  PROVE  Lies(Bytes(kind), Mem, p)
<1> DEFINE P == Bytes(kind)
           n == Len(P)
           total == Len(Mem)
<1>1. P \in Seq(Byte) /\ n \in Nat
  BY PacketIs DEF Bytes, SInv, SessionTypeOK
<1>2. /\ Len(beyond) \in Nat /\ total = PacketSize + Len(beyond)
      /\ \A i \in 1..PacketSize : Mem[i] = data[i]
  BY MemIs DEF SInv, IInv
<1>3. p + n <= PacketSize + 1 /\ \A i \in 1..n : data[p + i - 1] = P[i]
  BY DEF Sits
<1> HIDE DEF P, n, total
<1>4. p + n <= total + 1
  BY <1>1, <1>2, <1>3, PacketSizeAssumption
<1>5. \A i \in 1..n : p + i - 1 \in 1..PacketSize
  BY <1>1, <1>3, PacketSizeAssumption
<1>6. \A i \in 1..n : Mem[p + i - 1] = P[i]
  BY <1>2, <1>3, <1>5
<1> QED BY <1>4, <1>6 DEF Lies, P, n, total

\* A packet that is there is taken, unless a field of it cannot be read.
LEMMA SittingTaken ==
  ASSUME SInv, NEW kind \in Kinds \ {"Handshake"}, m_state = ReadIn(kind),
         Sits(kind, packetsIter)
  PROVE  \/ /\ Taken.kind = kind /\ Taken.it.st = "ok"
            /\ Taken.it.pos + 1 >= packetsIter + Len(Bytes(kind))
         \/ Taken.kind = "null" /\ Taken.it.st # "ok"
<1> DEFINE P == Bytes(kind)
           p == packetsIter
           next == Taken
<1>1. /\ self \in Clients /\ Mem \in Seq(Byte) /\ p \in Nat \ {0} /\ P = PacketBytes(self, kind)
      /\ next = NextPacket(ReadIn(kind), Mem, At(p))
  BY TakenResult DEF SInv, SessionTypeOK, IInv, TypeOK, Bytes, Taken
<1>2. Lies(P, Mem, p)
  BY <1>1, SitsLies
<1> DEFINE mem == Mem
           c == self
<1>3. /\ c \in Clients /\ mem \in Seq(Byte) /\ p \in Nat \ {0} /\ P = PacketBytes(c, kind)
      /\ Lies(P, mem, p) /\ next = NextPacket(ReadIn(kind), mem, At(p))
  BY <1>1, <1>2
<1> HIDE DEF P, p, next, mem, c
<1>4. \/ next.kind = kind /\ next.it.st = "ok" /\ next.it.pos + 1 >= p + Len(P)
      \/ next.kind = "null" /\ next.it.st # "ok"
  BY <1>3, PacketTaken
<1> QED BY <1>4 DEF P, p, next

\* A handshake at the front is taken, to its end, and asks for what the client wants.
LEMMA HandshakeSitting ==
  ASSUME SInv, m_state = "IDLE", packetsIter = 1, Sits("Handshake", 1)
  PROVE  /\ Taken.kind = "Handshake" /\ Taken.it.st = "ok" /\ Taken.it.pos = Len(H) + 1
         /\ RequestedState(Taken.it.val) = Asked
<1> DEFINE P == Bytes("Handshake")
           next == Taken
           mem == Mem
           c == self
<1>1. /\ c \in Clients /\ mem \in Seq(Byte) /\ P = PacketBytes(c, "Handshake") /\ P = H
      /\ next = NextPacket("IDLE", mem, At(1)) /\ "Handshake" \in Kinds /\ 1 \in Nat \ {0}
  BY TakenResult DEF SInv, IInv, SessionTypeOK, Bytes, H, Taken, Kinds
<1>2. Lies(P, mem, 1)
  BY <1>1, SitsLies
<1>3. Len(P) <= Len(mem) /\ \A i \in 1..Len(P) : mem[i] = P[i]
  <2>1. P \in Seq(Byte) /\ Len(P) \in Nat /\ Len(mem) \in Nat
    BY <1>1, PacketIs, LenProperties
  <2>2. 1 + Len(P) <= Len(mem) + 1 /\ \A i \in 1..Len(P) : mem[1 + i - 1] = P[i]
    BY <1>2 DEF Lies
  <2> DEFINE n == Len(P)
             total == Len(mem)
  <2>3. n <= total /\ \A i \in 1..n : 1 + i - 1 = i
    <3>1. n \in Nat /\ total \in Nat /\ 1 + n <= total + 1
      BY <2>1, <2>2
    <3> HIDE DEF n, total
    <3> QED BY <3>1
  <2> QED BY <2>2, <2>3
<1>4. P = PacketBytes(c, "Handshake") /\ next = NextPacket("IDLE", mem, At(1))
  BY <1>1
<1> HIDE DEF P, next, mem, c
<1>5. /\ next.kind = "Handshake" /\ next.it.st = "ok"
      /\ next.it.pos = Len(P) + 1 /\ next.it.val = RequestedNext(c)
  BY <1>1, <1>3, <1>4, HandshakeTaken
<1>6. RequestedState(RequestedNext(c)) = Asked
  BY DEF RequestedState, RequestedNext, Asked, c
<1> QED BY <1>1, <1>5, <1>6 DEF next

\* The handler of a kind of packet.
LEMMA HandledIs ==
  ASSUME Dispatch
  PROVE  /\ pc = "execute" /\ UNCHANGED <<data, recv, beyond, chunkLoaded, peerOpen, sent>>
         /\ packetsIter' = Taken.it.pos
         /\ pc' = IF todo' = << >> THEN "execute" ELSE "send"
         /\ Taken.kind \in Kinds
         /\ Taken.kind = "Handshake" => m_state' = RequestedState(Taken.it.val) /\ todo' = << >>
         /\ Taken.kind = "StatusRequest" => m_state' = m_state /\ todo' = <<Msg("Status", 0)>>
         /\ Taken.kind = "Ping" => m_state' = m_state /\ todo' = <<Msg("Pong", 0)>>
         /\ Taken.kind = "LoginStart" => m_state' = m_state /\ todo' = <<Msg("LoginSuccess", 0)>>
         /\ Taken.kind = "LoginAck" => m_state' = "CONFIG" /\ todo' = <<Msg("KnownPacks", 0)>>
         /\ Taken.kind = "KnownPacks" => m_state' = m_state /\ todo' = RegistryBatch
         /\ Taken.kind = "AckConfig" => m_state' = "PLAY" /\ todo' = JoinBatch
BY DEF Dispatch, OnHandshake, OnStatusRequest, OnPing, OnLoginStart, OnLoginAck,
       OnKnownPacks, OnAckConfig, Handle, buffer, context, Kinds

\* A step of the server's own, before PLAY and with the client there, takes a packet
\* or leaves everything but where the thread is.
LEMMA WorksBeforePlay ==
  ASSUME SInv, peerOpen, m_state # "PLAY", ServerWorks
  PROVE  /\ UNCHANGED <<self, client, said, wire, ends, inbox, tears>> /\ peerOpen' = peerOpen
         /\ pc = "execute"
         /\ \/ Dispatch
            \/ /\ UNCHANGED <<m_state, data, recv, packetsIter, todo>>
               /\ \/ pc' = "receive" /\ Taken.kind = "null" /\ Taken.it.st = "ok"
                  \/ pc' \in Ended
<1>1. UNCHANGED <<self, client, said, wire, ends, inbox, tears>>
  BY DEF ServerWorks, session
<1>2. pc # "chunk"
  BY DEF SInv, IInv, InvJoin
<1>3. Execute
  BY <1>2 DEF ServerWorks, SendThrows, ReadChunk, ReadChunkThrows
<1>4. CASE Dispatch
  BY <1>1, <1>4, HandledIs
<1>5. CASE ExecuteReturns \/ ExecuteThrows \/ ExecuteFaults
  BY <1>1, <1>5 DEF ExecuteReturns, ExecuteThrows, ExecuteFaults, buffer, context, Ended
<1> QED BY <1>3, <1>4, <1>5 DEF Execute

\* Where nothing is to be read, it takes none.
LEMMA SpentWorks ==
  ASSUME SInv, peerOpen, tears = 0, OldBytesIgnored, m_state # "PLAY", Spent, ServerWorks
  PROVE  /\ UNCHANGED <<self, client, said, wire, ends, inbox, tears>> /\ peerOpen' = peerOpen
         /\ UNCHANGED <<m_state, data, recv, packetsIter, todo>>
         /\ pc' \in {"receive"} \cup Ended /\ Spent'
<1>1. /\ UNCHANGED <<self, client, said, wire, ends, inbox, tears>> /\ peerOpen' = peerOpen
      /\ pc = "execute"
      /\ \/ Dispatch
         \/ /\ UNCHANGED <<m_state, data, recv, packetsIter, todo>>
            /\ pc' \in {"receive"} \cup Ended
  BY WorksBeforePlay
<1>2. Taken.kind = "null"
  BY <1>1 DEF OldBytesIgnored, Spent
<1>3. ~Dispatch
  BY <1>2, HandledIs DEF Kinds
<1>4. pc' \in {"receive"} \cup Ended => Spent'
  BY DEF Spent, Ended
<1> QED BY <1>1, <1>3, <1>4

\* A packet that is to be read stays where it is, or Execute takes it and has then
\* nothing more to read.
LEMMA PendingWorks ==
  ASSUME SInv, peerOpen, tears = 0, OldBytesIgnored,
         NEW kind \in Kinds \ {"Handshake"}, m_state = ReadIn(kind), Pending(kind), ServerWorks
  PROVE  /\ UNCHANGED <<self, client, said, wire, ends, inbox, tears>> /\ peerOpen' = peerOpen
         /\ \/ Pending(kind)' /\ m_state' = m_state /\ todo' = todo
            \/ Dispatch /\ Taken.kind = kind /\ Quiet'
<1>1. m_state # "PLAY"
  BY DEF ReadIn
<1>2. /\ UNCHANGED <<self, client, said, wire, ends, inbox, tears>> /\ peerOpen' = peerOpen
      /\ pc = "execute"
      /\ \/ Dispatch
         \/ /\ UNCHANGED <<m_state, data, recv, packetsIter, todo>>
            /\ \/ pc' = "receive" /\ Taken.kind = "null" /\ Taken.it.st = "ok"
               \/ pc' \in Ended
  BY <1>1, WorksBeforePlay
<1>3. CASE Coming(kind) /\ Spent
  <2>1. UNCHANGED <<m_state, todo>> /\ Spent'
    BY <1>1, <1>3, SpentWorks
  <2>2. Coming(kind)'
    BY <1>2, <1>3 DEF Coming, Bytes
  <2> QED BY <1>2, <2>1, <2>2 DEF Pending
<1>4. CASE /\ wire = << >> /\ Sits(kind, packetsIter)
           /\ recv + 1 = packetsIter + Len(Bytes(kind))
  <2>1. \/ /\ Taken.kind = kind /\ Taken.it.st = "ok"
           /\ Taken.it.pos + 1 >= packetsIter + Len(Bytes(kind))
        \/ Taken.kind = "null" /\ Taken.it.st # "ok"
    BY <1>4, SittingTaken
  <2>2. CASE Dispatch
    <3>1. packetsIter' = Taken.it.pos /\ recv' = recv /\ Taken.kind \in Kinds
      BY <2>2, HandledIs
    <3>2. Taken.kind = kind /\ Taken.it.pos + 1 >= recv + 1
      BY <1>4, <2>1, <3>1 DEF Kinds
    <3>3. Taken.it.pos \in Nat /\ recv \in Nat
      BY TakenResult DEF SInv, IInv, TypeOK, Iterator
    <3>4. packetsIter' >= recv'
      BY <3>1, <3>2, <3>3
    <3> QED BY <1>2, <1>4, <2>2, <3>2, <3>4 DEF Quiet, Spent
  <2>3. CASE pc' \in Ended /\ UNCHANGED <<m_state, todo>>
    BY <1>2, <2>3 DEF Pending
  <2> QED BY <1>2, <2>1, <2>2, <2>3 DEF Kinds
<1> QED BY <1>2, <1>3, <1>4 DEF Pending, Ended

\* So it is with the handshake.
LEMMA HandshakeWorks ==
  ASSUME SInv, peerOpen, tears = 0, OldBytesIgnored, m_state = "IDLE", Pending("Handshake"),
         ServerWorks
  PROVE  /\ UNCHANGED <<self, client, said, wire, ends, inbox, tears>> /\ peerOpen' = peerOpen
         /\ \/ Pending("Handshake")' /\ m_state' = m_state /\ todo' = todo
            \/ m_state' = Asked /\ todo' = << >> /\ Quiet'
<1>1. /\ UNCHANGED <<self, client, said, wire, ends, inbox, tears>> /\ peerOpen' = peerOpen
      /\ pc = "execute"
      /\ \/ Dispatch
         \/ /\ UNCHANGED <<m_state, data, recv, packetsIter, todo>>
            /\ \/ pc' = "receive" /\ Taken.kind = "null" /\ Taken.it.st = "ok"
               \/ pc' \in Ended
  BY WorksBeforePlay
<1>2. CASE Coming("Handshake") /\ Spent
  <2>1. UNCHANGED <<m_state, todo>> /\ Spent'
    BY <1>2, SpentWorks
  <2>2. Coming("Handshake")'
    BY <1>1, <1>2 DEF Coming, Bytes
  <2> QED BY <1>1, <2>1, <2>2 DEF Pending
<1>3. CASE /\ wire = << >> /\ Sits("Handshake", packetsIter)
           /\ recv + 1 = packetsIter + Len(Bytes("Handshake"))
           /\ packetsIter = 1
  <2>1. /\ Taken.kind = "Handshake" /\ Taken.it.st = "ok" /\ Taken.it.pos = Len(H) + 1
        /\ RequestedState(Taken.it.val) = Asked
    BY <1>3, HandshakeSitting
  <2>2. Dispatch \/ (pc' \in Ended /\ UNCHANGED <<m_state, todo>>)
    BY <1>1, <2>1
  <2>3. CASE Dispatch
    <3>1. packetsIter' = Taken.it.pos /\ recv' = recv /\ m_state' = Asked /\ todo' = << >>
      BY <2>1, <2>3, HandledIs
    <3>2. recv \in Nat /\ Len(H) \in Nat /\ Len(Bytes("Handshake")) = Len(H)
      BY PacketIs DEF SInv, IInv, TypeOK, SessionTypeOK, H, Bytes, Kinds
    <3>3. packetsIter' >= recv'
      BY <1>3, <2>1, <3>1, <3>2
    <3> QED BY <1>1, <1>3, <3>1, <3>3 DEF Quiet, Spent
  <2> QED BY <1>1, <2>2, <2>3 DEF Pending
<1> QED BY <1>1, <1>2, <1>3 DEF Pending, Ended

\* Behind the handshake there may be a packet already.
LEMMA SecondWorks ==
  ASSUME SInv, peerOpen, tears = 0, OldBytesIgnored, m_state = "IDLE",
         NEW kind \in Kinds \ {"Handshake"}, Second(kind), ServerWorks
  PROVE  /\ UNCHANGED <<self, client, said, wire, ends, inbox, tears>> /\ peerOpen' = peerOpen
         /\ \/ Second(kind)' /\ m_state' = m_state /\ todo' = todo
            \/ m_state' = Asked /\ todo' = << >> /\ Pending(kind)'
<1>1. /\ UNCHANGED <<self, client, said, wire, ends, inbox, tears>> /\ peerOpen' = peerOpen
      /\ pc = "execute"
      /\ \/ Dispatch
         \/ /\ UNCHANGED <<m_state, data, recv, packetsIter, todo>>
            /\ \/ pc' = "receive" /\ Taken.kind = "null" /\ Taken.it.st = "ok"
               \/ pc' \in Ended
  BY WorksBeforePlay
<1>2. CASE wire = H \o Bytes(kind) /\ ends = {Len(H), Len(H) + Len(Bytes(kind))} /\ Spent
  <2>1. UNCHANGED <<m_state, todo>> /\ Spent'
    BY <1>2, SpentWorks
  <2>2. (wire = H \o Bytes(kind) /\ ends = {Len(H), Len(H) + Len(Bytes(kind))})'
    BY <1>1, <1>2 DEF H, Bytes
  <2> QED BY <1>1, <2>1, <2>2 DEF Second
<1>3. CASE /\ packetsIter = 1 /\ Sits("Handshake", 1)
           /\ \/ Coming(kind) /\ recv = Len(H)
              \/ wire = << >> /\ Sits(kind, Len(H) + 1) /\ recv = Len(H) + Len(Bytes(kind))
  <2>1. /\ Taken.kind = "Handshake" /\ Taken.it.st = "ok" /\ Taken.it.pos = Len(H) + 1
        /\ RequestedState(Taken.it.val) = Asked
    BY <1>3, HandshakeSitting
  <2>2. Dispatch \/ (pc' \in Ended /\ UNCHANGED <<m_state, todo>>)
    BY <1>1, <2>1
  <2>3. CASE Dispatch
    <3>1. /\ packetsIter' = Len(H) + 1 /\ recv' = recv /\ data' = data
          /\ m_state' = Asked /\ todo' = << >> /\ pc' = "execute"
      BY <2>1, <2>3, HandledIs
    <3>2. recv \in Nat /\ Len(H) \in Nat /\ Len(Bytes(kind)) \in Nat
      BY PacketIs DEF SInv, IInv, TypeOK, SessionTypeOK, H, Bytes, Kinds
    <3>3. CASE Coming(kind) /\ recv = Len(H)
      <4>1. packetsIter' >= recv'
        BY <3>1, <3>2, <3>3
      <4>2. Coming(kind)'
        BY <1>1, <3>3 DEF Coming, Bytes
      <4> QED BY <1>1, <3>1, <4>1, <4>2 DEF Pending, Spent
    <3>4. CASE wire = << >> /\ Sits(kind, Len(H) + 1) /\ recv = Len(H) + Len(Bytes(kind))
      <4> DEFINE q == packetsIter'
      <4>1. Bytes(kind)' = Bytes(kind)
        BY <1>1 DEF Bytes
      <4>2. recv' + 1 = packetsIter' + Len(Bytes(kind))
        BY <3>1, <3>2, <3>4
      <4>3. q = Len(H) + 1 /\ q + Len(Bytes(kind)) <= PacketSize + 1
            /\ \A i \in 1..Len(Bytes(kind)) : data'[q + i - 1] = Bytes(kind)[i]
        BY <3>1, <3>4 DEF Sits
      <4>4. Sits(kind, packetsIter)'
        BY <4>1, <4>3 DEF Sits
      <4> QED BY <1>1, <3>1, <3>4, <4>1, <4>2, <4>4 DEF Pending, Kinds
    <3> QED BY <1>1, <1>3, <3>1, <3>3, <3>4
  <2> QED BY <1>1, <2>2, <2>3 DEF Second
<1> QED BY <1>1, <1>2, <1>3 DEF Second, Ended

-----------------------------------------------------------------------------
(* What the client says, on its way to the server.                         *)

\* A client that speaks when nothing is to be read adds one packet.
LEMMA SayPending ==
  ASSUME SInv, Quiet, NEW kind \in Kinds, Say(kind), UNCHANGED <<vars, self>>
  PROVE  Pending(kind)'
<1> DEFINE P == Bytes(kind)
<1>1. /\ pc' = pc /\ packetsIter' = packetsIter /\ recv' = recv
      /\ P = PacketBytes(self, kind) /\ Bytes(kind)' = P
  BY DEF vars, buffer, Bytes
<1>2. CASE pc \in Ended
  BY <1>1, <1>2 DEF Pending
<1>3. CASE wire = << >> /\ Spent
  <2>1. P \in Seq(Byte) /\ Len(P) \in Nat
    BY <1>1, PacketIs DEF SInv, SessionTypeOK
  <2>2. wire' = wire \o P /\ ends' = ends \cup {Len(wire) + Len(P)}
    BY <1>1 DEF Say
  <2>3. Len(wire) = 0 /\ ends = {}
    <3>1. Len(wire) = 0
      BY <1>3, EmptySeq
    <3> QED BY <3>1 DEF SInv, SessionTypeOK
  <2> HIDE DEF P
  <2>4. wire' = P /\ ends' = {Len(P)}
    BY <1>3, <2>1, <2>2, <2>3
  <2>5. Spent'
    BY <1>1, <1>3 DEF Spent
  <2> QED BY <1>1, <2>4, <2>5 DEF Pending, Coming
<1> QED BY <1>2, <1>3 DEF Quiet

\* One that does not wait until its handshake is read adds a second.
LEMMA SaySecond ==
  ASSUME SInv, Pending("Handshake"), NEW kind \in Kinds, Say(kind), UNCHANGED <<vars, self>>
  PROVE  Second(kind)'
<1> DEFINE P == Bytes(kind)
<1>1. /\ pc' = pc /\ packetsIter' = packetsIter /\ recv' = recv /\ data' = data
      /\ P = PacketBytes(self, kind) /\ Bytes(kind)' = P
      /\ Bytes("Handshake") = H /\ H' = H /\ Bytes("Handshake")' = H
  BY DEF vars, buffer, Bytes, H
<1>2. P \in Seq(Byte) /\ Len(P) \in Nat /\ H \in Seq(Byte) /\ Len(H) \in Nat
  <2>1. self \in Clients /\ "Handshake" \in Kinds /\ H = PacketBytes(self, "Handshake")
    BY DEF SInv, SessionTypeOK, H, Kinds
  <2>2. P \in Seq(Byte) /\ Len(P) \in Nat
    BY <1>1, <2>1, PacketIs
  <2> HIDE DEF P
  <2>3. H \in Seq(Byte) /\ Len(H) \in Nat
    BY <2>1, PacketIs
  <2> QED BY <2>2, <2>3
<1>3. wire' = wire \o P /\ ends' = ends \cup {Len(wire) + Len(P)}
  BY <1>1 DEF Say
<1> HIDE DEF P
<1>4. CASE pc \in Ended
  BY <1>1, <1>4 DEF Second
<1>5. CASE Coming("Handshake") /\ Spent
  <2>1. wire' = H \o P /\ ends' = {Len(H), Len(H) + Len(P)}
    BY <1>1, <1>3, <1>5 DEF Coming
  <2>2. Spent'
    BY <1>1, <1>5 DEF Spent
  <2> QED BY <1>1, <2>1, <2>2 DEF Second
<1>6. CASE /\ wire = << >> /\ pc = "execute" /\ Sits("Handshake", packetsIter)
           /\ recv + 1 = packetsIter + Len(Bytes("Handshake")) /\ packetsIter = 1
  <2>1. Len(wire) = 0 /\ ends = {}
    <3>1. Len(wire) = 0
      BY <1>6, EmptySeq
    <3> QED BY <3>1 DEF SInv, SessionTypeOK
  <2>2. wire' = P /\ ends' = {Len(P)}
    BY <1>2, <1>3, <1>6, <2>1
  <2>3. recv \in Nat
    BY DEF SInv, IInv, TypeOK
  <2>4. recv' = Len(H)
    BY <1>1, <1>2, <1>6, <2>3
  <2>5. Sits("Handshake", 1)'
    BY <1>1, <1>6 DEF Sits
  <2> QED BY <1>1, <1>6, <2>2, <2>4, <2>5 DEF Second, Coming
<1> QED BY <1>4, <1>5, <1>6 DEF Pending

\* What is read lies at the front of the buffer, and the rest waits.
LEMMA ReadIs ==
  ASSUME SInv, SInv', NEW n \in ends, Deliver(n)
  PROVE  /\ n \in 1..Len(wire) /\ n <= PacketSize /\ pc = "receive" /\ pc' = "execute"
         /\ packetsIter' = 1 /\ recv' = n /\ UNCHANGED <<m_state, todo, peerOpen>>
         /\ \A i \in 1..n : data'[i] = wire[i]
         /\ wire' \in Seq(Byte) /\ Len(wire') = Len(wire) - n
         /\ \A i \in 1..Len(wire') : wire'[i] = wire[n + i]
         /\ ends' = {e \in 1..Len(wire') : n + e \in ends}
<1>1. /\ wire \in Seq(Byte) /\ ends \subseteq 1..Len(wire) /\ (wire # << >> => Len(wire) \in ends)
      /\ n \in 1..Len(wire)
  BY DEF SInv, SessionTypeOK
<1>2. /\ n <= PacketSize /\ pc = "receive" /\ pc' = "execute" /\ packetsIter' = 1
      /\ UNCHANGED <<m_state, todo, peerOpen>>
      /\ \A i \in 1..PacketSize : data'[i] = IF i <= n THEN wire[i] ELSE data[i]
  <2>1. n \in 1..PacketSize
    BY <1>1, DeliveredBytes
  <2> QED BY <1>1, <2>1, DeliveredBytes, PacketSizeAssumption
<1> DEFINE seg == SubSeq(wire, 1, n)
<1>3. /\ Receive(seg) /\ Len(seg) = n
      /\ wire' \in Seq(Byte) /\ Len(wire') = Len(wire) - n
      /\ \A i \in 1..Len(wire') : wire'[i] = wire[n + i]
      /\ ends' = {e \in 1..Len(wire') : n + e \in ends}
  BY <1>1, DeliverResult
<1> HIDE DEF seg
<1>4. recv' = n
  BY <1>3 DEF Receive
<1>5. \A i \in 1..n : i \in 1..PacketSize /\ i <= n
  BY <1>1, <1>2, PacketSizeAssumption
<1> QED BY <1>1, <1>2, <1>3, <1>4, <1>5

\* One packet is read whole.
LEMMA ReceivePending ==
  ASSUME SInv, SInv', NEW kind \in Kinds, Pending(kind), NEW n \in ends, Deliver(n), self' = self
  PROVE  Pending(kind)'
<1> DEFINE P == Bytes(kind)
           w == wire'
<1>1. /\ n \in 1..Len(wire) /\ n <= PacketSize /\ pc = "receive" /\ pc' = "execute"
      /\ packetsIter' = 1 /\ recv' = n
      /\ \A i \in 1..n : data'[i] = wire[i]
      /\ w \in Seq(Byte) /\ Len(w) = Len(wire) - n
  BY ReadIs
<1>2. P \in Seq(Byte) /\ Len(P) \in Nat /\ Bytes(kind)' = P
  BY PacketIs DEF SInv, SessionTypeOK, Bytes
<1>3. wire = P /\ n = Len(P)
  BY <1>1 DEF Pending, Coming, Ended
<1> HIDE DEF P, w
<1>4. w = << >>
  <2>1. Len(w) = 0
    BY <1>1, <1>2, <1>3
  <2> QED BY <1>1, <2>1, EmptySeq
<1>5. Sits(kind, packetsIter)'
  <2>1. \A i \in 1..Len(P) : 1 + i - 1 = i
    BY <1>2
  <2>2. \A i \in 1..Len(P) : data'[1 + i - 1] = P[i]
    BY <1>1, <1>3, <2>1
  <2>3. 1 + Len(P) <= PacketSize + 1
    BY <1>1, <1>2, <1>3, PacketSizeAssumption
  <2> QED BY <1>1, <1>2, <2>2, <2>3 DEF Sits
<1>6. recv' + 1 = packetsIter' + Len(P)
  BY <1>1, <1>2, <1>3
<1> QED BY <1>1, <1>2, <1>4, <1>5, <1>6 DEF Pending, w

\* A handshake is read with the packet behind it, or before it.
LEMMA ReceiveSecond ==
  ASSUME SInv, SInv', NEW kind \in Kinds, Second(kind), NEW n \in ends, Deliver(n), self' = self
  PROVE  Second(kind)'
<1> DEFINE P == Bytes(kind)
           w == wire'
           a == Len(H)
           b == Len(P)
<1>1. /\ n \in 1..Len(wire) /\ n <= PacketSize /\ pc = "receive" /\ pc' = "execute"
      /\ packetsIter' = 1 /\ recv' = n
      /\ \A i \in 1..n : data'[i] = wire[i]
      /\ w \in Seq(Byte) /\ Len(w) = Len(wire) - n
      /\ \A i \in 1..Len(w) : w[i] = wire[n + i]
      /\ ends' = {e \in 1..Len(w) : n + e \in ends}
  BY ReadIs
<1>2. /\ P \in Seq(Byte) /\ b \in Nat /\ Bytes(kind)' = P /\ b >= 2
      /\ H \in Seq(Byte) /\ a \in Nat /\ a >= 2 /\ H' = H /\ Bytes("Handshake")' = H
  <2>1. /\ self \in Clients /\ "Handshake" \in Kinds
        /\ H = PacketBytes(self, "Handshake") /\ P = PacketBytes(self, kind)
    BY DEF SInv, SessionTypeOK, H, Kinds, Bytes
  <2>2. Bytes(kind)' = P /\ H' = H /\ Bytes("Handshake")' = H
    BY DEF Bytes, H
  <2> HIDE DEF P
  <2>3. P \in Seq(Byte) /\ Len(P) \in Nat /\ Len(P) >= 2
    BY <2>1, PacketIs
  <2>4. H \in Seq(Byte) /\ Len(H) \in Nat /\ Len(H) >= 2
    BY <2>1, PacketIs
  <2> QED BY <2>2, <2>3, <2>4
<1>3. wire = H \o P /\ ends = {a, a + b}
  BY <1>1 DEF Second, Ended
<1> HIDE DEF P
<1>4. /\ Len(wire) = a + b
      /\ \A i \in 1..a : wire[i] = H[i]
      /\ \A i \in 1..b : wire[a + i] = P[i]
  <2>1. H \in Seq(Byte) /\ P \in Seq(Byte) /\ wire = H \o P
    BY <1>2, <1>3
  <2> QED BY <2>1, Concat
<1> HIDE DEF w, a, b
<1>5. a <= n /\ a <= PacketSize
  BY <1>1, <1>2, <1>3, PacketSizeAssumption
<1>6. Sits("Handshake", 1)'
  <2>1. \A i \in 1..a : 1 + i - 1 = i /\ i \in 1..n
    BY <1>1, <1>2, <1>3
  <2>2. \A i \in 1..a : data'[1 + i - 1] = H[i]
    BY <1>1, <1>4, <2>1
  <2>3. 1 + a <= PacketSize + 1
    BY <1>2, <1>5, PacketSizeAssumption
  <2> QED BY <1>2, <2>2, <2>3 DEF Sits, a
<1>7. CASE n = a
  <2>1. Len(w) = b /\ \A i \in 1..b : w[i] = P[i]
    BY <1>1, <1>2, <1>4, <1>7
  <2>2. w = P
    BY <1>1, <1>2, <2>1, SeqEqual DEF b
  <2>3. ends' = {b}
    <3>1. ends' = {e \in 1..b : a + e \in {a, a + b}}
      BY <1>1, <1>3, <1>7, <2>1
    <3>2. \A e \in 1..b : a + e \in {a, a + b} <=> e = b
      BY <1>2
    <3>3. b \in 1..b
      BY <1>2
    <3> QED BY <3>1, <3>2, <3>3
  <2> QED BY <1>1, <1>2, <1>6, <1>7, <2>2, <2>3 DEF Second, Coming, w, a, b
<1>8. CASE n = a + b
  <2>1. w = << >>
    <3>1. Len(w) = 0
      BY <1>1, <1>2, <1>4, <1>8
    <3> QED BY <1>1, <3>1, EmptySeq
  <2>2. \A i \in 1..b : (a + 1) + i - 1 = a + i /\ a + i \in 1..n
    BY <1>2, <1>8
  <2>3. \A i \in 1..b : data'[(a + 1) + i - 1] = P[i]
    BY <1>1, <1>4, <2>2
  <2>4. (a + 1) + b <= PacketSize + 1
    BY <1>1, <1>2, <1>8, PacketSizeAssumption
  <2>5. Sits(kind, Len(H) + 1)'
    BY <1>2, <2>3, <2>4 DEF Sits, a, b
  <2> QED BY <1>1, <1>2, <1>6, <1>8, <2>1, <2>5 DEF Second, w, a, b
<1> QED BY <1>3, <1>7, <1>8

-----------------------------------------------------------------------------
(* UInv is inductive.                                                      *)

\* The server works where there is nothing to be read.
LEMMA QuietWorks ==
  ASSUME SInv, peerOpen, tears = 0, OldBytesIgnored, m_state # "PLAY", Quiet, ServerWorks
  PROVE  /\ Quiet' /\ UNCHANGED <<m_state, todo>>
         /\ UNCHANGED <<self, client, inbox>>
<1>1. /\ UNCHANGED <<self, client, said, wire, ends, inbox, tears>>
      /\ pc = "execute"
  BY WorksBeforePlay
<1>2. wire = << >> /\ Spent
  BY <1>1 DEF Quiet, Ended
<1> QED BY <1>1, <1>2, SpentWorks DEF Quiet

\* And where the client has said something.
LEMMA SaysWorks ==
  ASSUME SInv, peerOpen, tears = 0, OldBytesIgnored, NEW state,
         NEW kind \in Kinds \ {"Handshake"}, NEW serverState, serverState = ReadIn(kind),
         Says(state, serverState, kind), ServerWorks
  PROVE  /\ UNCHANGED <<self, client, inbox>>
         /\ \/ Says(state, serverState, kind)'
            \/ Dispatch /\ Taken.kind = kind /\ Quiet'
<1>1. client = state /\ m_state = serverState /\ Pending(kind) /\ Silence
  BY DEF Says
<1>2. /\ UNCHANGED <<self, client, said, wire, ends, inbox, tears>>
      /\ \/ Pending(kind)' /\ m_state' = m_state /\ todo' = todo
         \/ Dispatch /\ Taken.kind = kind /\ Quiet'
  BY <1>1, PendingWorks
<1>3. CASE Pending(kind)' /\ m_state' = m_state /\ todo' = todo
  BY <1>1, <1>2, <1>3 DEF Says, Silence
<1> QED BY <1>2, <1>3

\* What the handlers send, by type.
LEMMA BatchIs ==
  /\ \A t \in Single : One(<<Msg(t, 0)>>, t)
  /\ Ordered(RegistryBatch) /\ Only(JoinBatch, Shown) /\ Only(ChunkBatch, Shown)
<1>1. ASSUME NEW t \in Single PROVE One(<<Msg(t, 0)>>, t)
  BY DEF One, Msg
<1>2. Ordered(RegistryBatch)
  <2> DEFINE n == NumRegistries + 1
  <2>1. n \in Nat /\ Len(RegistryBatch) = n /\ NumRegistries \in Nat
    BY RegistryBatchLinked, NumRegistriesAssumption
  <2>2. ASSUME NEW i \in 1..n
        PROVE  RegistryBatch[i] = IF i <= NumRegistries THEN Msg("Registry", i) ELSE Msg("Finish", 0)
    BY DEF RegistryBatch
  <2>3. ASSUME NEW i \in 1..n
        PROVE  /\ RegistryBatch[i].type \in {"Registry", "Finish"}
               /\ RegistryBatch[i].type = "Finish" => i = n
    <3>1. CASE i <= NumRegistries
      <4>1. RegistryBatch[i] = Msg("Registry", i)
        BY <2>2, <3>1
      <4>2. RegistryBatch[i].type = "Registry"
        BY <4>1 DEF Msg
      <4> QED BY <4>2
    <3>2. CASE ~(i <= NumRegistries)
      <4>1. RegistryBatch[i] = Msg("Finish", 0) /\ i = n
        BY <2>1, <2>2, <3>2
      <4>2. RegistryBatch[i].type = "Finish"
        BY <4>1 DEF Msg
      <4> QED BY <4>1, <4>2
    <3> QED BY <3>1, <3>2
  <2> HIDE DEF n
  <2> QED BY <2>1, <2>3 DEF Ordered, Only
<1>3. Only(JoinBatch, Shown)
  BY DEF JoinBatch, Only, Shown, Msg
<1>4. Only(ChunkBatch, Shown)
  <2>1. Len(ChunkBatch) = NumChunks
    BY ChunkBatchLinked
  <2>2. \A i \in 1..NumChunks : ChunkBatch[i].type = "Chunk"
    BY DEF ChunkBatch, Msg
  <2> QED BY <2>1, <2>2 DEF Only, Shown
<1> QED BY <1>1, <1>2, <1>3, <1>4

\* The server works, whatever the client waits for.
LEMMA WorksStage ==
  ASSUME SInv, Stage, peerOpen, tears = 0, OldBytesIgnored, ServerWorks
  PROVE  Stage'
<1>1. UNCHANGED <<self, client, said, wire, ends, inbox, tears>>
  BY DEF ServerWorks, session
<1>a. \A t \in {"Status", "Pong", "LoginSuccess", "KnownPacks"} : One(<<Msg(t, 0)>>, t)
  BY BatchIs DEF Single
<1>b. ASSUME NEW type, Quiet', inbox' = << >>, One(todo', type), NEW state, client' = state,
             NEW serverState, m_state' = serverState
      PROVE  IsTold(state, serverState, type)'
  BY <1>b DEF IsTold, Told, One
<1>c. ASSUME NEW state, NEW serverState, serverState # "PLAY", Rests(state, serverState)
      PROVE  Rests(state, serverState)'
  BY <1>1, <1>c, QuietWorks DEF Rests, Silence
<1>d. ASSUME NEW state, NEW serverState, NEW type, serverState # "PLAY",
             IsTold(state, serverState, type)
      PROVE  IsTold(state, serverState, type)'
  BY <1>1, <1>d, QuietWorks DEF IsTold, Told, One
<1>2. CASE Greets
  <2>1. m_state # "PLAY" /\ pc = "execute"
    BY <1>2, WorksBeforePlay DEF Greets, Says
  <2>2. Says("greeted", "IDLE", "Handshake")
    BY <1>2, <2>1 DEF Greets
  <2>3. \/ Pending("Handshake")' /\ m_state' = m_state /\ todo' = todo
        \/ m_state' = Asked /\ todo' = << >> /\ Quiet'
    BY <2>2, HandshakeWorks DEF Says
  <2>4. CASE Pending("Handshake")' /\ m_state' = m_state /\ todo' = todo
    <3>1. Says("greeted", "IDLE", "Handshake")'
      BY <1>1, <2>2, <2>4 DEF Says, Silence
    <3> QED BY <3>1 DEF Stage, Greets
  <2>5. CASE m_state' = Asked /\ todo' = << >> /\ Quiet'
    <3>1. /\ self.intent = "ping" => Rests("greeted", "STATUS")'
          /\ self.intent # "ping" => Rests("greeted", "LOGIN")'
      BY <1>1, <2>2, <2>5 DEF Says, Rests, Silence, Asked
    <3>2. Asks'
      BY <1>1, <3>1 DEF Asks, AsksFor
    <3> QED BY <3>2 DEF Stage
  <2> QED BY <2>3, <2>4, <2>5
<1>3. ASSUME NEW state, NEW kind \in {"StatusRequest", "LoginStart"}, NEW serverState,
             NEW answer, AsksFor(state, serverState, kind, answer), serverState = Asked,
             \/ kind = "StatusRequest" /\ serverState = "STATUS" /\ answer = "Status"
             \/ kind = "LoginStart" /\ serverState = "LOGIN" /\ answer = "LoginSuccess"
      PROVE  AsksFor(state, serverState, kind, answer)'
  <2>1. kind \in Kinds \ {"Handshake"} /\ serverState = ReadIn(kind) /\ serverState # "PLAY"
    BY <1>3 DEF Kinds, ReadIn
  <2>2. CASE Rests("greeted", serverState)
    BY <1>c, <2>1, <2>2 DEF AsksFor
  <2>3. CASE client = state /\ m_state = "IDLE" /\ Second(kind) /\ Silence
    <3>1. \/ Second(kind)' /\ m_state' = m_state /\ todo' = todo
          \/ m_state' = Asked /\ todo' = << >> /\ Pending(kind)'
      BY <2>1, <2>3, SecondWorks
    <3> QED BY <1>1, <1>3, <2>3, <3>1 DEF AsksFor, Says, Silence
  <2>4. CASE Says(state, serverState, kind)
    <3>1. Says(state, serverState, kind)' \/ (Dispatch /\ Taken.kind = kind /\ Quiet')
      BY <2>1, <2>4, SaysWorks
    <3>2. CASE Dispatch /\ Taken.kind = kind /\ Quiet'
      <4>1. m_state' = serverState /\ todo' = <<Msg(answer, 0)>>
        BY <1>3, <2>4, <3>2, HandledIs DEF Says
      <4>2. client' = state /\ inbox' = << >>
        BY <1>1, <2>4 DEF Says, Silence
      <4>3. One(todo', answer)
        BY <1>3, <1>a, <4>1
      <4>4. IsTold(state, serverState, answer)'
        BY <1>b, <3>2, <4>1, <4>2, <4>3
      <4> QED BY <4>4 DEF AsksFor
    <3> QED BY <3>1, <3>2 DEF AsksFor
  <2>5. CASE IsTold(state, serverState, answer)
    BY <1>d, <2>1, <2>5 DEF AsksFor
  <2> QED BY <1>3, <2>2, <2>3, <2>4, <2>5 DEF AsksFor
<1>4. CASE Asks
  <2>1. CASE self.intent = "ping"
    <3>1. AsksFor("asking", "STATUS", "StatusRequest", "Status") /\ Asked = "STATUS"
      BY <1>4, <2>1 DEF Asks, Asked
    <3>2. AsksFor("asking", "STATUS", "StatusRequest", "Status")'
      BY <1>3, <3>1
    <3> QED BY <1>1, <2>1, <3>2 DEF Stage, Asks
  <2>2. CASE self.intent # "ping"
    <3>1. AsksFor("login", "LOGIN", "LoginStart", "LoginSuccess") /\ Asked = "LOGIN"
      BY <1>4, <2>2 DEF Asks, Asked
    <3>2. AsksFor("login", "LOGIN", "LoginStart", "LoginSuccess")'
      BY <1>3, <3>1
    <3> QED BY <1>1, <2>2, <3>2 DEF Stage, Asks
  <2> QED BY <2>1, <2>2
<1>5. ASSUME NEW state, NEW kind \in Kinds \ {"Handshake"}, NEW serverState,
             serverState = ReadIn(kind), Says(state, serverState, kind)
      PROVE  \/ Says(state, serverState, kind)'
             \/ /\ Dispatch /\ Taken.kind = kind /\ Quiet'
                /\ m_state = serverState /\ client' = state /\ inbox' = << >>
  <2>1. Says(state, serverState, kind)' \/ (Dispatch /\ Taken.kind = kind /\ Quiet')
    BY <1>5, SaysWorks
  <2> QED BY <1>1, <1>5, <2>1 DEF Says, Silence
<1>6. CASE Pings
  <2>1. CASE Says("pinging", "STATUS", "Ping")
    <3>1. \/ Says("pinging", "STATUS", "Ping")'
          \/ /\ Dispatch /\ Taken.kind = "Ping" /\ Quiet'
             /\ m_state = "STATUS" /\ client' = "pinging" /\ inbox' = << >>
      BY <1>5, <2>1 DEF Kinds, ReadIn
    <3>2. CASE /\ Dispatch /\ Taken.kind = "Ping" /\ Quiet'
               /\ m_state = "STATUS" /\ client' = "pinging" /\ inbox' = << >>
      <4>1. m_state' = "STATUS" /\ One(todo', "Pong")
        BY <1>a, <3>2, HandledIs
      <4>2. IsTold("pinging", "STATUS", "Pong")'
        BY <1>b, <3>2, <4>1
      <4> QED BY <4>2 DEF Stage, Pings
    <3> QED BY <3>1, <3>2 DEF Stage, Pings
  <2>2. CASE IsTold("pinging", "STATUS", "Pong") \/ Rests("pinged", "STATUS")
    BY <1>c, <1>d, <2>2 DEF Stage, Pings
  <2> QED BY <1>6, <2>1, <2>2 DEF Pings
<1>7. CASE Configured
  <2>1. CASE Says("config", "LOGIN", "LoginAck")
    <3>1. \/ Says("config", "LOGIN", "LoginAck")'
          \/ /\ Dispatch /\ Taken.kind = "LoginAck" /\ Quiet'
             /\ m_state = "LOGIN" /\ client' = "config" /\ inbox' = << >>
      BY <1>5, <2>1 DEF Kinds, ReadIn
    <3>2. CASE /\ Dispatch /\ Taken.kind = "LoginAck" /\ Quiet'
               /\ m_state = "LOGIN" /\ client' = "config" /\ inbox' = << >>
      <4>1. m_state' = "CONFIG" /\ One(todo', "KnownPacks")
        BY <1>a, <3>2, HandledIs
      <4>2. IsTold("config", "CONFIG", "KnownPacks")'
        BY <1>b, <3>2, <4>1
      <4> QED BY <4>2 DEF Stage, Configured
    <3> QED BY <3>1, <3>2 DEF Stage, Configured
  <2>2. CASE IsTold("config", "CONFIG", "KnownPacks")
    BY <1>d, <2>2 DEF Stage, Configured
  <2>3. CASE Says("config", "CONFIG", "KnownPacks")
    <3>1. \/ Says("config", "CONFIG", "KnownPacks")'
          \/ /\ Dispatch /\ Taken.kind = "KnownPacks" /\ Quiet'
             /\ m_state = "CONFIG" /\ client' = "config" /\ inbox' = << >>
      BY <1>5, <2>3 DEF Kinds, ReadIn
    <3>2. CASE /\ Dispatch /\ Taken.kind = "KnownPacks" /\ Quiet'
               /\ m_state = "CONFIG" /\ client' = "config" /\ inbox' = << >>
      <4>1. m_state' = "CONFIG" /\ todo' = RegistryBatch
        BY <3>2, HandledIs
      <4>2. Ordered(todo') /\ Ordered(inbox') /\ Only(inbox', {"Registry"})
        BY <3>2, <4>1, BatchIs DEF Ordered, Only
      <4>3. Configures'
        BY <4>2 DEF Configures, Ordered, Only
      <4> QED BY <3>2, <4>1, <4>3 DEF Stage, Configured
    <3> QED BY <3>1, <3>2 DEF Stage, Configured
  <2>4. CASE client = "config" /\ m_state = "CONFIG" /\ Quiet /\ Configures
    <3>1. Quiet' /\ UNCHANGED <<m_state, todo>>
      BY <2>4, QuietWorks
    <3>2. Configures'
      BY <1>1, <2>4, <3>1 DEF Configures, Ordered, Only
    <3> QED BY <1>1, <2>4, <3>1, <3>2 DEF Stage, Configured
  <2>5. CASE Says("play", "CONFIG", "AckConfig")
    <3>1. \/ Says("play", "CONFIG", "AckConfig")'
          \/ /\ Dispatch /\ Taken.kind = "AckConfig" /\ Quiet'
             /\ m_state = "CONFIG" /\ client' = "play" /\ inbox' = << >>
      BY <1>5, <2>5 DEF Kinds, ReadIn
    <3>2. CASE /\ Dispatch /\ Taken.kind = "AckConfig" /\ Quiet'
               /\ m_state = "CONFIG" /\ client' = "play" /\ inbox' = << >>
      <4>1. m_state' = "PLAY" /\ todo' = JoinBatch /\ pc' # "playloop"
        BY <3>2, HandledIs
      <4>2. Only(todo', Shown) /\ Only(inbox', Shown)
        BY <3>2, <4>1, BatchIs DEF Only
      <4>3. Joining'
        BY <3>2, <4>1, <4>2 DEF Joining, Only
      <4> QED BY <3>2, <4>1, <4>3 DEF Stage, Plays
    <3> QED BY <3>1, <3>2 DEF Stage, Configured
  <2> QED BY <1>7, <2>1, <2>2, <2>3, <2>4, <2>5 DEF Configured
<1>8. CASE Plays
  <2>1. pc \notin {"receive", "execute"}
    BY <1>8 DEF Plays, SInv, IInv, InvLoop
  <2>2. pc = "chunk" /\ m_state' = m_state
        /\ \/ todo' = ChunkBatch /\ pc' = "send"
           \/ todo' = todo /\ pc' = "threw"
    BY <2>1 DEF ServerWorks, Execute, ExecuteReturns, ExecuteThrows, ExecuteFaults, Dispatch,
                OnHandshake, OnStatusRequest, OnPing, OnLoginStart, OnLoginAck, OnKnownPacks,
                OnAckConfig, Handle, SendThrows, ReadChunk, ReadChunkThrows
  <2>3. /\ Only(todo, Shown) /\ client = "play" /\ Only(inbox, Shown)
    BY <1>8, <2>2 DEF Plays, Joining
  <2>4. Only(todo', Shown) /\ Only(inbox', Shown) /\ client' = "play"
    BY <1>1, <2>2, <2>3, BatchIs
  <2>5. Joining'
    BY <2>2, <2>4 DEF Joining, Only
  <2> QED BY <1>8, <2>2, <2>4, <2>5 DEF Stage, Plays
<1> QED BY <1>2, <1>4, <1>6, <1>7, <1>8 DEF Stage

-----------------------------------------------------------------------------
(* The other steps of a session.                                           *)

\* The server reads.
LEMMA ReceivesStage ==
  ASSUME SInv, SInv', Stage, tears = 0, tears' = 0, ServerReceives
  PROVE  Stage'
<1>1. PICK n \in 1..Len(wire) : Deliver(n) /\ n \in ends
  BY DEF ServerReceives
<1>2. UNCHANGED <<self, client, inbox>>
  BY DEF ServerReceives
<1>3. pc = "receive" /\ UNCHANGED <<m_state, todo>> /\ Len(wire) # 0
  BY <1>1, ReadIs
<1>4. ~Quiet /\ m_state # "PLAY"
  <2>1. wire # << >>
    BY <1>3
  <2> QED BY <1>3, <2>1 DEF Quiet, Ended, SInv, IInv, InvLoop
<1>5. ASSUME NEW kind \in Kinds, NEW state, NEW serverState, Says(state, serverState, kind)
      PROVE  Says(state, serverState, kind)'
  <2>1. Pending(kind)'
    BY <1>1, <1>2, <1>5, ReceivePending DEF Says
  <2> QED BY <1>2, <1>3, <1>5, <2>1 DEF Says, Silence
<1>6. ASSUME NEW kind \in Kinds, Second(kind), Silence
      PROVE  Second(kind)' /\ Silence'
  <2>1. Second(kind)'
    BY <1>1, <1>2, <1>6, ReceiveSecond
  <2> QED BY <1>2, <1>3, <1>6, <2>1 DEF Silence
<1>7. CASE Greets
  <2>1. wire # << >>
    BY <1>3
  <2>2. Says("greeted", "IDLE", "Handshake")
    BY <1>7, <2>1 DEF Greets
  <2>3. Says("greeted", "IDLE", "Handshake")'
    BY <1>5, <2>2 DEF Kinds
  <2> QED BY <2>3 DEF Stage, Greets
<1>8. ASSUME NEW kind \in Kinds, NEW state, NEW serverState, NEW answer,
             AsksFor(state, serverState, kind, answer)
      PROVE  AsksFor(state, serverState, kind, answer)'
  <2>1. CASE Says(state, serverState, kind)
    <3>1. Says(state, serverState, kind)'
      BY <1>5, <2>1
    <3> QED BY <3>1 DEF AsksFor
  <2>2. CASE client = state /\ m_state = "IDLE" /\ Second(kind) /\ Silence
    BY <1>2, <1>3, <1>6, <2>2 DEF AsksFor
  <2> QED BY <1>4, <1>8, <2>1, <2>2 DEF AsksFor, Rests, IsTold
<1>9. CASE Asks
  <2>1. /\ self.intent = "ping" => AsksFor("asking", "STATUS", "StatusRequest", "Status")'
        /\ self.intent # "ping" => AsksFor("login", "LOGIN", "LoginStart", "LoginSuccess")'
    BY <1>8, <1>9 DEF Asks, Kinds
  <2>2. Asks'
    BY <1>2, <2>1 DEF Asks
  <2> QED BY <2>2 DEF Stage
<1>10. CASE Pings
  <2>1. Says("pinging", "STATUS", "Ping")
    BY <1>4, <1>10 DEF Pings, IsTold, Rests
  <2>2. Says("pinging", "STATUS", "Ping")'
    BY <1>5, <2>1 DEF Kinds
  <2> QED BY <2>2 DEF Stage, Pings
<1>11. CASE Configured
  <2>1. \/ Says("config", "LOGIN", "LoginAck")
        \/ Says("config", "CONFIG", "KnownPacks")
        \/ Says("play", "CONFIG", "AckConfig")
    BY <1>4, <1>11 DEF Configured, IsTold
  <2>2. \/ Says("config", "LOGIN", "LoginAck")'
        \/ Says("config", "CONFIG", "KnownPacks")'
        \/ Says("play", "CONFIG", "AckConfig")'
    BY <1>5, <2>1 DEF Kinds
  <2> QED BY <2>2 DEF Stage, Configured
<1>12. ~Plays
  BY <1>4 DEF Plays
<1> QED BY <1>7, <1>9, <1>10, <1>11, <1>12 DEF Stage

\* The client begins.
LEMMA StartsStage ==
  ASSUME SInv, Stage, ClientStarts
  PROVE  Stage'
<1>1. /\ UNCHANGED <<vars, self, inbox>>
      /\ UNCHANGED <<pc, m_state, todo>>
  BY DEF ClientStarts, vars
<1>2. Silence => Silence'
  BY <1>1 DEF Silence
<1>3. CASE client = "new"
  <2>1. Say("Handshake") /\ client' = "greeted"
    BY <1>3 DEF ClientStarts
  <2>2. pc = "receive" /\ m_state = "IDLE" /\ wire = << >> /\ Silence
    BY <1>3 DEF Stage, Greets, Asks, AsksFor, Pings, Configured, Plays, Says, IsTold, Rests
  <2>3. Quiet
    BY <2>2 DEF Quiet, Spent
  <2>4. Pending("Handshake")'
    BY <1>1, <2>1, <2>3, SayPending DEF Kinds
  <2>5. Says("greeted", "IDLE", "Handshake")'
    BY <1>1, <1>2, <2>1, <2>2, <2>4 DEF Says
  <2> QED BY <2>5 DEF Stage, Greets
<1>4. ASSUME client = "greeted", NEW kind \in Kinds, NEW state, NEW serverState, NEW answer,
             Say(kind), client' = state,
             Says("greeted", "IDLE", "Handshake") \/ AsksFor(state, serverState, kind, answer),
             state # "greeted"
      PROVE  AsksFor(state, serverState, kind, answer)'
  <2>1. CASE Says("greeted", "IDLE", "Handshake")
    <3>1. Second(kind)'
      BY <1>1, <1>4, <2>1, SaySecond DEF Says
    <3> QED BY <1>1, <1>2, <1>4, <2>1, <3>1 DEF AsksFor, Says
  <2>2. CASE Rests("greeted", serverState)
    <3>1. Pending(kind)'
      BY <1>1, <1>4, <2>2, SayPending DEF Rests
    <3>2. Says(state, serverState, kind)'
      BY <1>1, <1>2, <1>4, <2>2, <3>1 DEF Rests, Says
    <3> QED BY <3>2 DEF AsksFor
  <2> QED BY <1>4, <2>1, <2>2 DEF AsksFor, Says, IsTold
<1>5. CASE client = "greeted" /\ self.intent = "ping"
  <2>1. Say("StatusRequest") /\ client' = "asking"
    BY <1>5 DEF ClientStarts
  <2>2. \/ Says("greeted", "IDLE", "Handshake")
        \/ AsksFor("asking", "STATUS", "StatusRequest", "Status")
    BY <1>5 DEF Stage, Greets, Asks, Pings, Configured, Plays, Says, IsTold, Rests
  <2>3. AsksFor("asking", "STATUS", "StatusRequest", "Status")'
    BY <1>4, <1>5, <2>1, <2>2 DEF Kinds
  <2> QED BY <1>1, <1>5, <2>3 DEF Stage, Asks
<1>6. CASE client = "greeted" /\ self.intent = "play"
  <2>1. Say("LoginStart") /\ client' = "login"
    BY <1>6 DEF ClientStarts
  <2>2. \/ Says("greeted", "IDLE", "Handshake")
        \/ AsksFor("login", "LOGIN", "LoginStart", "LoginSuccess")
    BY <1>6 DEF Stage, Greets, Asks, Pings, Configured, Plays, Says, IsTold, Rests
  <2>3. AsksFor("login", "LOGIN", "LoginStart", "LoginSuccess")'
    BY <1>4, <1>6, <2>1, <2>2 DEF Kinds
  <2> QED BY <1>1, <1>6, <2>3 DEF Stage, Asks
<1> QED BY <1>3, <1>5, <1>6 DEF ClientStarts

\* What is left of a sequence.
LEMMA TailIs ==
  ASSUME NEW s \in Seq(Message), s # << >>, NEW t, t = Tail(s)
  PROVE  /\ Len(s) \in Nat /\ Len(s) >= 1 /\ t \in Seq(Message) /\ Len(t) = Len(s) - 1
         /\ Head(s) = s[1] /\ Head(s) \in Message
         /\ \A i \in 1..Len(t) : t[i] = s[i + 1]
         /\ t # << >> => Len(s) > 1
<1>1. /\ Len(s) \in Nat \ {0} /\ t \in Seq(Message) /\ Len(t) = Len(s) - 1
      /\ Head(s) = s[1] /\ \A i \in 1..Len(t) : t[i] = s[i + 1]
  BY EmptySeq, HeadTailProperties
<1>2. Head(s) \in Message
  BY HeadTailProperties
<1>3. ASSUME t # << >> PROVE Len(s) > 1
  <2>1. Len(t) # 0
    BY <1>1, <1>3, EmptySeq
  <2> QED BY <1>1, <2>1
<1> QED BY <1>1, <1>2, <1>3

\* Whatever a sequence is made of, what is left of it is too.
LEMMA TailOnly ==
  ASSUME NEW s \in Seq(Message), s # << >>, NEW t, t = Tail(s), NEW types, Only(s, types)
  PROVE  Only(t, types) /\ Head(s).type \in types
<1>1. /\ Len(s) \in Nat /\ Len(s) >= 1 /\ Len(t) = Len(s) - 1
      /\ Head(s) = s[1] /\ \A i \in 1..Len(t) : t[i] = s[i + 1]
  BY TailIs
<1> DEFINE n == Len(s)
           k == Len(t)
<1>2. n \in Nat /\ n >= 1 /\ k = n - 1
  BY <1>1
<1> HIDE DEF n, k
<1>3. 1 \in 1..n /\ \A i \in 1..k : i + 1 \in 1..n
  BY <1>2
<1> QED BY <1>1, <1>3 DEF Only, n, k

\* The end of the configuration is the last of its messages.
LEMMA TailOrdered ==
  ASSUME NEW s \in Seq(Message), s # << >>, NEW t, t = Tail(s), Ordered(s)
  PROVE  /\ Ordered(t) /\ Head(s).type \in {"Registry", "Finish"}
         /\ Head(s).type = "Finish" => t = << >>
<1>1. /\ Len(s) \in Nat /\ Len(s) >= 1 /\ Len(t) = Len(s) - 1 /\ t \in Seq(Message)
      /\ Head(s) = s[1] /\ \A i \in 1..Len(t) : t[i] = s[i + 1]
  BY TailIs
<1>2. Only(t, {"Registry", "Finish"}) /\ Head(s).type \in {"Registry", "Finish"}
  BY TailOnly DEF Ordered
<1> DEFINE n == Len(s)
           k == Len(t)
<1>3. n \in Nat /\ n >= 1 /\ k = n - 1
  BY <1>1
<1>4. \A i \in 1..n : s[i].type = "Finish" => i = n
  BY DEF Ordered
<1>5. \A i \in 1..k : t[i] = s[i + 1]
  BY <1>1
<1> HIDE DEF n, k
<1>6. 1 \in 1..n /\ \A i \in 1..k : i + 1 \in 1..n /\ (i + 1 = n => i = k)
  BY <1>3
<1>7. \A i \in 1..k : t[i].type = "Finish" => i = k
  BY <1>4, <1>5, <1>6
<1>8. ASSUME Head(s).type = "Finish" PROVE t = << >>
  <2>1. k = 0
    BY <1>1, <1>3, <1>4, <1>6, <1>8
  <2> QED BY <1>1, <2>1, EmptySeq DEF k
<1> QED BY <1>2, <1>7, <1>8 DEF Ordered, k

\* Once a position is sent, only positions follow.
LEMMA TailSyncs ==
  ASSUME NEW s \in Seq(Message), s # << >>, NEW t, t = Tail(s), SyncsLast(s)
  PROVE  SyncsLast(t) /\ (Head(s).type = "Sync" => Only(t, {"Sync"}))
<1>1. /\ Len(s) \in Nat /\ Len(s) >= 1 /\ Len(t) = Len(s) - 1
      /\ Head(s) = s[1] /\ \A i \in 1..Len(t) : t[i] = s[i + 1]
  BY TailIs
<1> DEFINE n == Len(s)
           k == Len(t)
<1>2. n \in Nat /\ n >= 1 /\ k = n - 1 /\ \A i \in 1..k : t[i] = s[i + 1]
  BY <1>1
<1>3. \A i, j \in 1..n : i <= j /\ s[i].type = "Sync" => s[j].type = "Sync"
  BY DEF SyncsLast
<1> HIDE DEF n, k
<1>4. /\ 1 \in 1..n
      /\ \A i \in 1..k : i + 1 \in 1..n /\ 1 <= i + 1
      /\ \A i, j \in 1..k : i <= j => i + 1 <= j + 1
  BY <1>2
<1>5. \A i, j \in 1..k : i <= j /\ t[i].type = "Sync" => t[j].type = "Sync"
  <2> SUFFICES ASSUME NEW i \in 1..k, NEW j \in 1..k, i <= j, t[i].type = "Sync"
               PROVE  t[j].type = "Sync"
    OBVIOUS
  <2>1. i + 1 \in 1..n /\ j + 1 \in 1..n /\ i + 1 <= j + 1
    BY <1>4
  <2>2. s[i + 1].type = "Sync" => s[j + 1].type = "Sync"
    BY <1>3, <2>1
  <2> QED BY <1>2, <2>2
<1>6. Head(s).type = "Sync" => \A i \in 1..k : t[i].type = "Sync"
  BY <1>1, <1>2, <1>3, <1>4
<1> QED BY <1>5, <1>6 DEF SyncsLast, Only, k

\* One more message.
LEMMA AppendIs ==
  ASSUME NEW s \in Seq(Message), NEW m \in Message, NEW u, u = Append(s, m)
  PROVE  /\ Len(s) \in Nat /\ Len(u) = Len(s) + 1
         /\ \A i \in 1..Len(s) : u[i] = s[i]
         /\ u[Len(s) + 1] = m
OBVIOUS

\* One more of a kind leaves them all of that kind.
LEMMA AppendOnly ==
  ASSUME NEW s \in Seq(Message), NEW m \in Message, NEW u, u = Append(s, m),
         NEW types, Only(s, types), m.type \in types
  PROVE  Only(u, types)
<1>1. /\ Len(s) \in Nat /\ Len(u) = Len(s) + 1
      /\ \A i \in 1..Len(s) : u[i] = s[i]
      /\ u[Len(s) + 1] = m
  BY AppendIs
<1> DEFINE n == Len(s)
<1>2. n \in Nat
  BY <1>1
<1> HIDE DEF n
<1>3. \A i \in 1..(n + 1) : i = n + 1 \/ i \in 1..n
  BY <1>2
<1> QED BY <1>1, <1>3 DEF Only, n

\* Behind registries another one or the end of the configuration keeps the order.
LEMMA AppendOrdered ==
  ASSUME NEW s \in Seq(Message), NEW m \in Message, NEW u, u = Append(s, m),
         Only(s, {"Registry"}), m.type \in {"Registry", "Finish"}
  PROVE  Ordered(u)
<1>1. /\ Len(s) \in Nat /\ Len(u) = Len(s) + 1
      /\ \A i \in 1..Len(s) : u[i] = s[i]
      /\ u[Len(s) + 1] = m
  BY AppendIs
<1> DEFINE n == Len(s)
<1>2. n \in Nat /\ \A i \in 1..n : s[i].type = "Registry"
  BY <1>1 DEF Only
<1>3. Len(u) = n + 1 /\ u[n + 1] = m /\ \A i \in 1..n : u[i] = s[i]
  BY <1>1
<1> HIDE DEF n
<1>4. \A i \in 1..(n + 1) : i = n + 1 \/ i \in 1..n
  BY <1>2
<1>5. \A i \in 1..(n + 1) : u[i].type \in {"Registry", "Finish"}
  BY <1>2, <1>3, <1>4
<1>6. \A i \in 1..(n + 1) : u[i].type = "Finish" => i = n + 1
  BY <1>2, <1>3, <1>4
<1> QED BY <1>3, <1>5, <1>6 DEF Ordered, Only

\* One more position keeps the positions last.
LEMMA AppendSyncs ==
  ASSUME NEW s \in Seq(Message), NEW m \in Message, NEW u, u = Append(s, m),
         SyncsLast(s), m.type = "Sync"
  PROVE  SyncsLast(u)
<1>1. /\ Len(s) \in Nat /\ Len(u) = Len(s) + 1
      /\ \A i \in 1..Len(s) : u[i] = s[i]
      /\ u[Len(s) + 1] = m
  BY AppendIs
<1> DEFINE n == Len(s)
<1>2. n \in Nat /\ \A i, j \in 1..n : i <= j /\ s[i].type = "Sync" => s[j].type = "Sync"
  BY <1>1 DEF SyncsLast
<1>3. Len(u) = n + 1 /\ u[n + 1] = m /\ \A i \in 1..n : u[i] = s[i]
  BY <1>1
<1> HIDE DEF n
<1>4. \A i, j \in 1..(n + 1) : i <= j => j = n + 1 \/ (i \in 1..n /\ j \in 1..n)
  BY <1>2
<1>5. \A i, j \in 1..(n + 1) : i <= j /\ u[i].type = "Sync" => u[j].type = "Sync"
  <2> SUFFICES ASSUME NEW i \in 1..(n + 1), NEW j \in 1..(n + 1), i <= j, u[i].type = "Sync"
               PROVE  u[j].type = "Sync"
    OBVIOUS
  <2>1. CASE j = n + 1
    BY <1>3, <2>1
  <2>2. CASE i \in 1..n /\ j \in 1..n
    BY <1>2, <1>3, <2>2
  <2> QED BY <1>4, <2>1, <2>2
<1> QED BY <1>3, <1>5 DEF SyncsLast

\* The client handles a message.
LEMMA HandlesStage ==
  ASSUME SInv, Stage, ClientHandles
  PROVE  Stage'
<1>1. /\ UNCHANGED <<vars, self>> /\ UNCHANGED <<pc, m_state, todo, packetsIter, recv>>
      /\ inbox # << >> /\ inbox \in Seq(Message) /\ inbox' = Tail(inbox)
  BY DEF ClientHandles, vars, buffer, SInv, SessionTypeOK
<1>2. ASSUME NEW r, r = Reaction(client, Head(inbox))
      PROVE  /\ client' = r[1]
             /\ IF r[2] = Silent THEN wire' = wire ELSE Say(r[2])
  BY <1>2 DEF ClientHandles
<1>3. ASSUME Quiet, wire' = wire PROVE Quiet'
  BY <1>1, <1>3 DEF Quiet, Spent
<1>4. ASSUME NEW kind \in Kinds, Quiet, Say(kind), NEW state, client' = state,
             NEW serverState, m_state = serverState, Silence'
      PROVE  Says(state, serverState, kind)'
  <2>1. Pending(kind)'
    BY <1>1, <1>4, SayPending
  <2> QED BY <1>1, <1>4, <2>1 DEF Says
<1>5. ASSUME NEW state, NEW serverState, NEW type, IsTold(state, serverState, type)
      PROVE  /\ client = state /\ m_state = serverState /\ Quiet
             /\ Head(inbox).type = type /\ Silence'
  <2>1. One(inbox, type) /\ todo = << >>
    BY <1>1, <1>5 DEF IsTold, Told
  <2>2. /\ Len(inbox) \in Nat /\ Len(inbox') = Len(inbox) - 1 /\ inbox' \in Seq(Message)
        /\ Head(inbox) = inbox[1]
    BY <1>1, TailIs
  <2>3. Len(inbox') = 0
    BY <2>1, <2>2 DEF One
  <2>4. inbox' = << >>
    BY <2>2, <2>3, EmptySeq
  <2> QED BY <1>1, <1>5, <2>1, <2>2, <2>4 DEF IsTold, One, Silence
<1>6. \A state, serverState, kind : ~Says(state, serverState, kind)
  BY <1>1 DEF Says, Silence
<1>7. \A state, serverState : ~Rests(state, serverState)
  BY <1>1 DEF Rests, Silence
<1>8. CASE Greets
  BY <1>1, <1>6, <1>8 DEF Greets, Silence
<1>9. CASE Asks
  <2>1. CASE IsTold("asking", "STATUS", "Status")
    <3>1. client = "asking" /\ m_state = "STATUS" /\ Quiet /\ Head(inbox).type = "Status" /\ Silence'
      BY <1>5, <2>1
    <3>2. Reaction(client, Head(inbox)) = <<"pinging", "Ping">>
      BY <3>1 DEF Reaction
    <3>3. client' = "pinging" /\ Say("Ping")
      BY <1>2, <3>2 DEF Silent
    <3>4. Says("pinging", "STATUS", "Ping")'
      BY <1>4, <3>1, <3>3 DEF Kinds
    <3> QED BY <3>4 DEF Stage, Pings
  <2>2. CASE IsTold("login", "LOGIN", "LoginSuccess")
    <3>1. client = "login" /\ m_state = "LOGIN" /\ Quiet /\ Head(inbox).type = "LoginSuccess" /\ Silence'
      BY <1>5, <2>2
    <3>2. Reaction(client, Head(inbox)) = <<"config", "LoginAck">>
      BY <3>1 DEF Reaction
    <3>3. client' = "config" /\ Say("LoginAck")
      BY <1>2, <3>2 DEF Silent
    <3>4. Says("config", "LOGIN", "LoginAck")'
      BY <1>4, <3>1, <3>3 DEF Kinds
    <3> QED BY <3>4 DEF Stage, Configured
  <2> QED BY <1>1, <1>6, <1>7, <1>9, <2>1, <2>2 DEF Asks, AsksFor, Silence
<1>10. CASE Pings
  <2>1. IsTold("pinging", "STATUS", "Pong")
    BY <1>6, <1>7, <1>10 DEF Pings
  <2>2. client = "pinging" /\ m_state = "STATUS" /\ Quiet /\ Head(inbox).type = "Pong" /\ Silence'
    BY <1>5, <2>1
  <2>3. Reaction(client, Head(inbox)) = <<"pinged", Silent>>
    BY <2>2 DEF Reaction
  <2>4. client' = "pinged" /\ wire' = wire
    BY <1>2, <2>3
  <2>5. Rests("pinged", "STATUS")'
    BY <1>1, <1>3, <2>2, <2>4 DEF Rests
  <2> QED BY <2>5 DEF Stage, Pings
<1>11. CASE Configured
  <2>1. CASE IsTold("config", "CONFIG", "KnownPacks")
    <3>1. client = "config" /\ m_state = "CONFIG" /\ Quiet /\ Head(inbox).type = "KnownPacks" /\ Silence'
      BY <1>5, <2>1
    <3>2. Reaction(client, Head(inbox)) = <<"config", "KnownPacks">>
      BY <3>1 DEF Reaction
    <3>3. client' = "config" /\ Say("KnownPacks")
      BY <1>2, <3>2 DEF Silent
    <3>4. Says("config", "CONFIG", "KnownPacks")'
      BY <1>4, <3>1, <3>3 DEF Kinds
    <3> QED BY <3>4 DEF Stage, Configured
  <2>2. CASE client = "config" /\ m_state = "CONFIG" /\ Quiet /\ Configures
    <3>1. /\ Ordered(inbox') /\ Head(inbox).type \in {"Registry", "Finish"}
          /\ Head(inbox).type = "Finish" => inbox' = << >>
      BY <1>1, <2>2, TailOrdered DEF Configures
    <3>2. todo # << >> => Only(inbox', {"Registry"}) /\ Head(inbox).type \in {"Registry"}
      BY <1>1, <2>2, TailOnly DEF Configures
    <3>3. CASE Head(inbox).type = "Registry"
      <4>1. Reaction(client, Head(inbox)) = <<"config", Silent>>
        BY <2>2, <3>3 DEF Reaction
      <4>2. client' = "config" /\ wire' = wire
        BY <1>2, <4>1
      <4>3. Configures'
        BY <1>1, <2>2, <3>1, <3>2 DEF Configures, Ordered, Only
      <4> QED BY <1>1, <1>3, <2>2, <4>2, <4>3 DEF Stage, Configured
    <3>4. CASE Head(inbox).type = "Finish"
      <4>1. Reaction(client, Head(inbox)) = <<"play", "AckConfig">>
        BY <2>2, <3>4 DEF Reaction
      <4>2. client' = "play" /\ Say("AckConfig")
        BY <1>2, <4>1 DEF Silent
      <4>3. Silence'
        BY <1>1, <3>1, <3>2, <3>4 DEF Silence
      <4>4. Says("play", "CONFIG", "AckConfig")'
        BY <1>4, <2>2, <4>2, <4>3 DEF Kinds
      <4> QED BY <4>4 DEF Stage, Configured
    <3> QED BY <3>1, <3>3, <3>4
  <2> QED BY <1>6, <1>11, <2>1, <2>2 DEF Configured
<1>12. CASE Plays
  <2>1. client \in {"play", "joined"} /\ m_state = "PLAY" /\ Only(todo, Shown)
    BY <1>12 DEF Plays, Joining
  <2>2. Only(todo', Shown)
    BY <1>1, <2>1 DEF Only
  <2>3. CASE pc # "playloop"
    <3>1. client = "play" /\ Only(inbox, Shown)
      BY <1>12, <2>3 DEF Plays, Joining
    <3>2. Only(inbox', Shown) /\ Head(inbox).type \in Shown
      BY <1>1, <3>1, TailOnly
    <3>3. Reaction(client, Head(inbox)) = <<"play", Silent>>
      BY <3>1, <3>2 DEF Reaction, Shown
    <3>4. client' = "play"
      BY <1>2, <3>3
    <3>5. Joining'
      BY <1>1, <2>2, <2>3, <3>2, <3>4 DEF Joining, Only
    <3> QED BY <1>1, <2>1, <3>4, <3>5 DEF Stage, Plays
  <2>4. CASE pc = "playloop"
    <3> DEFINE both == Shown \cup {"Sync"}
    <3>1. /\ todo = << >> /\ Only(inbox, both) /\ SyncsLast(inbox)
          /\ client = "joined" => Only(inbox, {"Sync"})
      BY <1>12, <2>4 DEF Plays, Joining
    <3> HIDE DEF both
    <3>2. /\ Only(inbox', both) /\ Head(inbox).type \in both
      BY <1>1, <3>1, TailOnly
    <3>3. SyncsLast(inbox') /\ (Head(inbox).type = "Sync" => Only(inbox', {"Sync"}))
      BY <1>1, <3>1, TailSyncs
    <3>4. client = "joined" => Head(inbox).type = "Sync"
      BY <1>1, <3>1, TailOnly
    <3>5. client' \in {"play", "joined"} /\ (client' = "joined" => Only(inbox', {"Sync"}))
      <4>1. CASE Head(inbox).type = "Sync"
        <5>1. Reaction(client, Head(inbox)) = <<"joined", Silent>>
          BY <2>1, <4>1 DEF Reaction
        <5>2. client' = "joined"
          BY <1>2, <5>1
        <5> QED BY <3>3, <4>1, <5>2
      <4>2. CASE Head(inbox).type # "Sync"
        <5>1. client = "play" /\ Head(inbox).type \in Shown
          BY <2>1, <3>2, <3>4, <4>2 DEF both
        <5>2. Reaction(client, Head(inbox)) = <<"play", Silent>>
          BY <5>1 DEF Reaction, Shown
        <5>3. client' = "play"
          BY <1>2, <5>2
        <5> QED BY <5>3
      <4> QED BY <4>1, <4>2
    <3>6. Joining'
      BY <1>1, <2>2, <2>4, <3>1, <3>2, <3>3, <3>5 DEF Joining, Only, SyncsLast, both
    <3> QED BY <1>1, <2>1, <3>5, <3>6 DEF Stage, Plays
  <2> QED BY <2>3, <2>4
<1> QED BY <1>8, <1>9, <1>10, <1>11, <1>12 DEF Stage

\* The server sends.
LEMMA SendsStage ==
  ASSUME SInv, Stage, peerOpen, ServerSends
  PROVE  Stage'
<1>1. /\ UNCHANGED <<self, client, wire, ends, m_state, packetsIter, recv>>
      /\ todo \in Seq(Message) /\ inbox \in Seq(Message) /\ client' = client
  BY DEF ServerSends, Send, PlayLoop, buffer, SInv, SessionTypeOK, IInv, TypeOK
<1>2. \/ /\ pc = "send" /\ todo # << >> /\ todo' = Tail(todo)
         /\ inbox' = Append(inbox, Head(todo))
         /\ pc' = IF todo' = << >> THEN AfterBatch(Head(todo)) ELSE "send"
      \/ /\ pc = "playloop" /\ m_state = "PLAY" /\ pc' = pc /\ todo' = todo
         /\ inbox' = Append(inbox, Msg("Sync", 0))
  BY DEF ServerSends, Send, PlayLoop, SInv, IInv, InvSend, InvJoin
<1>3. m_state # "PLAY" => pc = "send" /\ ~Silence
  BY <1>2 DEF Silence
<1>4. Quiet /\ m_state # "PLAY" => Quiet'
  BY <1>1, <1>2 DEF Quiet, Spent, Ended
<1>5. ASSUME NEW state, NEW serverState, NEW type, IsTold(state, serverState, type),
             serverState # "PLAY"
      PROVE  IsTold(state, serverState, type)'
  <2>1. pc = "send" /\ todo # << >> /\ todo' = Tail(todo) /\ inbox' = Append(inbox, Head(todo))
    BY <1>2, <1>5 DEF IsTold
  <2>2. inbox = << >> /\ One(todo, type)
    BY <1>5, <2>1 DEF IsTold, Told
  <2>3. /\ Len(todo) \in Nat /\ Len(todo') = Len(todo) - 1 /\ todo' \in Seq(Message)
        /\ Head(todo) = todo[1] /\ Head(todo) \in Message
    BY <1>1, <2>1, TailIs
  <2>4. Len(todo') = 0
    BY <2>2, <2>3 DEF One
  <2>5. todo' = << >>
    BY <2>3, <2>4, EmptySeq
  <2>6. Len(inbox) = 0
    BY <1>1, <2>2, EmptySeq
  <2>7. Len(inbox') = Len(inbox) + 1 /\ inbox'[Len(inbox) + 1] = Head(todo)
    BY <1>1, <2>1, <2>3, AppendIs
  <2>8. Len(inbox') = 1 /\ inbox'[1] = Head(todo)
    BY <2>6, <2>7
  <2>9. One(inbox', type)
    BY <2>2, <2>3, <2>8 DEF One
  <2> QED BY <1>1, <1>4, <1>5, <2>5, <2>9 DEF IsTold, Told, One
<1>6. \A state, serverState, kind : serverState # "PLAY" => ~Says(state, serverState, kind)
  BY <1>3 DEF Says
<1>7. \A state, serverState : serverState # "PLAY" => ~Rests(state, serverState)
  BY <1>3 DEF Rests
<1>8. CASE Greets
  BY <1>3, <1>6, <1>8 DEF Greets
<1>9. CASE Asks
  <2>1. CASE self.intent = "ping"
    <3>1. IsTold("asking", "STATUS", "Status")
      BY <1>3, <1>6, <1>7, <1>9, <2>1 DEF Asks, AsksFor
    <3>2. IsTold("asking", "STATUS", "Status")'
      BY <1>5, <3>1
    <3> QED BY <1>1, <2>1, <3>2 DEF Stage, Asks, AsksFor
  <2>2. CASE self.intent # "ping"
    <3>1. IsTold("login", "LOGIN", "LoginSuccess")
      BY <1>3, <1>6, <1>7, <1>9, <2>2 DEF Asks, AsksFor
    <3>2. IsTold("login", "LOGIN", "LoginSuccess")'
      BY <1>5, <3>1
    <3> QED BY <1>1, <2>2, <3>2 DEF Stage, Asks, AsksFor
  <2> QED BY <2>1, <2>2
<1>10. CASE Pings
  <2>1. IsTold("pinging", "STATUS", "Pong")'
    BY <1>5, <1>6, <1>7, <1>10 DEF Pings
  <2> QED BY <2>1 DEF Stage, Pings
<1>11. CASE Configured
  <2>1. CASE IsTold("config", "CONFIG", "KnownPacks")
    BY <1>5, <2>1 DEF Stage, Configured
  <2>2. CASE client = "config" /\ m_state = "CONFIG" /\ Quiet /\ Configures
    <3>1. pc = "send" /\ todo # << >> /\ todo' = Tail(todo) /\ inbox' = Append(inbox, Head(todo))
      BY <1>2, <2>2
    <3>2. /\ Ordered(todo') /\ Head(todo).type \in {"Registry", "Finish"}
          /\ Head(todo).type = "Finish" => todo' = << >>
      BY <1>1, <2>2, <3>1, TailOrdered DEF Configures
    <3>3. Head(todo) \in Message
      BY <1>1, <3>1, TailIs
    <3>4. Only(inbox, {"Registry"})
      BY <2>2, <3>1 DEF Configures
    <3>5. Ordered(inbox')
      BY <1>1, <3>1, <3>2, <3>3, <3>4, AppendOrdered
    <3>6. todo' # << >> => Only(inbox', {"Registry"})
      <4>1. Head(todo).type = "Registry" => Only(inbox', {"Registry"})
        BY <1>1, <3>1, <3>3, <3>4, AppendOnly
      <4> QED BY <3>2, <4>1
    <3>7. Configures'
      BY <3>2, <3>5, <3>6 DEF Configures, Ordered, Only
    <3> QED BY <1>1, <1>4, <2>2, <3>7 DEF Stage, Configured
  <2> QED BY <1>6, <1>11, <2>1, <2>2 DEF Configured
<1>12. CASE Plays
  <2>1. client \in {"play", "joined"} /\ m_state = "PLAY" /\ Only(todo, Shown)
    BY <1>12 DEF Plays, Joining
  <2>2. CASE pc = "send" /\ todo # << >> /\ todo' = Tail(todo) /\ inbox' = Append(inbox, Head(todo))
             /\ pc' = IF todo' = << >> THEN AfterBatch(Head(todo)) ELSE "send"
    <3>1. client = "play" /\ Only(inbox, Shown)
      BY <1>12, <2>2 DEF Plays, Joining
    <3>2. Only(todo', Shown) /\ Head(todo).type \in Shown
      BY <1>1, <2>1, <2>2, TailOnly
    <3>3. Head(todo) \in Message
      BY <1>1, <2>2, TailIs
    <3>4. Only(inbox', Shown)
      BY <1>1, <2>2, <3>1, <3>2, <3>3, AppendOnly
    <3>5. Only(inbox', Shown \cup {"Sync"}) /\ SyncsLast(inbox')
      BY <3>4 DEF Only, SyncsLast, Shown
    <3>6. pc' = "playloop" => todo' = << >>
      BY <2>2
    <3>7. Joining'
      BY <1>1, <3>1, <3>2, <3>4, <3>5, <3>6 DEF Joining, Only, SyncsLast
    <3> QED BY <1>1, <2>1, <3>7 DEF Stage, Plays
  <2>3. CASE pc = "playloop" /\ pc' = pc /\ todo' = todo /\ inbox' = Append(inbox, Msg("Sync", 0))
    <3> DEFINE m == Msg("Sync", 0)
               both == Shown \cup {"Sync"}
    <3>1. m \in Message /\ m.type = "Sync" /\ m.type \in both
      BY DEF Message, Single, Msg
    <3>2. /\ todo = << >> /\ Only(inbox, both) /\ SyncsLast(inbox)
          /\ client = "joined" => Only(inbox, {"Sync"})
      BY <1>12, <2>3 DEF Plays, Joining
    <3>3. inbox' = Append(inbox, m)
      BY <2>3
    <3> HIDE DEF m, both
    <3>4. Only(inbox', both)
      BY <1>1, <3>1, <3>2, <3>3, AppendOnly
    <3>5. SyncsLast(inbox')
      BY <1>1, <3>1, <3>2, <3>3, AppendSyncs
    <3>6. client = "joined" => Only(inbox', {"Sync"})
      BY <1>1, <3>1, <3>2, <3>3, AppendOnly
    <3>7. Joining'
      BY <1>1, <2>1, <2>3, <3>2, <3>4, <3>5, <3>6 DEF Joining, Only, SyncsLast, both
    <3> QED BY <1>1, <2>1, <3>7 DEF Stage, Plays
  <2> QED BY <1>2, <2>2, <2>3
<1> QED BY <1>8, <1>9, <1>10, <1>11, <1>12 DEF Stage

-----------------------------------------------------------------------------
(* UInv is inductive while old bytes are ignored.                          *)

\* A session begins with the client's turn.
LEMMA UnderstandsInit == SessionInit => UInv
<1> SUFFICES ASSUME SessionInit PROVE UInv
  OBVIOUS
<1>1. SInv
  BY SessionTypedInit
<1>2. /\ client = "new" /\ pc = "receive" /\ m_state = "IDLE" /\ wire = << >>
      /\ inbox = << >> /\ todo = << >> /\ peerOpen = TRUE
  BY DEF SessionInit, Init
<1>3. Stage
  BY <1>2 DEF Stage, Greets, Silence
<1> QED BY <1>1, <1>2, <1>3 DEF UInv

\* A step of a client that stays leaves it in a stage.
LEMMA StepStage ==
  ASSUME SInv, SInv', Stage, peerOpen, peerOpen', tears = 0, tears' = 0, OldBytesIgnored,
         SessionNext
  PROVE  Stage'
<1>1. ~ClientCloses /\ ~ServerSeesClose
  BY DEF ClientCloses, ClientLeaves, ServerSeesClose, ReceiveNothing
<1>2. CASE ClientStarts
  BY <1>2, StartsStage
<1>3. CASE ClientHandles
  BY <1>3, HandlesStage
<1>4. CASE ServerReceives
  BY <1>4, ReceivesStage
<1>5. CASE ServerWorks
  BY <1>5, WorksStage
<1>6. CASE ServerSends
  BY <1>6, SendsStage
<1> QED BY <1>1, <1>2, <1>3, <1>4, <1>5, <1>6 DEF SessionNext

\* Nothing but its own step closes the client's end, and no packet is mended.
LEMMA StepEnds ==
  ASSUME SInv, SInv', peerOpen <=> client # "left", SessionNext
  PROVE  /\ peerOpen' <=> client' # "left"
         /\ peerOpen' => peerOpen
         /\ tears' = 0 => tears = 0
<1>1. tears \in Nat /\ peerOpen \in BOOLEAN /\ peerOpen' \in BOOLEAN
  BY MaxTearsAssumption DEF SInv, SessionTypeOK, IInv, TypeOK
<1>2. CASE ClientStarts
  BY <1>2 DEF ClientStarts, vars, context
<1>3. CASE ClientHandles
  <2>1. UNCHANGED <<peerOpen, tears>> /\ peerOpen /\ client' = Reaction(client, Head(inbox))[1]
    BY <1>3 DEF ClientHandles, vars, context
  <2>2. client' # "left"
    BY <2>1, ReactionCases
  <2> QED BY <2>1, <2>2
<1>4. CASE ClientCloses
  BY <1>4 DEF ClientCloses, ClientLeaves
<1>5. CASE ServerReceives
  <2>1. UNCHANGED <<peerOpen, client>>
    BY <1>5 DEF ServerReceives, Deliver, Receive, context
  <2>2. tears' = tears \/ tears' = tears + 1
    BY <1>5 DEF ServerReceives
  <2> QED BY <1>1, <2>1, <2>2
<1>6. CASE ServerSeesClose
  BY <1>6 DEF ServerSeesClose, ReceiveNothing, session, context
<1>7. CASE ServerWorks
  <2>1. UNCHANGED <<client, tears>>
    BY <1>7 DEF ServerWorks, session
  <2>2. peerOpen' = peerOpen
    BY <1>7 DEF ServerWorks, Execute, ExecuteReturns, ExecuteThrows, ExecuteFaults, Dispatch,
                OnHandshake, OnStatusRequest, OnPing, OnLoginStart, OnLoginAck, OnKnownPacks,
                OnAckConfig, Handle, SendThrows, ReadChunk, ReadChunkThrows, context
  <2> QED BY <2>1, <2>2
<1>8. CASE ServerSends
  BY <1>8 DEF ServerSends, Send, PlayLoop, context
<1> QED BY <1>2, <1>3, <1>4, <1>5, <1>6, <1>7, <1>8 DEF SessionNext

\* Every step of the session preserves it.
LEMMA UnderstandsStep == UInv /\ OldBytesIgnored /\ [SessionNext]_allVars => UInv'
<1> SUFFICES ASSUME UInv, OldBytesIgnored, [SessionNext]_allVars PROVE UInv'
  OBVIOUS
<1>1. SInv /\ SInv'
  BY SessionTypedStep DEF UInv
<1>2. CASE UNCHANGED allVars
  <2>1. /\ UNCHANGED <<pc, m_state, todo, peerOpen>>
        /\ UNCHANGED <<self, client, said, wire, ends, inbox, tears>>
        /\ UNCHANGED <<data, recv, beyond, packetsIter>>
    BY <1>2 DEF allVars, vars, session, buffer, context
  <2>2. /\ Quiet' <=> Quiet
        /\ Silence' <=> Silence
        /\ Configures' <=> Configures
        /\ Joining' <=> Joining
    BY <2>1 DEF Quiet, Spent, Silence, Configures, Ordered, Only, Joining, SyncsLast
  <2>3. ASSUME NEW kind PROVE (Pending(kind)' <=> Pending(kind)) /\ (Second(kind)' <=> Second(kind))
    BY <2>1 DEF Pending, Second, Coming, Sits, Spent, Bytes, H
  <2>4. ASSUME NEW state, NEW serverState, NEW kind
        PROVE  Says(state, serverState, kind)' <=> Says(state, serverState, kind)
    BY <2>1, <2>2, <2>3 DEF Says
  <2>5. ASSUME NEW state, NEW serverState, NEW type
        PROVE  IsTold(state, serverState, type)' <=> IsTold(state, serverState, type)
    BY <2>1, <2>2 DEF IsTold, Told, One
  <2>6. ASSUME NEW state, NEW serverState
        PROVE  Rests(state, serverState)' <=> Rests(state, serverState)
    BY <2>1, <2>2 DEF Rests
  <2>7. ASSUME NEW state, NEW serverState, NEW kind, NEW answer
        PROVE  AsksFor(state, serverState, kind, answer)' <=> AsksFor(state, serverState, kind, answer)
    BY <2>1, <2>2, <2>3, <2>4, <2>5, <2>6 DEF AsksFor
  <2>8. (Greets' <=> Greets) /\ (Asks' <=> Asks)
    BY <2>1, <2>2, <2>4, <2>7 DEF Greets, Asks
  <2>9. (Pings' <=> Pings) /\ (Configured' <=> Configured) /\ (Plays' <=> Plays)
    BY <2>1, <2>2, <2>4, <2>5, <2>6 DEF Pings, Configured, Plays
  <2> QED BY <1>1, <2>1, <2>8, <2>9 DEF UInv, Stage
<1>3. CASE SessionNext
  <2>1. /\ peerOpen' <=> client' # "left"
        /\ peerOpen' => peerOpen
        /\ tears' = 0 => tears = 0
    BY <1>1, <1>3, StepEnds DEF UInv
  <2>2. tears' = 0 /\ peerOpen' => Stage'
    BY <1>1, <1>3, <2>1, StepStage DEF UInv
  <2> QED BY <1>1, <2>1, <2>2 DEF UInv
<1> QED BY <1>2, <1>3

\* Until a packet is cut in two the client is never sent what it cannot expect, for
\* every client and however packets are joined, provided that Execute takes no packet
\* from bytes that are left of an earlier Receive.
THEOREM Understood == SessionSpec /\ []OldBytesIgnored => []ClientUnderstands
<1>1. SessionInit => UInv
  BY UnderstandsInit
<1>2. UInv /\ OldBytesIgnored /\ [SessionNext]_allVars => UInv'
  BY UnderstandsStep
<1>3. UInv => ClientUnderstands
  <2> SUFFICES ASSUME UInv, tears = 0 PROVE client # "confused"
    BY DEF ClientUnderstands
  <2>1. peerOpen => Stage
    BY DEF UInv
  <2>2. ~peerOpen => client = "left"
    BY DEF UInv
  <2>3. Stage => client # "confused"
    BY DEF Stage, Greets, Asks, AsksFor, Pings, Configured, Plays, Says, IsTold, Rests
  <2> QED BY <2>1, <2>2, <2>3
<1> QED BY <1>1, <1>2, <1>3, PTL DEF SessionSpec
=============================================================================
