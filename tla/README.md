# A TLA+ model of minecraft-server

The repository is a small Minecraft server (protocol 772, game 1.21.8) in C++23.
A client connects, asks for the server's status or logs in, is configured, and is
then shown one chunk of a prepared world, repeated 16 x 16 times. This directory
holds a model of it in TLA+, the TLC runs that check it on small instances, and
theorems that TLAPS proves for every instance.

Paths below are relative to the repository's root.

## 1. The system

### 1.1 Components

| Component | State | Operations | Correct when |
|---|---|---|---|
| Connection loop, `MinecraftHanlder::HandleConnection` (src/MinecraftHandler.cpp) | the receive buffer `data` of `PACKET_SIZE` bytes, never cleared | `Receive`, then `Execute` over the WHOLE buffer; returns when `Receive` yields 0 | what Execute acts on is what the client sent |
| `PlayerHandler` (src/PlayerHandler.cpp, include/PlayerHandler.h) | `m_state` (IDLE, STATUS, LOGIN, CONFIG, PLAY); Execute's iterator | `Execute`, `OnIdle`, `OnStatus`, `OnLogin`, `OnConfig`, `OnPlay`, the five `NextPacket*` | the client gets the messages of the protocol in order; no client can make it loop, or move it where it did not ask to go |
| Client packets (include/ClientPackets.h, include/utils.h) | an iterator, advanced by reference | `readVarInt`, `readString`, packet constructors | a constructor consumes exactly its packet |
| Server packets (include/ServerPackets.h, src/ServerPackets.cpp) | fields | `Size`, `Serializer::Serialize` | the announced size is the number of bytes written |
| VarInt writer (src/utils.cpp) | a buffer and a position | both `writeVarInt` | reading gives back what was written |
| `ServerContext` (include/ServerContext.h) | 22 registry packets and a region of chunks, built before any connection, only read after | `BuildRegistryPackets`, `loadChunkRegion` | complete before use |
| NBT containers (include/DataTypes/nbt.h, src/DataTypes/nbt.cpp) | compounds and lists: owned tags, each allocated on its own, and the type of a list | insert, get, remove, copy, move, assign, writes through references | every tag has one owner; a copy is equal and independent; a reference stays good as long as its tag does |
| NBT parser and serializers (the same files) | a stream and the activations of `parseCompound` and `parseList`; none | `parse`; `Serialize` | parsing ends, holds what the stream announced, and inverts serialising |
| `BlockStateRegistry` (src/Registry.cpp, include/BlockState.h) | two maps, one instance | `Init`, `Deinit`, `MapState`, two lookups | the lookups invert each other, and hold what the file says |
| `Identifier`, `Position` (include/DataTypes) | a value | constructors, getters and setters | getters give what setters took |
| Chunk packet, `BitSet` (src/PlayerHandler.cpp, include/DataTypes/BitSet.h) | four masks and two sequences of light arrays | the loops of `OnConfig` | a client can tell which array is whose |
| main (src/main.cpp), the handler's constructor and `Stop` | the registry, the context, the server and its thread | start, wait for a key, stop, join, free | what threads read is complete and outlives them; the process ends |
| SFW, nlohmann-json, zstr | external | sockets, threads, JSON, inflate | - |

### 1.2 How they interact

main initialises the block registry and constructs an `iu::AggregateServer` of SFW,
whose handler loads the registry packets and the chunks into its `ServerContext`.
SFW accepts connections and calls `HandleConnection` for each, on a thread of its
own. That thread constructs a `PlayerHandler` with a reference to the connection
and to the context, and alternates between `Receive` and `Execute`. Connections
share the context and nothing else, and only read it: one connection at a time is
the whole interleaving there is between server threads. What is concurrent is the
client: it sends, stops reading or leaves between any two steps of the thread. The
exception is the start and the end of the process, where the main thread writes what
the others read: nothing but the order of main() keeps the two apart.

The region file is parsed by `NBT::parse` into compounds and lists, from which the loader
copies the height maps and the sections; `OnConfig` sends them with palettes of a single constant.
`BlockStateRegistry` is loaded and kept for handlers to read, but none of them does so yet.

`Execute` calls the `NextPacket*` of the state, which reads a size, an id and,
through a constructor, the packet; then the `On*` of the state handles it, which
sets `m_state` and sends. It goes on until `NextPacket*` returns null, which it does
for a size of zero or an id the state does not know.

### 1.3 What is hard

* TCP has no packet boundaries and the code assumes them: `Execute` is not told how
  much `Receive` wrote, old bytes stay in the buffer behind the new ones, a packet
  in two parts is never joined.
* The size of a packet bounds nothing; what a constructor reads is decided by the
  lengths inside the packet, and the iterator is never compared with the end.
* `OnConfig` answers an acknowledgement with about 260 sends and a loop without end,
  in a thread that the client can leave at any of them.
* Sizes are computed in one place and bytes written in another.
* Compounds and lists own their tags through raw and unique pointers, hand out references
  to them, are copied deep, merged and moved, and contain each other.
* The parser takes sizes and types from the stream and learns only from the stream's state
  that there is nothing more; a loop that trusted a size, or a read that failed, would not end.
* The equality of block states is not symmetric and their hash forgets kinds.
* A `Position`'s setter reads two packed and sign-extended coordinates back to pack them again.
* Exceptions (VarInt too big, a negative string length, a missing chunk) are caught
  by nobody in the repository.

Nothing is persisted, nothing is retried, and there are no timeouts: crash
recovery, duplicated requests and races of timeouts do not occur in this program.
PROJECT.json lists every hazard at its line, with the properties aimed at it.

## 2. The modules

```
Server                start and stop of the process, with connections as SFW runs them
BlockStateRegistry    block states to ids and back, loaded from a file
  Process             Server and BlockStateRegistry: main loads and frees the registry
Messages              the messages a server sends
  SessionContract     the order in which a client may see them   (abstract specification)
    Framing           announced sizes against written bytes
Wire                  reading a client's bytes
  PlayerHandler       one connection            (implements SessionContract)
    Session           ... with a real client and TCP around it
  VarIntWriter        writing a VarInt, read back by Wire
ChunkRegion           loading the region file whose chunk PlayerHandler sends
ChunkPacket           the light masks of the packet that holds it
NBTCompoundValues     compounds as values       (abstract specification)
  NBTCompound         compounds in memory
    NBTCompoundMeaning  ... and the values they stand for (implements NBTCompoundValues)
NBTListValues         lists as values           (abstract specification)
  NBTList             lists in memory           (implements NBTListValues)
NBTParser             NBT::parse on any stream
  NBTCodec            ... on what the serializers write, whole or cut
    NBTTruncation     ... and what becomes of a cut one
Position              three coordinates in one number
<X>Proofs             theorems: ConnectionProofs (PlayerHandler, Session), ProcessProofs
                      (Server, BlockStateRegistry, Process), ServerPacketProofs (Framing,
                      ChunkPacket), NumberProofs (VarIntWriter, Position), ChunkRegionProofs,
                      NBTCompoundProofs, NBTListProofs, NBTParserProofs
MC<X>                 constants of X for TLC
```

**Wire** holds the reads as functions from an iterator to an iterator, a record of
an outcome (`ok`, `throw`, `fault`), a position and the value read. Memory is a
finite sequence of bytes. VarInts are computed bit for bit: up to five bytes, of
the fifth only four bits, the highest of them the sign; a sixth byte throws. A
string is its length and a uuid or payload the bytes it covers, because nothing else
of them steers the program. Reading past the end of memory is `fault`: in C++ it is
undefined, and what lies behind the buffer is a nondeterministic sequence (`Beyond`,
chosen anew with every receive), so that both a crash and a read of foreign bytes
are outcomes.

**PlayerHandler** has one action for a Receive that returns bytes (`Receive`), one
for a Receive that returns none, one per packet kind (`OnHandshake`,
`OnStatusRequest`, `OnPing`, `OnLoginStart`, `OnLoginAck`, `OnKnownPacks`,
`OnAckConfig`), one per outcome of a null packet, a throw and a fault, one for the
chunk lookup, one per `Send` and one for the endless loop. A handler's assignments
happen in its own action, its Sends one by one afterwards (`todo`), because the
client may leave between two of them. `pc` is the place of the thread.
`OnPlay` and `NextPacketPlay` have no action: PLAY is only entered in the middle of
`OnConfig`, which never returns to Execute, and `DeafOncePlaying` is the check
that this is so. `Send` to a client that left loses the message or throws, whichever
SFW does. The client is arbitrary: `Segments` is any set of byte sequences.

**SessionContract** is the promise: a relation `Follows` between consecutive
messages, and that none follows the end of the connection. PlayerHandler implements
it with `open` mapped to "the thread has not ended".

**Session** puts a client there that follows the protocol as the handlers speak it,
with packets in their real layout, and a TCP connection. `wire` is the bytes on their way, as
TCP has them; `ends` marks where packets end in them, which only the network knows: a Receive
returns the bytes up to the next end, up to a later one (`MayJoin`), or, at most `MaxTears` times, up to
no end. A client says its handshake and what follows it in two steps (`greeted` lies between), so that
the server may have the one without the other. The client is external; a message it cannot
place makes it `confused`.

**Framing** translates every `Size()` and every `Serializer` of ServerPackets.h, the
two sides separately, and lets a session of SessionContract's order send them. The
size of a LoginSuccess depends on the client's name, all others are fixed.

**VarIntWriter** is the loop of `writeVarInt`, one iteration a step. The overload
without a position is the one with the position at the end.

**ChunkRegion** is `loadChunkRegion`: one action for each way an iteration of the loop over
the table can go. A file is its table, byte for byte, and the position the chunk at each
sector has; a sector without one throws, in inflating, in parsing or in looking for
xPos. `out[x][z]` is an address, `Side * x + z`: outside the array (`pc = "wild"`) or
in the slot of another chunk when a position is out of range. The table of a file that is
missing or too short is uninitialised memory: any table with no chunk. What PlayerHandler
needs of all this is whether [0][0] is filled, its constant `chunkLoaded`.

**Server** has an action for each step of main() and for what SFW's threads do with it,
which is external: `Run` accepts until `Stop` was called, gives each connection a thread
that calls `HandleConnection`, swallows what that throws (`Throws`), and returns when no
handler runs. `Returns` is the return of HandleConnection when the client has left; that
a handler that has not come to PLAY ends then is what `LeaverReleased` checks of PlayerHandler in Session.
`Plays` is the end of a join: the handler is in the endless loop of `OnConfig`, receives nothing more, and ends
only if a Send throws, which SFW decides (`Throws`). An
exception in main ends the process (`main = "terminated"`).
What `Init` of the registry does is one step here, and its whole in Process.
`BuildRegistryPackets` is the `zip` of slots and directory entries: any order of the
files, as many as fit, empty packets for the rest.

**NBTCompound** is a heap: `tag[a]` is the `NBTNamedTag` at address a, `tree[p]` the
`m_objectsTree` of the compound in variable or tag p, and `ref` the last reference the
program was given. `Address` is the memory: any place a tag may be allocated at, and one that was
freed may be taken by the next tag. `Below` is what a compound owns, directly or not, defined without
recursion as what every closed set around it holds. All overloads of Insert are there (the tag copied or moved, the value
moved; `Insert(const std::string&, const T&)` cannot be instantiated, as it moves from a
const), Remove, Get, both assignments, the two constructors through them, and a write
through the reference. The pair given to the map's `insert` holds a RAW pointer when the
tag is given as a tag: if the name is taken, a map that builds its node first frees the
tag, one that looks first leaks it. libstdc++ has done both, so `leaks` is either. In both
cases the reference returned is to the rejected tag. **NBTCompoundMeaning** reads the heap as values,
and **NBTCompoundValues** is the promise:
each compound is a function from names to values, an insertion of a name that is there
changes nothing, assignment merges, and nobody sees another's changes. Two
things are left out because the code does not define them: assigning to a compound from
one that contains it, and moving a compound into itself.

**NBTList** is the vector of owned pointers, with its type; addresses are arbitrary and
may be reused as soon as they are free, by the clones of an assignment as well.
Callers heed the assertion on the type. **NBTListValues** is the promise: a list is a type
and a sequence of payloads; assignment to itself empties it. Iterators and the formatters
change nothing and are not modelled. (`begin` and `end` of an empty list take `&front()`,
which is undefined; the serializers and the copy use them, and NBTCodec takes the range to
be empty, as every standard library makes it.)

**NBTParser** has the activations of the two recursive functions as a stack; a step is an
iteration of the topmost one's loop. `stream` counts the bytes ASKED for, and the stream
is good while there were as many: reads that fail leave what the code left in the variable
(zero for numbers, spaces for strings, `TagType::UNKNOWN` for a type). What parse returns when the
stream ends inside a compound is what it has so far, and so it is here.
A negative size throws, as `std::string` and `reserve` do, and one that is too large
for memory (`MaxArray`, a stand-in) throws too. The reference to null that Insert returns for a second tag
of one name and another type is never used by the parser. The recursion has no
bound but the thread's stack, and none in the model.

**NBTCodec** gives the parser its streams: those of `Streams`, and documents as the serializers write
them, whole or, of the documents in `Torn`, cut anywhere. A document keeps the order, and the repeated names, of its writer. The constants are `Payloads`,
the documents and everything in them, and how deep each nests (`Depth`, which the assumption on it makes well-founded,
as C++ objects that own each other are). `Sound` is what a payload is: strings of any length, no array
or list longer than an Int, or than memory, the elements of a list of its type. `Strings` is how long the strings and names
of a document are, which decides whether it can be read back. The serializers and the `Meaning`,
what the parser should make of a document, are recursive functions on `Payloads`: one level is an operator (`Unnamed`, `Says`)
of what the items are written as, or mean. The nameless root (`m_isRootCompound = false`) is left out:
parse does not read such a file. **NBTTruncation** says which trees a cut file may yield; it is
apart because its comparison of trees is a recursive operator, which the prover cannot read.

**BlockStateRegistry** is the loader's two loops one iteration a step, `MapState`'s two
`emplace`, both lookups and `Deinit`. A second `Init` (an assertion) has no caller and is left
out, and so far the lookups have none either. The hash is ANY function of what
`std::format` writes of a state, into `Buckets` values, and two states are one if they have
one hash and the looked up one equals the stored one: exactly what an unordered map
guarantees. `Identifier` is its one-argument constructor; the one with two has no caller.

**Process** conjoins the two: main's first step is made of the loader's, during which clients may already
come and go, the last of them being Server's `InitRegistry`; main's last step is Server's `Deinit` and
the registry's at once; everything else leaves the registry alone. So each step of Process is a step of
Server or leaves its variables unchanged (`ProcessImplementsServer`), and what is proved of Server holds of it.

**Position** packs with masks and shifts, as the quotients and remainders they are; the
number of values of a field is a constant. `set` remembers what the program set.

**ChunkPacket** is the loops of OnConfig over light: one that sets bits in four `BitSet`s, two
that write arrays. `BitSet::Set` shifts a 32-bit 1: bit 31 becomes 31..63, and a shift by
32 and more is undefined (`IntShifts`: the processor's modulo, or nothing). Height maps and palettes
are copies and constants, whose values no property is about.

## 3. The runs

| Run | Question | Instance | Result |
|---|---|---|---|
| connection (MCPlayerHandler) | what can an arbitrary client do to one connection | both handshakes, known packs, an endless VarInt and all byte strings of length 1 and 2 over {0, 1, 3, 7}, a buffer of 8 bytes with nothing or with packets behind it, 2 registries, 2 chunks, chunk present or not | 31 568 states, all properties hold |
| session (MCSession) | is a well behaved client served, and what does a torn packet leave behind | real layouts in a buffer of 60 bytes, four identities, joined packets, at most one torn | 53 272 states, all hold |
| early_play (MCSessionEarlyPlay) | does the server enter PLAY only when the client acknowledged | one identity, one tear | violated, see 5 |
| framing (Framing) | does the client find the start of each message | names at 16 and at 126..381 where a size changes | 5 636 states, holds |
| varint_writer (MCVarIntWriter) | do the two VarInt functions agree | ints around 0, 2^7, 2^14, 2^21, 2^28 and 2^31 - 1, three buffers, every position | 4 048 states, holds |
| chunk_region (MCChunkRegion) | does every chunk get where it is looked up | a region of 2 x 2, every table over four words, every placing of two chunks at positions from -1 to 2, either missing or not | 61 597 states, holds |
| server (MCProcess) | is what handlers read built before them and kept until they are gone; does the registry answer its file; does Stop end the process | two connections, three files for two slots, ten registry files, well-formed and not, every hash into two buckets | 35 584 states, all hold |
| nbt_compound (MCNBTCompound) | are compounds owned, stable and values | two compounds, two names, two scalars of one type, three addresses | 2 449 states, all hold |
| nbt_list (MCNBTList) | the same for lists, with types | two lists, two types, three payloads, five addresses | 1 633 states, all hold |
| nbt_codec (MCNBTCodec) | does parse end, with what was announced, on any stream; is what is written read back, and what becomes of a cut file | every continuation of up to three bytes over {0, 1, 8, 9, 10, 128} of a root, of up to two behind lists and strings, with sizes negative, 0 to 2 or huge; documents of two tags, names equal or not, of 16 payloads in front of three, and every cut of them; whole documents with strings and names of 32767, 32768 and 65535 bytes | 30 172 states, all hold |
| position (MCPosition) | does a coordinate survive its neighbours | fields of 3 and 2 bits, every value from twice below to above them | 2 048 states, holds |
| chunk_light (ChunkPacket) | does light reach its section | chunks of 0, 1, 24, 29, 30, 33, 61, 62, 93 and 94 sections | 1 381 states, holds: it does exactly when the masks' last word has at most 31 marks |

The properties:

* `ImplementsContract`: whatever bytes arrive, however cut, the client sees the
  messages of a session in order, registries and chunks complete.
* `NoPacketFromZeroFill`: as long as the buffer is zero behind the last receive, no
  packet is taken from there. This is the one thing that makes Execute over the
  whole buffer work for the FIRST segment, and for each that is not shorter than an
  earlier one.
* `DeafOncePlaying`: in PLAY nothing is received, parsed or changed any more.
* `ExecuteTerminates`: Execute comes back, ends the connection or joins the client.
* `ClientUnderstands`, `ServerFollowsClient`, `ClientServed`: a client that follows
  the protocol is served, never sees a message out of place, and the server's state
  never runs ahead of what the client said. They are promised as long as no packet was
  torn (`tears = 0`): section 5 shows what happens then.
* `OldBytesIgnored`: what the first two rest on. Execute goes on over the whole buffer once it has used up what was
  received; with these clients it finds no packet in the bytes that lay there before.
* `LeaverReleased`: the thread of a client that leaves before PLAY ends, whatever the
  server made of a torn packet. In PLAY it
  ends only if Send throws, and whether it does is SFW's affair.
* `Aligned`: the client finds the start of every message exactly as long as no name
  of a length in 128..253 or from 381 on was sent back to it.
* `ReadsBack`, `NeverTooLong`: what `writeVarInt` puts into a buffer is read back by
  `readVarInt` and disturbs nothing around it, with at most five bytes.
* `ChunksAtHome`, `KeepsChunks`, `Loads`: a file of the region at the origin (map/r.0.0.mca,
  the only one the code opens) is loaded to its end, each chunk into the slot where
  PlayerHandler looks for it, none over another. For other files nothing is promised, and the
  model shows why: a position out of range ends in another chunk's slot or outside.
* `ReadersSeeBuilt`, `WrittenOnlyAlone`: what Registry.h says, that threads only read what
  was written before them; and, what it does not say, that it is freed after them.
* `StopCompletes`: a stopped server ends once its clients have left, unless a handler has come to PLAY. It does not end
  before: Stop does nothing, and a client that stays keeps the process. A handler in PLAY keeps it even when its
  client has left, until a Send throws, if it does.
* `OwnedOnce` (of compounds and of lists): no tag is shared, freed too early or known under
  another name than its own; of lists, none is leaked either.
* `AddressesStable`: only Remove, a move and the end of a compound invalidate references.
* `ValueSemantics`, `ListSemantics`: the heap implements values: every operation on one
  container, and every write through a reference, is seen there and nowhere else.
* `Homogeneous`: a list holds tags of the type it will write in front of them.
* `AsAnnounced`, `Progresses`, `Ends`: no list outgrows its announced size or type, every
  iteration lowers a number (`Left`) that is at most four for a byte of the stream, and a few, and parse ends.
* `RoundTrip`: a written document is read back whole, to its last byte, as it was meant, if no string or name in it has more
  than 32767 bytes. With one of 32768 to 65535 it is rejected: the writer says its size as an unsigned number of
  two bytes, the reader takes it as a signed one. Above 65535 the size wraps and nothing is promised.
* `TruncationIsLocal`: a cut file is rejected or yields the document up to the cut, where
  at most one tag is damaged.
* `Exact`: for a well-formed registry file each state has its id and each id its state, on
  every hash. Well-formed asks for the states of one
  block to have the same properties; without it the asymmetric equality confuses
  two of them when they meet in a bucket; the two files marked as not uniform in MCProcess are
  there to reach that.
* `CoordinatesKept`: what a field can hold is read back as last set.
* `LightFindsHome`: the arrays pair with the bits exactly when the masks' last word has at most 31 marks: for chunks of
  up to 29 sections, and again of 62 to 93. From 30 to 61 the 32-bit shift of `BitSet::Set` marks sections that do not exist,
  and the client waits for light that was not written.

**Bounds.** `NumRegistries` is 22 and `NumChunks` 256 in the code; two of each have a
first, a next and a last. In MCPlayerHandler a uuid has 1 byte and a payload 2, so that
every packet fits into 8 bytes, two-byte strings over old bytes form each of them, and a
stale tail is within the reach of the next packet; the alphabet holds every packet id
and size zero. MCSession uses the real 16
and 8, and 60 bytes of buffer: more than any packet the client sends, so stale bytes and
zeros both occur behind each. `MaxInbox` keeps the endless loop from filling the
inbox without end, and `MaxTears = 1` is one packet in two parts. What the server could mistake for a size or an id are the lengths of a
client's strings and the bytes of its uuid and payload: MCSession's four clients ping or play, with
short and long addresses and names, and are the ones for which it mistakes none; section 5 lists what
happens elsewhere. The words of MCChunkRegion are one unused entry, two whose sector bytes all
differ, and one that points past every chunk.

The addresses bound the tags of NBTCompound: three hold a compound with a tag in it and its
rejected copy, or a copy, in a tag, of a compound with a tag in it; every one is reused. With four of them and
one name (`Name = {"x"}`) a compound in a compound is copied together with what is in it; that instance has
1 371 states and the same result, and is not kept as a run of its own. Two payloads of a type make writes
visible, two types make a wrong one so. Five addresses let two lists have two elements each and a fresh one. The bytes
of MCNBTCodec's streams are an END, a number, the three types that nest or have a size, and one that is negative;
two or three of them behind a header form every kind of tag, cut at every byte. Strings,
arrays and lists of up to two elements have a first and a last; the long strings and names of `MCLong` lie on both sides
of the two sizes at which reading changes. They are not cut: a cut in a string of 32767 bytes is that in one of two. The ten registry files
are one for each way in which two states can look alike. Positions of a few bits have all cases
of sign, overflow and borrow; the theorem covers the real 26 and 12. The sections are none and one, the real 24,
and the last and first on either side of where the marks of a word, one more or less than 31, are too many: 29 and 30, 61 and 62, 93 and 94.

**Symmetry** is used for the variables and the addresses of NBTCompound and NBTList; none of
them occurs in a liveness property.

**Fairness.** PlayerHandler's thread is scheduled (`WF` on `HandlerStep`), which is
what the operating system gives a runnable thread; no fairness on Receive, since a
client need not send. In Session, TCP delivers what was sent, the client answers what
it got, and the close of a connection is seen. Leaving is never required. ChunkRegion's
loop runs in a constructor, on one thread: it goes on while it can, and so does parse.
In Process, threads that can go on do, and a handler that is not in PLAY returns once its client has left, which
`LeaverReleased` shows of PlayerHandler; a handler in PLAY need not end. Nothing makes a key be pressed, a client come or
leave, or anything throw.

**Deadlock** is not checked: a connection ends, and one whose client says nothing
waits; a parser, a loader and a process are done; the containers' runs end at their bounds.

## 4. The theorems

**ConnectionProofs**, of PlayerHandler, for every buffer size, every set of segments, every number of
registries and chunks:

* `TypeCorrect`: Spec => []TypeOK
* `Refinement`: Spec => ImplementsContract
* `Deaf`: Spec => DeafOncePlaying
* `ZeroFill`: Spec => NoPacketFromZeroFill
* `Invariance`: Spec => []IInv, on which the others rest.

`TypeOK` and the contract's order are not inductive: that the next message may follow
the last one depends on the protocol state, on where the thread is and on the
messages still to be sent. `IInv` adds, while the thread sends, that `todo` is not empty, that its messages follow
one another, the first of them the last one sent, and that its last message is one a
handler of this state ends with (`InvSend`); and for the loops, which messages can have
been sent last in which state (`InvLoop`, `InvJoin`).
`DispatchPreserves` is the step over the seven handlers, `SendPreserves` the one over a
Send, and the lemmas on batches (`SingleLinked`, `RegistryBatchLinked`, `ChunkBatchLinked`,
`JoinBatchLinked`, `TailLinked`) say that what a handler queues is linked. `NextPacketResult`
bounds what any packet read can return, whatever is in memory; `VarIntRead` and `OneByteVarInt` are the
facts about VarInts that are short.

And of Session, for every set of clients that fit the protocol, every network and every number of tears:

* `SessionTyped`: SessionSpec => []SessionTypeOK
* `SessionRefinement`: SessionSpec => ImplementsContract
* `FollowsClient`: AcksUnmistakable implies SessionSpec => []ServerFollowsClient
* `Understood`: SessionSpec /\ []OldBytesIgnored => []ClientUnderstands

For the first two a step of a session is one of PlayerHandler's, or a Receive of what the client said
(`ServerSteps`, `ReceivePreserves`). `FollowsClient` is the one that the whole buffer, handed to
Execute with its old bytes, makes hard. That the server has not gone ahead depends on which bytes are on the
wire, in the buffer, behind the iterator and behind the buffer. `FInv` follows them until a packet
is torn:

* before the handshake the buffer is zero and nothing is on the wire (`InvNew`);
* before the login acknowledgement no byte anywhere can be read as the id 3 (`InvBefore`), and a client that
  logs in has its handshake on the wire, at the front of the buffer or behind it (`InvLogin`), so that
  the packet the server takes for a handshake is one;
* between the two acknowledgements the login's two bytes are on the wire, at the front of the buffer
  and about to be taken, or taken and behind the iterator (`InvAcked`): nothing reads that 3 twice, as
  the next packet covers it (`InvSpaced`) or the iterator never goes back (`NextPacketForward`);
* what is queued and in flight is what the client can have heard of the state (`InvHeard`), so that it answers
  only as the state expects.

`Understood` needs the whole session, to the joined client's last position. `UInv` says, until a packet is torn and as long
as the client stays, which `Stage` the two are in: the client has just said something, which is all that the server
has still to read (`Says`); the server has answered, and the answer is on its way (`IsTold`); it is the client's turn
(`Rests`); or the handshake and the packet sent behind it, without waiting, are on the wire, in the buffer or one in
each (`Second`). The configuration's registries end with its Finish (`Ordered`), and a joined client is sent positions only
(`SyncsLast`). `Pending` says where a packet is: on the wire, or whole in the buffer where Execute is. That Execute reads it
as what it is (`SittingTaken`), of the server's state at that moment, and stops at its end, or one byte before that of
a ping, follows from how each of the seven packets is read (`PacketTaken`). One thing is not said by the invariant: what
Execute makes of the bytes behind, which earlier packets have left. It depends on the client's names and addresses,
and section 5 lists some that are read as packets. So the theorem has the hypothesis `OldBytesIgnored`, in each state and not
of the clients: TLC evaluates it for MCSession's. It is about one read of the buffer; that no message comes out of
place in the session that follows is the theorem.

There is one lemma per action of the session (`...Follow`), and below the server's own `DispatchResult`
and `NoAckTaken`: no packet whose bytes hold no 3 makes a step towards CONFIG or PLAY. The
hypothesis `AcksUnmistakable` says that outside the acknowledgements no byte a client sends, and none that lies
behind the buffer, is 3 in its low seven bits. It is what the code needs: section 5 shows a client
without it that is joined before it acknowledged anything. TLC evaluates it for MCSession's clients.
`IInv` and `FInv` were checked with TLC on the runs' instances before they were proved.

**ServerPacketProofs**: `AlwaysAligned`, FramingSpec => []Aligned for names of every
length up to `MaxLength` (three bytes of VarInt). `FixedSizes` covers the packets
whose fields the server chooses, `LoginSuccessSizes` the one that repeats a name:
n div 127 is the VarInt's length exactly for n in 254..380. `LightPaired`, LightSpec => []LightFindsHome, for
every set of section counts: `LightInv` says what is in the words of the masks after k rounds of the loop,
and that the arrays are those of the sections from the lowest up. A word with all of its 64 marks is right, as what the 32nd spills
is marked anyway; so if the last word has at most 31 the bits are 0 to k - 1, and the rank of a bit among the marks
is its index (`RanksAreRight`). With 32 to 63 a section that does not exist is marked.

**NumberProofs**, of VarIntWriter, for every int that is not negative, every buffer and every
position in it:

* `AlwaysShort`: Spec => []NeverTooLong
* `AlwaysReadsBack`: Spec => []ReadsBack
* `HalvesHold`: Spec => []IInv, on which the two rest.

Neither property is inductive: halfway through the loop nothing can be read back yet. `IInv`
says that after k bytes they carry the low 7k bits of the argument and `value` the rest
(`Halves`), that `value` is at most (2^31 - 1) div 2^(7k), so that a fifth byte is the
last (`LimitShrinks`), and that the bytes in front of and behind the VarInt are the
ones of before, moved by its length (`Around`). `InsertAtResult` is the fact about one
insertion, `WrittenReadsBack` the one that these bytes are a VarInt which ends
where the loop did and nowhere earlier.

**ChunkRegionProofs**, for every side of a region and every file:

* `ChunksFindHome`: Spec => []ChunksAtHome
* `ChunksStay`: Spec => KeepsChunks
* `Invariance`: Spec => []IInv, on which the two rest.

ChunksAtHome speaks of the end of the load only. `Filled` says it of every iteration: the
slots of the entries read are filled, the others empty. It takes that the bytes of a
sector come through the conversion unharmed (`SectorIsLocation`), that different entries
have different slots (`HomeSlotInjective`) and that every slot is some entry's (`HomeSlotOnto`),
which are facts about quotients and remainders for every side.

**ProcessProofs**, for any connections, files, registries, number of slots and hash:

* `ReadersSafe`: Spec => []ReadersSeeBuilt
* `NoWriteBesideReaders`: Spec => WrittenOnlyAlone
* `ServerTyped`: Spec => []ServerTypeOK
* `ProcessImplementsServer`: ProcessSpec => Spec
* `ProcessReadersSafe`: ProcessSpec => []ReadersSeeBuilt /\ WrittenOnlyAlone
* `RegistryExact`: ProcessSpec => []Exact

`InOrder` says where main() is while the server's thread runs, and that handlers run only
inside the life of that thread; from it the first three follow. The refinement maps the loader's steps but the
last to stutters. `Exact` speaks of the loaded registry; `RegistryInv` says of every
iteration that the two maps hold the entries in front of it and nothing else (`Mapped`). What makes it
true is `EqualIsSame`: the equality of states looks at the left side's properties only, but between states
of a well-formed file it is identity, so that neither `emplace` drops an entry, wherever the hash puts it.

**NBTCompoundProofs**, for any variables, names, scalars and addresses:

* `AlwaysOwnedOnce`: Spec => []OwnedOnce
* `ReferencesStayGood`: Spec => AddressesStable

`Owned` is inductive as an invariant of a heap: who owns a tag is there, so is the tag, under its own name
(`Sound`), and it has one owner (`Single`). What takes proof is that each operation keeps it at
any depth: what is below a tag that nobody owns is owned from inside only (`Sealed`), so freeing it
leaves no pointer behind; clones mirror their originals one to one, so a copy shares
nothing; and hanging a tree of unowned tags into a compound, under free names, gives each its one owner (`Hung`).
That no compound the program can name lies below itself (`NoCycle`) makes a copied or moved one safe to hang.

**NBTListProofs**, for any lists, payloads and addresses:

* `Owned`: Spec => []OwnedOnce
* `OneType`: Spec => []Homogeneous
* `Refinement`: Spec => ListSemantics

The first two are inductive together: that an element has its list's type after a write
needs that no other list has the element, and that a list without a type may get one needs that it
is empty (`UnknownEmpty`). The refinement has one lemma per action; the step that matters is
that writing or freeing an element of one list leaves the values of the others (`Once`).

**NBTParserProofs**, of NBTParser, for every stream of bytes:

* `Announced`: Spec => []AsAnnounced
* `GetsOn`: Spec => Progresses
* `ParserTyped`: Spec => []ParserTypeOK

A list may be about to get one element more from each activation below it, so that
AsAnnounced is not inductive: `Waiting` adds that a list that waits for an inner
activation still lacks the element, and that the activation has the type for it. `Sizes`,
`StringRead`, `ScalarRead` and `HeaderRead` say what a read can return and how far it
moves, whatever the bytes; `Grown`, `Entered` and `Changed` what the three ways to change
the stack preserve. An iteration reads, enters or leaves (`NextGets`), and each of the three lowers `Left`: entering a
compound in a list asks for no byte, and the two that `Left` counts while a list is filled pay for it.

And of NBTCodec, for every set of documents of any depth and with strings of any length:

* `ReadBack`: CodecSpec => []RoundTrip
* `CodecKeeps`: CodecSpec => [](ParserTypeOK /\ AsAnnounced) /\ Progresses

`RoundTrip` speaks of the end. `CodecInv` says of every iteration where the parser is: every activation on the stack
fits a place in the document (`Place`, `Fits`). An activation of a compound or a list of the document started where the
bytes of that payload start in the stream; it has read its first k items, which mean what they should, and has asked for
exactly their bytes; the next activation, if there is one, is at item k + 1. So the stream is never asked for more than there
is, no size read is wrong, and when the outermost activation returns it returns the document's meaning. That a
list without elements forgets its type, and that the first of two tags of one name counts, is in it. So is that every string and name read
up to there had at most 32767 bytes (`Legible`): the parser is done only if that holds of all (`FinishedLegible`), and it
throws only at one that has more (`ThrowReads`, with `LongStringAt`: the size of such a string is read as a negative number).
The lemmas below say
that each writer is undone by its reader (`NamedAt` and those on sizes, strings and arrays), and where in the bytes
of a payload its items lie. Serializers and meanings are recursive, and so are the facts about them: the library's induction
theorems cannot be used by the installed provers, so `SetInduction` proves induction over sets of natural numbers from the library's
fact that every such set has a least element, and the facts about `Payload` and `Meaning` follow by
induction over `Depth`, and so is what is known of `Strings`.

**NumberProofs**, of Position, for fields of any even size:

* `Kept`: PositionSpec => []CoordinatesKept

`PositionInv` says that the number is always the one that Assign would pack of what was set last, in whatever
order it was set. `Repacked` is the reason: masking a field that was read back and sign-extended gives
the field (`Remasked`). `Held` says that what a field can hold comes out of it as it was.

Assumptions: those on the constants, named in the modules, and the hypotheses of two theorems, `AcksUnmistakable` for
`FollowsClient` and `[]OldBytesIgnored` for `Understood`.

**Only model-checked**: every liveness property (ExecuteTerminates, ClientServed,
LeaverReleased, Loads, StopCompletes, Ends), because TLAPS does not handle fairness here;
`TruncationIsLocal`, whose comparison of trees is a recursive operator, and `ValueSemantics`, which
reads trees of any depth as values. And `OldBytesIgnored`, on which `Understood` rests: it is not true of every client, but
of those whose bytes, taken for packets from where the last packet ended, happen to be no packets (a ping's last
payload byte, the tail of a handshake behind a login start).

## 5. What the runs found

* **early_play.** After the login acknowledgement, two bytes `1, 3`, is in the buffer,
  the first byte alone of the known packs packet is followed by the old 3. The
  server reads id 3 in CONFIG, logs "ConfigAcknowledged switching to play state"
  (src/PlayerHandler.cpp:184) and joins a client that acknowledged nothing.

The same cause as early_play's (src/MinecraftHandler.cpp:98) shows in other instances of Session with
nothing torn, which are not kept as runs because no text of the repository
contradicts them:

* A handshake longer than the login start by two or three bytes leaves the tail
  `port, 2, 0` where it is taken for a second login start.
* A name of eight characters or more leaves uuid bytes behind the known packs packet; a
  byte 3 among them is an early acknowledgement, and five of 128 or more throw.
* A handshake and a login start that arrive together, with an address of 3 or 7
  characters, leave that length where it is read as a packet id in CONFIG.
* A ping leaves its last payload byte unread (include/ClientPackets.h:100): with a
  short address and a last byte that is not zero, a status nobody asked for follows
  the pong.

Seen while modelling:

* `sizeOfVarInt` (include/utils.h:88) divides by 127: see `Aligned`.
* The pong's payload is always zero: src/PlayerHandler.cpp:128 stores one byte, the low
  byte of a sum of bytes shifted left by eight.
* `Stop` does nothing and nothing sets `m_stop`, and the loop of PLAY (src/PlayerHandler.cpp:292) is left by a throw of Send only:
  see `StopCompletes`.
* `serializeString` writes a string's size as a `uint16_t` (src/DataTypes/nbt.cpp:11, include/utils.h:281), `parseString` reads a
  `Short`, which is signed (src/DataTypes/nbt.cpp:128): a string of 32768 to 65535 bytes that this program writes its own
  parser rejects, and the size of a longer one wraps. See `RoundTrip`.
* Insert of a tag whose name is taken returns a reference to a tag that was freed, or that
  nobody owns (include/DataTypes/nbt.h:263).
* A file cut inside a compound is taken for a complete one (src/DataTypes/nbt.cpp:151): see
  `TruncationIsLocal`.
* `Identifier(value)` throws "Value does not respect character restrictions"
  (src/DataTypes/Identifier.cpp:28) when the value MATCHES the allowed characters: the `!` of
  the other constructor is missing. As the pattern has no repetition only names of
  one character are refused; of the real registry that is none, and a name of forbidden
  characters passes. The files of MCProcess have both.
* `Position::Assign` asserts that a coordinate is not "too big" with the bound of an unsigned
  field (include/DataTypes/Position.h:65), and the getters sign-extend it: the upper half of
  what is accepted is read back negative. `CoordinatesKept` speaks of what the field can hold.
* `std::equal_to<BlockState>` is not symmetric (include/BlockState.h:77): see `Exact`.
* The loader indexes its region with unchecked coordinates (src/MinecraftHandler.cpp:61).
* `BitSet::Set` ignores its value (include/DataTypes/BitSet.h:21), so the masks of
  empty light sections come out full; and it shifts an `int`, so the masks of chunks of 30 to 61 sections are
  wrong: see `LightFindsHome`.

## 6. The plan

Done, in this order:

1. Wire, Messages, SessionContract, PlayerHandler; their runs and proofs.
2. Session and its runs.
3. VarIntWriter, Framing, ChunkRegion and the proofs about them.
4. NBTCompound and NBTList with their abstract specifications; the list's proofs.
5. NBTParser and its proofs, NBTCodec.
6. Server and its proofs, BlockStateRegistry with Identifier, and Process, which composes them.
7. Position and its proofs; ChunkPacket.
8. The process, the registry's maps, light, compounds with reused addresses and the session, as theorems.
9. The parser's bound on its iterations, documents read back, and what a client understands, as theorems.

What could follow: the compounds' `ValueSemantics` with the depth of a tag as a variable of the
model, which would make the values a definition without recursion; a condition on a client's bytes alone from which
`OldBytesIgnored` follows.

## 7. Not modelled

* Sockets, threads and JSON, inflate: external libraries. Where the code depends on
  what they do (a Send to a client that left), the model allows every outcome.
* Logging and formatting, but for the text of a block state, which is hashed.
* The values of names, uuids, addresses and payloads beyond the bytes that the server
  can mistake for something else; the values of height maps and palettes.
* The contents of the registry packet files, which are sent as they are.
* The iterators of a list; a nameless root; deep recursion of the parser against a real stack.
* The two-argument constructor of `Identifier`, which nothing calls, and the death location of
  LoginPlayPacket, which no session reaches.
