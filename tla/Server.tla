-------------------------------- MODULE Server --------------------------------
(***************************************************************************)
(* The life of the process (src/main.cpp): the registry and the handler's  *)
(* context are built by the main thread, one thread accepts connections,   *)
(* each connection has a thread in HandleConnection, and a key pressed at  *)
(* the console starts the way down.  What a handler does in between is     *)
(* PlayerHandler's; here it reads what main built and lasts until it finds *)
(* that its client has left, which one in PLAY never looks for, or until   *)
(* an exception ends it.                                                   *)
(*                                                                         *)
(* The server class is SFW's, external: Run accepts until Stop was called  *)
(* and returns when no handler runs any more, since the handlers use the   *)
(* object Run belongs to.                                                  *)
(***************************************************************************)
EXTENDS Integers, Sequences, SequencesExt

CONSTANTS Clients,      \* the connections the process may ever see
          Files,        \* the files of packets/
          NumSlots      \* m_context.registry_packets (22)

ASSUME NumSlotsAssumption == NumSlots \in Nat

VARIABLES
  main,         \* where main() is
  registry,     \* s_registryInstance: "null", "partial", "loaded"
  slots,        \* registry_packets: a file, or Empty
  context,      \* the handler object: "none", "partial", "built", "gone"
  serverThread, \* "none", "running", "done"
  stopped,      \* server.Stop() was called
  handler,      \* handler[c]: the thread of connection c: "none", "running",
                \* "playing" (in the loop that only a Send can leave), "ended"
  peerOpen      \* peerOpen[c]: the client of c has not left

built == <<registry, slots, context>>
connections == <<handler, peerOpen>>
vars == <<main, built, serverThread, stopped, connections>>

Empty == "empty vector"
Slots == 1..NumSlots
Handling == {c \in Clients : handler[c] \in {"running", "playing"}}

Init ==
  /\ main = "registry"
  /\ registry = "null"
  /\ slots = [i \in Slots |-> Empty]
  /\ context = "none"
  /\ serverThread = "none"
  /\ stopped = FALSE
  /\ handler = [c \in Clients |-> "none"]
  /\ peerOpen = [c \in Clients |-> TRUE]

-----------------------------------------------------------------------------
(* The main thread.  Nothing in main catches: what throws ends the process. *)

\* BlockStateRegistry::Init("registries/blocks.json")
InitRegistry ==
  /\ main = "registry"
  /\ \/ registry' = "loaded" /\ main' = "server"
     \/ registry' = "partial" /\ main' = "terminated"
  /\ UNCHANGED <<slots, context, serverThread, stopped, connections>>

\* MinecraftHanlder(): zip puts the files of packets/, in any order, into the
\* slots, until either runs out; loadChunkRegion may throw after it.
BuildRegistryPacketsMutant ==             \* a file for each index, not zip
  \E order \in SetToSeqs(Files) : slots' = order
BuildRegistryPackets ==
  \E order \in SetToSeqs(Files) :
    slots' = [i \in Slots |-> IF i \in DOMAIN order THEN order[i] ELSE Empty]

BuildServer ==
  /\ main = "server"
  /\ BuildRegistryPackets
  /\ \/ context' = "built" /\ main' = "spawn"
     \/ context' = "partial" /\ main' = "terminated"
  /\ UNCHANGED <<registry, serverThread, stopped, connections>>

\* std::thread serverThread
SpawnEarlyMutant ==                        \* the thread before the context
  /\ main \in {"server", "spawn"} /\ serverThread = "none"
  /\ main' = IF main = "spawn" THEN "cin" ELSE main
  /\ serverThread' = "running"
  /\ UNCHANGED <<built, stopped, connections>>
Spawn ==
  /\ main = "spawn"
  /\ main' = "cin"
  /\ serverThread' = "running"
  /\ UNCHANGED <<built, stopped, connections>>

\* std::cin >> c; server.Stop(); the handler's Stop does nothing.
Stop ==
  /\ main = "cin"
  /\ main' = "join"
  /\ stopped' = TRUE
  /\ UNCHANGED <<built, serverThread, connections>>

JoinMutant ==                              \* serverThread.detach()
  /\ main = "join"
  /\ main' = "deinit"
  /\ UNCHANGED <<built, serverThread, stopped, connections>>
Join ==
  /\ main = "join" /\ serverThread = "done"
  /\ main' = "deinit"
  /\ UNCHANGED <<built, serverThread, stopped, connections>>

\* BlockStateRegistry::Deinit(), the end of main and of the server in it.
Deinit ==
  /\ main = "deinit"
  /\ main' = "returned"
  /\ registry' = "null"
  /\ context' = "gone"
  /\ UNCHANGED <<slots, serverThread, stopped, connections>>

-----------------------------------------------------------------------------
(* The server's threads (external) and the clients.                        *)

Accept(c) ==
  /\ serverThread = "running" /\ ~stopped
  /\ handler[c] = "none" /\ peerOpen[c]
  /\ handler' = [handler EXCEPT ![c] = "running"]
  /\ UNCHANGED <<main, built, serverThread, stopped, peerOpen>>

\* OnConfig reaches its endless loop: the join is behind it, and it never
\* receives again.  Its client may have left, with the bytes it sent still read.
Plays(c) ==
  /\ handler[c] = "running"
  /\ handler' = [handler EXCEPT ![c] = "playing"]
  /\ UNCHANGED <<main, built, serverThread, stopped, peerOpen>>

\* HandleConnection returns when Receive finds that the client has left, which
\* a handler in PLAY never does; the send that finds it so throws.
NeverReturnsMutant(c) == FALSE             \* if (recv == 0) return; forgotten
Returns(c) ==
  /\ handler[c] = "running" /\ ~peerOpen[c]
  /\ handler' = [handler EXCEPT ![c] = "ended"]
  /\ UNCHANGED <<main, built, serverThread, stopped, peerOpen>>

\* Of a packet that throws, of a chunk that is not there, and of a Send to a
\* client that left, if SFW's throws; it ends the connection only (external).
Throws(c) ==
  /\ c \in Handling
  /\ handler' = [handler EXCEPT ![c] = "ended"]
  /\ UNCHANGED <<main, built, serverThread, stopped, peerOpen>>

RunReturns ==
  /\ serverThread = "running" /\ stopped /\ Handling = {}
  /\ serverThread' = "done"
  /\ UNCHANGED <<main, built, stopped, connections>>

Leave(c) ==
  /\ peerOpen[c]
  /\ peerOpen' = [peerOpen EXCEPT ![c] = FALSE]
  /\ UNCHANGED <<main, built, serverThread, stopped, handler>>

Alive == main \notin {"terminated", "returned"}

\* What touches the registry, and the rest.
WithRegistry == Alive /\ (InitRegistry \/ Deinit)
WithoutRegistry ==
  /\ Alive
  /\ \/ BuildServer \/ Spawn \/ Stop \/ Join \/ RunReturns
     \/ \E c \in Clients : Accept(c) \/ Plays(c) \/ Returns(c) \/ Throws(c) \/ Leave(c)

Next == WithRegistry \/ WithoutRegistry

Spec == Init /\ [][Next]_vars

-----------------------------------------------------------------------------
ServerTypeOK ==
  /\ main \in {"registry", "server", "spawn", "cin", "join", "deinit", "terminated", "returned"}
  /\ registry \in {"null", "partial", "loaded"}
  /\ slots \in [Slots -> Files \cup {Empty}]
  /\ context \in {"none", "partial", "built", "gone"}
  /\ serverThread \in {"none", "running", "done"}
  /\ stopped \in BOOLEAN
  /\ handler \in [Clients -> {"none", "running", "playing", "ended"}]
  /\ peerOpen \in [Clients -> BOOLEAN]

\* Registry.h:14: "The class is written to at initialization then threads only
\* perform reads".  While a handler runs, the registry and the context it was
\* given are complete, and nobody writes them.
ReadersSeeBuilt == Handling # {} => registry = "loaded" /\ context = "built"
WrittenOnlyAlone == [][Handling # {} => built' = built]_vars

\* Stop waits for the clients, and for nothing else: once it was called and the
\* clients of the handlers before PLAY have left, main returns, unless a handler
\* is in PLAY, where nothing tells it that its client left or that Stop was called.
StopCompletes ==
  main = "join" /\ (\A c \in Clients : handler[c] = "running" => ~peerOpen[c])
    ~> main = "returned" \/ \E c \in Clients : handler[c] = "playing"
=============================================================================
