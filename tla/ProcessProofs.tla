----------------------------- MODULE ProcessProofs -----------------------------
(***************************************************************************)
(* The life of the process, for any number of connections, files and       *)
(* slots: what handler threads read is complete and is not written while   *)
(* they run (Server), the registry that main loads is exact for every      *)
(* well-formed file (BlockStateRegistry), and the two together still are a *)
(* process as Server describes it (Process).                               *)
(***************************************************************************)
EXTENDS Process, TLAPS

\* The order of main(): a handler runs only while the server's thread does, and
\* that thread only from after the building until the join.
InOrder ==
  /\ Handling # {} => serverThread = "running"
  /\ main \in {"registry", "server", "spawn"} => serverThread = "none"
  /\ main \in {"server", "spawn", "cin", "join"} => registry = "loaded"
  /\ main \in {"spawn", "cin", "join"} => context = "built"
  /\ main \in {"deinit", "returned"} => serverThread = "done"
  /\ main = "terminated" => serverThread = "none"

IInv == ServerTypeOK /\ InOrder

\* What is built is complete, and nothing is built or torn down beside a
\* handler, in every state that is in order.
LEMMA OrderSuffices == InOrder /\ ServerTypeOK => ReadersSeeBuilt
  BY DEF InOrder, ServerTypeOK, ReadersSeeBuilt

-----------------------------------------------------------------------------
\* In the beginning no thread but main's runs.
LEMMA InitInv == Init => IInv
<1> SUFFICES ASSUME Init PROVE IInv
  OBVIOUS
<1>1. ServerTypeOK
  BY DEF Init, ServerTypeOK, Slots
<1>2. InOrder
  BY DEF Init, InOrder, Handling
<1> QED
  BY <1>1, <1>2 DEF IInv

\* Files land in slots, whatever their number and their order.
LEMMA BuiltSlots == BuildRegistryPackets => slots' \in [Slots -> Files \cup {Empty}]
<1> SUFFICES ASSUME BuildRegistryPackets PROVE slots' \in [Slots -> Files \cup {Empty}]
  OBVIOUS
<1>1. PICK order \in SetToSeqs(Files) :
        slots' = [i \in Slots |-> IF i \in DOMAIN order THEN order[i] ELSE Empty]
  BY DEF BuildRegistryPackets
<1>2. \A i \in DOMAIN order : order[i] \in Files
  BY DEF SetToSeqs
<1> QED
  BY <1>1, <1>2

\* Every step of every thread keeps the order.
LEMMA StepInv == IInv /\ [Next]_vars => IInv'
<1> SUFFICES ASSUME IInv, [Next]_vars PROVE IInv'
  OBVIOUS
<1> USE DEF IInv
<1>1. CASE Next
  <2> USE DEF connections
  <2>1. CASE InitRegistry
    <3>1. ServerTypeOK'
      BY <2>1 DEF InitRegistry, ServerTypeOK
    <3>2. InOrder'
      BY <2>1 DEF InitRegistry, ServerTypeOK, InOrder, Handling
    <3> QED
      BY <3>1, <3>2
  <2>2. CASE BuildServer
    <3>1. ServerTypeOK'
      BY <2>2, BuiltSlots DEF BuildServer, ServerTypeOK
    <3>2. InOrder'
      BY <2>2 DEF BuildServer, ServerTypeOK, InOrder, Handling
    <3> QED
      BY <3>1, <3>2
  <2>3. CASE Spawn \/ Stop \/ Join
    <3>1. ServerTypeOK'
      BY <2>3 DEF Spawn, Stop, Join, built, ServerTypeOK
    <3>2. InOrder'
      BY <2>3 DEF Spawn, Stop, Join, built, ServerTypeOK, InOrder, Handling
    <3> QED
      BY <3>1, <3>2
  <2>4. CASE Deinit
    <3>1. ServerTypeOK'
      BY <2>4 DEF Deinit, ServerTypeOK
    <3>2. InOrder'
      BY <2>4 DEF Deinit, ServerTypeOK, InOrder, Handling
    <3> QED
      BY <3>1, <3>2
  <2>5. CASE RunReturns
    <3>1. ServerTypeOK'
      BY <2>5 DEF RunReturns, built, ServerTypeOK
    <3>2. main \notin {"registry", "server", "spawn", "terminated"}
      BY <2>5 DEF RunReturns, InOrder
    <3>3. InOrder'
      BY <2>5, <3>2 DEF RunReturns, built, ServerTypeOK, InOrder, Handling
    <3> QED
      BY <3>1, <3>3
  <2>6. ASSUME NEW c \in Clients, Accept(c) PROVE IInv'
    <3>1. ServerTypeOK'
      BY <2>6 DEF Accept, built, ServerTypeOK
    <3>2. InOrder'
      BY <2>6 DEF Accept, built, ServerTypeOK, InOrder, Handling
    <3> QED
      BY <3>1, <3>2
  <2>7. ASSUME NEW c \in Clients, Plays(c) \/ Returns(c) \/ Throws(c) PROVE IInv'
    <3>1. ServerTypeOK'
      BY <2>7 DEF Plays, Returns, Throws, built, ServerTypeOK
    <3>2. Handling' # {} => Handling # {}
      BY <2>7 DEF Plays, Returns, Throws, Handling
    <3>3. InOrder'
      BY <2>7, <3>2 DEF Plays, Returns, Throws, built, ServerTypeOK, InOrder
    <3> QED
      BY <3>1, <3>3
  <2>8. ASSUME NEW c \in Clients, Leave(c) PROVE IInv'
    <3>1. ServerTypeOK'
      BY <2>8 DEF Leave, built, ServerTypeOK
    <3>2. InOrder'
      BY <2>8 DEF Leave, built, InOrder, Handling
    <3> QED
      BY <3>1, <3>2
  <2> QED
    BY <1>1, <2>1, <2>2, <2>3, <2>4, <2>5, <2>6, <2>7, <2>8 DEF Next, WithRegistry, WithoutRegistry, Alive
<1>2. CASE UNCHANGED vars
  <2>1. ServerTypeOK'
    BY <1>2 DEF vars, built, connections, ServerTypeOK
  <2>2. InOrder'
    BY <1>2 DEF vars, built, connections, InOrder, Handling
  <2> QED
    BY <2>1, <2>2
<1> QED
  BY <1>1, <1>2

\* Only main writes what it built, before the server's thread or after it.
LEMMA StepAlone == IInv /\ [Next]_vars => (Handling # {} => built' = built)
<1> SUFFICES ASSUME IInv, [Next]_vars, Handling # {} PROVE built' = built
  OBVIOUS
<1>1. main \in {"cin", "join"}
  BY DEF IInv, InOrder, ServerTypeOK
<1> QED
  BY <1>1 DEF Next, WithRegistry, WithoutRegistry, Alive, InitRegistry, BuildServer, Spawn, Stop, Join, Deinit, RunReturns,
     Accept, Plays, Returns, Throws, Leave, vars

-----------------------------------------------------------------------------
\* The invariant holds in every reachable state.
LEMMA Invariance == Spec => []IInv
<1> QED
  BY InitInv, StepInv, PTL DEF Spec

\* The process's state is well typed: whatever the directory of packets holds,
\* as many slots stay as there were, each with a file or empty.
THEOREM ServerTyped == Spec => []ServerTypeOK
<1>1. IInv => ServerTypeOK
  BY DEF IInv
<1> QED
  BY <1>1, Invariance, PTL

\* A handler thread never sees a registry or a context that is not complete.
THEOREM ReadersSafe == Spec => []ReadersSeeBuilt
<1>1. IInv => ReadersSeeBuilt
  BY OrderSuffices DEF IInv
<1> QED
  BY <1>1, Invariance, PTL

\* Nobody writes the registry or the context while a handler thread runs, so
\* reading them without a lock is no data race (Registry.h:12).
THEOREM NoWriteBesideReaders == Spec => WrittenOnlyAlone
<1>1. IInv /\ [Next]_vars => [Handling # {} => built' = built]_vars
  BY StepAlone
<1> QED
  BY <1>1, Invariance, PTL DEF Spec, WrittenOnlyAlone

-----------------------------------------------------------------------------
(* The registry, for any file, any hash and any number of buckets.         *)

\* The entries that the loader has mapped when it is at a.
Done(f, a) == {e \in Entries(f) : e[1] < a[1] \/ (e[1] = a[1] /\ e[2] < a[2])}

\* The maps hold these entries of the file and nothing else.
Mapped(es) ==
  /\ stateToId = {<<StateOf(file, e), IdOf(file, e)>> : e \in es}
  /\ DOMAIN idToState = {IdOf(file, e) : e \in es}
  /\ \A e \in es : idToState[IdOf(file, e)] = StateOf(file, e)

Place ==
  /\ at = <<at[1], at[2]>> /\ at[1] \in 1..(Len(file) + 1) /\ at[2] \in Nat
  /\ at[1] \in DOMAIN file => at[2] <= Len(file[at[1]].states) + 1
  /\ at[1] \notin DOMAIN file => at[2] = 0

RegistryInv ==
  /\ file \in Registries
  /\ instance = "loading" => Place
  /\ instance = "loading" /\ WellFormed(file) => Mapped(Done(file, at))
  /\ instance = "loaded" /\ WellFormed(file) => Mapped(Entries(file))

\* An entry is a pair of positions.
LEMMA EntriesAre ==
  ASSUME NEW f \in Registries
  PROVE  /\ Len(f) \in Nat /\ DOMAIN f = 1..Len(f)
         /\ \A i \in DOMAIN f : /\ Len(f[i].states) \in Nat
                                /\ DOMAIN f[i].states = 1..Len(f[i].states)
         /\ \A e : e \in Entries(f) <=>
              /\ e = <<e[1], e[2]>>
              /\ e[1] \in DOMAIN f /\ e[2] \in DOMAIN f[e[1]].states
<1>1. f \in Seq(Range(f)) /\ \A i \in DOMAIN f : f[i].states \in Seq(Range(f[i].states))
  BY RegistryAssumption
<1>2. Len(f) \in Nat /\ DOMAIN f = 1..Len(f)
  BY <1>1
<1>3. \A i \in DOMAIN f : /\ Len(f[i].states) \in Nat
                          /\ DOMAIN f[i].states = 1..Len(f[i].states)
  BY <1>1
<1>4. \A e : e \in Entries(f) <=>
         /\ e = <<e[1], e[2]>>
         /\ e[1] \in DOMAIN f /\ e[2] \in DOMAIN f[e[1]].states
  BY DEF Entries
<1> QED
  BY <1>2, <1>3, <1>4

\* In a well-formed file the lookup's equality, which looks at one side only,
\* takes no two states for one.
LEMMA EqualIsSame ==
  ASSUME NEW f, WellFormed(f), NEW d \in Entries(f), NEW e \in Entries(f),
         Equal(StateOf(f, d), StateOf(f, e))
  PROVE  d = e
<1> DEFINE s == StateOf(f, d)
           t == StateOf(f, e)
<1> SUFFICES ASSUME d # e PROVE s = t
  BY DEF WellFormed
<1>1. s.id = t.id /\ DOMAIN s.properties = DOMAIN t.properties
  BY DEF WellFormed, Equal
<1>2. \A p \in DOMAIN s.properties : t.properties[p] = s.properties[p]
  BY DEF Equal
<1>3. /\ s = [id |-> s.id, properties |-> s.properties]
      /\ t = [id |-> t.id, properties |-> t.properties]
  BY DEF StateOf, BlockState
<1>4. /\ s.properties = [p \in DOMAIN s.properties |-> s.properties[p]]
      /\ t.properties = [p \in DOMAIN t.properties |-> t.properties[p]]
  BY DEF StateOf, BlockState
<1>5. s.properties = t.properties
  BY <1>1, <1>2, <1>4
<1> QED
  BY <1>1, <1>3, <1>5

\* What a lookup of an entry's state can find among the entries mapped: that
\* entry, whatever shares its bucket, or nothing.
LEMMA MatchesOf ==
  ASSUME WellFormed(file), NEW es \in SUBSET Entries(file),
         stateToId = {<<StateOf(file, e), IdOf(file, e)>> : e \in es},
         NEW d \in Entries(file)
  PROVE  Matches(StateOf(file, d)) =
           IF d \in es THEN {<<StateOf(file, d), IdOf(file, d)>>} ELSE {}
<1> DEFINE node(e) == <<StateOf(file, e), IdOf(file, e)>>
<1>1. ASSUME NEW n \in Matches(StateOf(file, d)) PROVE d \in es /\ n = node(d)
  <2>1. PICK e \in es : n = node(e)
    BY <1>1 DEF Matches
  <2>2. Equal(StateOf(file, d), StateOf(file, e))
    BY <1>1, <2>1 DEF Matches
  <2> QED
    BY <2>1, <2>2, EqualIsSame
<1>2. ASSUME d \in es PROVE node(d) \in Matches(StateOf(file, d))
  BY <1>2 DEF Matches, Equal
<1> QED
  BY <1>1, <1>2

\* Mapping one more entry of a well-formed file adds it and keeps the others.
LEMMA OneMore ==
  ASSUME WellFormed(file), NEW es \in SUBSET Entries(file), Mapped(es),
         NEW d \in Entries(file), d \notin es,
         stateToId' = Emplaced(StateOf(file, d), IdOf(file, d)),
         idToState' = [i \in DOMAIN idToState \cup {IdOf(file, d)} |->
                         IF i \in DOMAIN idToState THEN idToState[i] ELSE StateOf(file, d)],
         UNCHANGED file
  PROVE  Mapped(es \cup {d})'
<1>1. Matches(StateOf(file, d)) = {}
  BY MatchesOf DEF Mapped
<1>2. stateToId' = {<<StateOf(file, e), IdOf(file, e)>> : e \in es \cup {d}}
  BY <1>1 DEF Emplaced, Mapped
<1>3. IdOf(file, d) \notin DOMAIN idToState
  BY DEF Mapped, WellFormed
<1>4. DOMAIN idToState' = {IdOf(file, e) : e \in es \cup {d}}
  BY DEF Mapped
<1>5. \A e \in es \cup {d} : idToState'[IdOf(file, e)] = StateOf(file, e)
  BY <1>3 DEF Mapped
<1> QED
  BY <1>2, <1>4, <1>5 DEF Mapped

-----------------------------------------------------------------------------
(* The loader's steps.                                                     *)

\* The loader begins before the first entry, with empty maps.
LEMMA InitInstanceKeeps == RegistryInv /\ InitInstance => RegistryInv'
<1> SUFFICES ASSUME RegistryInv, InitInstance PROVE RegistryInv'
  OBVIOUS
<1>1. file \in Registries /\ file' = file /\ at' = <<1, 0>> /\ instance' # "loaded"
  BY DEF RegistryInv, InitInstance
<1>2. Len(file) \in Nat /\ DOMAIN file = 1..Len(file)
  BY <1>1, EntriesAre
<1>3. Place'
  <2>1. 1 \in DOMAIN file => Len(file[1].states) \in Nat
    BY <1>1, EntriesAre
  <2> QED
    BY <1>1, <1>2, <2>1 DEF Place
<1>4. Done(file, at)' = {}
  <2>1. \A e \in Entries(file) : e[1] \in Nat \ {0} /\ e[2] \in Nat \ {0}
    BY <1>1, EntriesAre
  <2> QED
    BY <1>1, <2>1 DEF Done
<1>5. Mapped({})'
  BY DEF InitInstance, Mapped, Nothing
<1> QED
  BY <1>1, <1>3, <1>4, <1>5 DEF RegistryInv

\* A block begins before its first entry.
LEMMA NextBlockKeeps == RegistryInv /\ NextBlock => RegistryInv'
<1> SUFFICES ASSUME RegistryInv, NextBlock PROVE RegistryInv'
  OBVIOUS
<1>1. /\ file \in Registries /\ instance = "loading" /\ Place
      /\ UNCHANGED <<file, stateToId, idToState>>
  BY DEF RegistryInv, NextBlock
<1>2. CASE instance' = "half"
  BY <1>1, <1>2 DEF RegistryInv
<1>3. CASE instance' # "half"
  <2>1. /\ instance' = "loading" /\ at' = <<at[1], 1>>
        /\ at[1] <= Len(file) /\ at[2] = 0
    BY <1>1, <1>3 DEF NextBlock
  <2>2. at[1] \in DOMAIN file /\ Len(file[at[1]].states) \in Nat
    BY <1>1, <2>1, EntriesAre DEF Place
  <2>3. Place'
    BY <1>1, <2>1, <2>2 DEF Place
  <2>4. Done(file, at)' = Done(file, at)
    <3>1. \A e \in Entries(file) : e[1] \in Nat /\ e[2] \in Nat \ {0}
      BY <1>1, EntriesAre
    <3> QED
      BY <1>1, <2>1, <3>1 DEF Done, Place
  <2>5. WellFormed(file) => Mapped(Done(file, at))'
    BY <1>1, <2>4 DEF RegistryInv, Mapped
  <2> QED
    BY <1>1, <2>1, <2>3, <2>5 DEF RegistryInv
<1> QED
  BY <1>2, <1>3

\* One more entry is done and mapped.
LEMMA MapStateKeeps == RegistryInv /\ MapState => RegistryInv'
<1> SUFFICES ASSUME RegistryInv, MapState PROVE RegistryInv'
  OBVIOUS
<1>1. /\ file \in Registries /\ instance = "loading" /\ Place
      /\ at[1] <= Len(file) /\ at[2] \in DOMAIN file[at[1]].states
      /\ at' = <<at[1], at[2] + 1>> /\ UNCHANGED <<instance, file>>
  BY DEF RegistryInv, MapState
<1>2. /\ at[1] \in DOMAIN file
      /\ DOMAIN file[at[1]].states = 1..Len(file[at[1]].states)
      /\ Len(file[at[1]].states) \in Nat
  BY <1>1, EntriesAre DEF Place
<1>3. Place'
  BY <1>1, <1>2 DEF Place
<1>4. at \in Entries(file) \ Done(file, at)
  BY <1>1, <1>2, EntriesAre DEF Place, Done
<1>5. Done(file, at)' = Done(file, at) \cup {at}
  <2>1. \A e \in Entries(file) : e = <<e[1], e[2]>> /\ e[1] \in Nat /\ e[2] \in Nat
    BY <1>1, EntriesAre
  <2>2. \A e \in Entries(file) :
          e[1] < at[1] \/ (e[1] = at[1] /\ e[2] < at[2] + 1)
            <=> (e[1] < at[1] \/ (e[1] = at[1] /\ e[2] < at[2])) \/ e = at
    BY <1>1, <2>1 DEF Place
  <2>3. Done(file, at)' = {e \in Entries(file) : e[1] < at[1] \/ (e[1] = at[1] /\ e[2] < at[2] + 1)}
    BY <1>1 DEF Done
  <2> QED
    BY <1>4, <2>2, <2>3 DEF Done
<1>6. ASSUME WellFormed(file), NEW es, es = Done(file, at), NEW d, d = at
      PROVE  Mapped(es \cup {d})'
  <2>1. es \in SUBSET Entries(file) /\ d \in Entries(file) /\ d \notin es
    BY <1>4, <1>6 DEF Done
  <2>2. Mapped(es)
    BY <1>1, <1>6 DEF RegistryInv
  <2>3. /\ stateToId' = Emplaced(StateOf(file, d), IdOf(file, d))
        /\ idToState' = [i \in DOMAIN idToState \cup {IdOf(file, d)} |->
                           IF i \in DOMAIN idToState THEN idToState[i] ELSE StateOf(file, d)]
    BY <1>6 DEF MapState
  <2> QED
    BY <1>1, <1>6, <2>1, <2>2, <2>3, OneMore
<1>7. WellFormed(file) => Mapped(Done(file, at))'
  <2>1. PICK es, d : es = Done(file, at) /\ d = at
    OBVIOUS
  <2>2. Done(file, at)' = es \cup {d}
    BY <1>5, <2>1
  <2>3. PICK all : all = es \cup {d}
    OBVIOUS
  <2>4. WellFormed(file) => Mapped(es \cup {d})'
    BY <1>6, <2>1
  <2>5. WellFormed(file) => Mapped(all)'
    BY <2>3, <2>4
  <2>6. Done(file, at)' = all
    BY <2>2, <2>3
  <2> QED
    BY <2>5, <2>6 DEF Mapped
<1> QED
  BY <1>1, <1>3, <1>7 DEF RegistryInv

\* After its last entry a block is done with, and the next one not begun.
LEMMA EndOfBlockKeeps == RegistryInv /\ EndOfBlock => RegistryInv'
<1> SUFFICES ASSUME RegistryInv, EndOfBlock PROVE RegistryInv'
  OBVIOUS
<1>1. /\ file \in Registries /\ instance = "loading" /\ Place
      /\ at[1] <= Len(file) /\ at[2] = Len(file[at[1]].states) + 1
      /\ at' = <<at[1] + 1, 0>> /\ UNCHANGED <<instance, file, stateToId, idToState>>
  BY DEF RegistryInv, EndOfBlock
<1>2. Len(file) \in Nat /\ DOMAIN file = 1..Len(file) /\ at[1] \in DOMAIN file
  BY <1>1, EntriesAre DEF Place
<1>3. Place'
  <2>1. at[1] + 1 \in DOMAIN file => Len(file[at[1] + 1].states) \in Nat
    BY <1>1, EntriesAre
  <2> QED
    BY <1>1, <1>2, <2>1 DEF Place
<1>4. Done(file, at)' = Done(file, at)
  <2>1. \A e \in Entries(file) :
          /\ e[1] \in Nat /\ e[2] \in Nat \ {0}
          /\ e[1] = at[1] => e[2] <= Len(file[at[1]].states)
    BY <1>1, EntriesAre
  <2>2. Len(file[at[1]].states) \in Nat /\ at[1] \in Nat
    BY <1>1, <1>2, EntriesAre DEF Place
  <2>3. \A e \in Entries(file) :
          e[1] < at[1] + 1 \/ (e[1] = at[1] + 1 /\ e[2] < 0)
            <=> e[1] < at[1] \/ (e[1] = at[1] /\ e[2] < at[2])
    BY <1>1, <2>1, <2>2
  <2> QED
    BY <1>1, <2>3 DEF Done
<1>5. WellFormed(file) => Mapped(Done(file, at))'
  BY <1>1, <1>4 DEF RegistryInv, Mapped
<1> QED
  BY <1>1, <1>3, <1>5 DEF RegistryInv

\* After the last block every entry is done.
LEMMA EndOfFileKeeps == RegistryInv /\ EndOfFile => RegistryInv'
<1> SUFFICES ASSUME RegistryInv, EndOfFile PROVE RegistryInv'
  OBVIOUS
<1>1. /\ file \in Registries /\ instance = "loading" /\ Place /\ at[1] > Len(file)
      /\ instance' = "loaded" /\ UNCHANGED <<file, at, stateToId, idToState>>
  BY DEF RegistryInv, EndOfFile
<1>2. Done(file, at) = Entries(file)
  <2>1. \A e \in Entries(file) : e[1] \in 1..Len(file)
    BY <1>1, EntriesAre
  <2>2. Len(file) \in Nat
    BY <1>1, EntriesAre
  <2> QED
    BY <1>1, <2>1, <2>2 DEF Done, Place
<1> QED
  BY <1>1, <1>2 DEF RegistryInv, Mapped

-----------------------------------------------------------------------------
(* The process: each of its steps is one of Server's, or none.             *)

\* A step of the process is one of the server, or none.
LEMMA ProcessStep == [ProcessNext]_<<vars, maps>> => [Next]_vars
<1>1. LoadRegistry => [Next]_vars
  BY DEF LoadRegistry, Next, WithRegistry
<1>2. FreeRegistry => [Next]_vars
  BY DEF FreeRegistry, Next, WithRegistry
<1> QED
  BY <1>1, <1>2 DEF ProcessNext, Next

\* The registry's part of the invariant, over every step of the process.
LEMMA RegistryStep == RegistryInv /\ [ProcessNext]_<<vars, maps>> => RegistryInv'
<1> SUFFICES ASSUME RegistryInv, [ProcessNext]_<<vars, maps>> PROVE RegistryInv'
  OBVIOUS
<1>1. CASE LoadRegistry
  BY <1>1, InitInstanceKeeps, NextBlockKeeps, MapStateKeeps, EndOfBlockKeeps, EndOfFileKeeps
     DEF LoadRegistry, Loading
<1>2. CASE FreeRegistry
  BY <1>2 DEF FreeRegistry, DeinitInstance, RegistryInv
<1>3. CASE UNCHANGED maps
  BY <1>3 DEF maps, RegistryInv, Place, Mapped
<1> QED
  BY <1>1, <1>2, <1>3 DEF ProcessNext

\* The maps of a whole file answer as they should.
LEMMA MappedIsExact == RegistryInv => Exact
<1> SUFFICES ASSUME RegistryInv, instance = "loaded", WellFormed(file)
             PROVE  /\ \A e \in Entries(file) :
                         /\ GetBlockStateId(StateOf(file, e)) = {IdOf(file, e)}
                         /\ GetBlockState(IdOf(file, e)) = <<StateOf(file, e)>>
                    /\ DOMAIN idToState = {IdOf(file, e) : e \in Entries(file)}
  BY DEF Exact
<1>1. Mapped(Entries(file))
  BY DEF RegistryInv
<1>2. ASSUME NEW e \in Entries(file)
      PROVE  GetBlockStateId(StateOf(file, e)) = {IdOf(file, e)}
  <2>1. Matches(StateOf(file, e)) = {<<StateOf(file, e), IdOf(file, e)>>}
    BY <1>1, MatchesOf DEF Mapped
  <2> QED
    BY <2>1 DEF GetBlockStateId
<1>3. ASSUME NEW e \in Entries(file)
      PROVE  GetBlockState(IdOf(file, e)) = <<StateOf(file, e)>>
  BY <1>1 DEF Mapped, GetBlockState
<1> QED
  BY <1>1, <1>2, <1>3 DEF Mapped

\* The detailed process is a process as Server describes it: the loader's
\* steps before its last one are stutters.
THEOREM ProcessImplementsServer == ProcessSpec => Spec
<1> QED
  BY ProcessStep, PTL DEF ProcessSpec, ProcessInit, Spec

\* A registry that the process has loaded answers every state of a well-formed
\* file with its id and every id with its state, on any hash.
THEOREM RegistryExact == ProcessSpec => []Exact
<1>1. ProcessInit => RegistryInv
  BY DEF ProcessInit, NoInstance, RegistryInv
<1> QED
  BY <1>1, RegistryStep, MappedIsExact, PTL DEF ProcessSpec

\* So what the handlers are promised holds beside the loader's single steps.
THEOREM ProcessReadersSafe == ProcessSpec => []ReadersSeeBuilt /\ WrittenOnlyAlone
<1> QED
  BY ProcessImplementsServer, ReadersSafe, NoWriteBesideReaders, PTL
=============================================================================
