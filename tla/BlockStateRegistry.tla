-------------------------- MODULE BlockStateRegistry --------------------------
(***************************************************************************)
(* The block states of registries/blocks.json and their ids, both ways     *)
(* (src/Registry.cpp), over the hash and the equality of block states      *)
(* (BlockState.h).  The equality is not symmetric: it looks at the         *)
(* properties of its left side only, which is the key that is looked up.   *)
(***************************************************************************)
EXTENDS Integers, Sequences, Functions

CONSTANTS
  Registries,  \* what the file may hold: sequences of blocks, see RegistryAssumption
  Buckets      \* values of the hash of a formatted block state

ASSUME BucketsAssumption == Buckets # {}

\* A block: its name, whether it has properties, and its states: an id, and
\* the properties, each with a kind and the text it is formatted as.  Kind
\* "other" is one that PropertyValue cannot hold.
ASSUME RegistryAssumption ==
  \A f \in Registries :
    /\ f \in Seq(Range(f))
    /\ \A i \in DOMAIN f :
         /\ f[i].hasProperties \in BOOLEAN
         /\ f[i].states \in Seq(Range(f[i].states))
         /\ \A k \in DOMAIN f[i].states : f[i].states[k].id \in Int

VARIABLES
  instance,    \* s_registryInstance: "null", "loading", "half", "loaded"
  file,        \* what is in registries/blocks.json
  at,          \* the state the loader is at: <<block, state>>
  stateToId,   \* the nodes of m_stateToIdMap: <<block state, id>>
  idToState,   \* m_idToBlockState
  hash         \* std::hash<std::string>, by what is formatted

maps == <<instance, file, at, stateToId, idToState, hash>>

-----------------------------------------------------------------------------
(* Identifier(value) and BlockState.                                       *)

\* util::toLower, then a regex of one character class without a repetition,
\* and without a "not" in front of the match: it is the values that are one
\* allowed character that throw.
Identifier(name) == name.lower
IdentifierThrows(name) == name.single /\ name.allowed

\* AddProperty for the kinds that a PropertyValue can hold.
Supported == {"string", "int", "bool"}
BlockState(block, state) ==
  [id |-> Identifier(block.name),
   properties |-> IF block.hasProperties
                    THEN [p \in {q \in DOMAIN state.properties :
                                   state.properties[q].kind \in Supported} |->
                            state.properties[p]]
                    ELSE [p \in {} |-> p]]

\* format("{}[{}]", ...) keeps the texts, not the kinds.
Formatted(s) == <<s.id, [p \in DOMAIN s.properties |-> s.properties[p].text]>>

\* equal_to(lhs, rhs)
EqualIdOnlyMutant(lhs, rhs) == lhs.id = rhs.id
Equal(lhs, rhs) ==
  /\ lhs.id = rhs.id
  /\ \A p \in DOMAIN lhs.properties :
       p \in DOMAIN rhs.properties /\ rhs.properties[p] = lhs.properties[p]

Matches(s) == {n \in stateToId : hash[Formatted(n[1])] = hash[Formatted(s)] /\ Equal(s, n[1])}

\* Both lookups: what they may answer, "none" for an empty optional.  Which of
\* several matches is found first depends on the buckets.
GetBlockStateId(s) ==
  IF Matches(s) = {} THEN {"none"} ELSE {n[2] : n \in Matches(s)}
GetBlockState(id) == IF id \in DOMAIN idToState THEN <<idToState[id]>> ELSE <<>>

-----------------------------------------------------------------------------
\* The states of a file in its order, as what will be mapped to what.
Entries(f) ==
  UNION {{<<i, k>> : k \in DOMAIN f[i].states} : i \in DOMAIN f}
StateOf(f, e) == BlockState(f[e[1]], f[e[1]].states[e[2]])
IdOf(f, e) == f[e[1]].states[e[2]].id

FormattedOf(f) == {Formatted(StateOf(f, e)) : e \in Entries(f)}

Nothing == [n \in {} |-> n]

NoInstance ==
  /\ instance = "null"
  /\ file \in Registries
  /\ at = <<1, 0>>
  /\ stateToId = {} /\ idToState = Nothing
  /\ hash \in [FormattedOf(file) -> Buckets]

\* BlockStateRegistry::Init(path): a new, empty instance.  A file that is no
\* JSON throws at once.
InitInstance ==
  /\ instance = "null"
  /\ instance' \in {"loading", "half"}
  /\ at' = <<1, 0>>
  /\ stateToId' = {} /\ idToState' = Nothing
  /\ UNCHANGED <<file, hash>>

\* The loop over the blocks: the Identifier of the next one.
NextBlock ==
  /\ instance = "loading" /\ at[1] <= Len(file) /\ at[2] = 0
  /\ IF IdentifierThrows(file[at[1]].name)
       THEN instance' = "half" /\ UNCHANGED at
       ELSE at' = <<at[1], 1>> /\ UNCHANGED instance
  /\ UNCHANGED <<file, stateToId, idToState, hash>>

\* The loop over its states: MapState, emplace into both maps, neither of
\* which replaces what it has.
Emplaced(s, id) == IF Matches(s) = {} THEN stateToId \cup {<<s, id>>} ELSE stateToId
MapState ==
  /\ instance = "loading" /\ at[1] <= Len(file)
  /\ at[2] \in DOMAIN file[at[1]].states
  /\ LET s == StateOf(file, at)
         id == IdOf(file, at)
     IN  /\ stateToId' = Emplaced(s, id)
         /\ idToState' = [i \in DOMAIN idToState \cup {id} |->
                            IF i \in DOMAIN idToState THEN idToState[i] ELSE s]
  /\ at' = <<at[1], at[2] + 1>>
  /\ UNCHANGED <<instance, file, hash>>

EndOfBlock ==
  /\ instance = "loading" /\ at[1] <= Len(file)
  /\ at[2] = Len(file[at[1]].states) + 1
  /\ at' = <<at[1] + 1, 0>>
  /\ UNCHANGED <<instance, file, stateToId, idToState, hash>>

EndOfFile ==
  /\ instance = "loading" /\ at[1] > Len(file)
  /\ instance' = "loaded"
  /\ UNCHANGED <<file, at, stateToId, idToState, hash>>

Loading == NextBlock \/ MapState \/ EndOfBlock \/ EndOfFile

\* BlockStateRegistry::Deinit() frees the instance, whatever Init made of it.
DeinitInstance ==
  /\ instance' = "null"
  /\ stateToId' = {} /\ idToState' = Nothing
  /\ UNCHANGED <<file, at, hash>>

-----------------------------------------------------------------------------
\* No state and no id twice, and the states of one block all have the same
\* properties: then nothing depends on the hash.
WellFormed(f) ==
  \A d, e \in Entries(f) : d # e =>
    /\ IdOf(f, d) # IdOf(f, e)
    /\ StateOf(f, d) # StateOf(f, e)
    /\ StateOf(f, d).id = StateOf(f, e).id =>
         DOMAIN StateOf(f, d).properties = DOMAIN StateOf(f, e).properties

\* A registry that is loaded answers, for a well-formed file, every state of
\* it with its id and every id with its state, on every hash.
Exact ==
  instance = "loaded" /\ WellFormed(file) =>
    /\ \A e \in Entries(file) :
         /\ GetBlockStateId(StateOf(file, e)) = {IdOf(file, e)}
         /\ GetBlockState(IdOf(file, e)) = <<StateOf(file, e)>>
    /\ DOMAIN idToState = {IdOf(file, e) : e \in Entries(file)}
=============================================================================
