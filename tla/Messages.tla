------------------------------ MODULE Messages ------------------------------
(***************************************************************************)
(* The messages the server sends, one per packet class it serialises or    *)
(* raw packet it forwards.  A message is [type, n]: n numbers the registry *)
(* packets and the chunks of a batch and is 0 elsewhere; contents are left *)
(* out.                                                                    *)
(***************************************************************************)
EXTENDS Integers

CONSTANTS NumRegistries,   \* registry packets of one configuration (22)
          NumChunks        \* chunk packets of one join (16 * 16)

ASSUME NumRegistriesAssumption == NumRegistries \in Nat \ {0}
ASSUME NumChunksAssumption == NumChunks \in Nat \ {0}

Msg(type, n) == [type |-> type, n |-> n]

\* "None" stands for: nothing was sent yet.
None == Msg("None", 0)

Single == {"Status", "Pong", "LoginSuccess", "KnownPacks", "Finish",
           "LoginPlay", "GameEvent", "ChunkCenter", "Sync"}

Message == {Msg(t, 0) : t \in Single}
             \cup {Msg("Registry", k) : k \in 1..NumRegistries}
             \cup {Msg("Chunk", k) : k \in 1..NumChunks}
=============================================================================
