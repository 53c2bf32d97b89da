-------------------------- MODULE SessionContract --------------------------
(***************************************************************************)
(* What one connection promises its client, whatever the client sends: the *)
(* order in which the messages of a session may arrive.  PlayerHandler is  *)
(* shown to implement this module.                                         *)
(***************************************************************************)
EXTENDS Messages

VARIABLES sent,   \* the last message the client was sent
          open    \* the connection's handler has not ended

vars == <<sent, open>>

\* b may be the message sent right after a: a status session only answers
\* status requests and pings; a login session goes from login to
\* configuration to play and never back, sends the registries of a
\* configuration complete and in order before it announces the end of it,
\* and the chunks of a join complete and in order before the first position.
Follows(a, b) ==
  \/ /\ a.type \in {"None", "Status", "Pong"}
     /\ b \in {Msg("Status", 0), Msg("Pong", 0)}
  \/ /\ a.type \in {"None", "LoginSuccess"}
     /\ b \in {Msg("LoginSuccess", 0), Msg("KnownPacks", 0)}
  \/ /\ a.type \in {"KnownPacks", "Finish"}
     /\ b \in {Msg("Registry", 1), Msg("LoginPlay", 0)}
  \/ /\ a.type = "Registry"
     /\ b = IF a.n < NumRegistries THEN Msg("Registry", a.n + 1)
                                   ELSE Msg("Finish", 0)
  \/ a.type = "LoginPlay" /\ b = Msg("GameEvent", 0)
  \/ a.type = "GameEvent" /\ b = Msg("ChunkCenter", 0)
  \/ a.type = "ChunkCenter" /\ b = Msg("Chunk", 1)
  \/ /\ a.type = "Chunk"
     /\ b = IF a.n < NumChunks THEN Msg("Chunk", a.n + 1) ELSE Msg("Sync", 0)
  \/ a.type = "Sync" /\ b = Msg("Sync", 0)

-----------------------------------------------------------------------------
Init == sent = None /\ open = TRUE

Deliver == /\ open
           /\ \E m \in Message : Follows(sent, m) /\ sent' = m
           /\ UNCHANGED open

Close == open /\ open' = FALSE /\ UNCHANGED sent

Next == Deliver \/ Close

Spec == Init /\ [][Next]_vars
=============================================================================
