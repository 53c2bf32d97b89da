-------------------------------- MODULE Process --------------------------------
(***************************************************************************)
(* The whole life of the process: Server, with the registry that main      *)
(* loads at its start and frees at its end made of the steps of            *)
(* BlockStateRegistry.  What Server calls InitRegistry is the last of the  *)
(* loader's steps, the one that returns or throws; each step of Process is *)
(* a step of Server or leaves its variables alone.                         *)
(***************************************************************************)
EXTENDS Server, BlockStateRegistry

ProcessInit == Init /\ NoInstance

\* Init and LoadRegistryFile: only main runs, but a client may go meanwhile.
LoadRegistry ==
  /\ Alive /\ main = "registry"
  /\ InitInstance \/ Loading
  /\ IF instance' = "loading"
       THEN UNCHANGED vars
       ELSE InitRegistry /\ (registry' = "loaded" <=> instance' = "loaded")

FreeRegistry == Alive /\ Deinit /\ DeinitInstance

ProcessNext ==
  \/ LoadRegistry
  \/ FreeRegistry
  \/ WithoutRegistry /\ UNCHANGED maps

\* The main thread goes on unless it waits for the console; a handler that has
\* not reached PLAY and whose client has left returns (LeaverReleased), and so
\* does Run when it has none left.  No handler in PLAY need ever end.
Fairness ==
  /\ WF_<<vars, maps>>(LoadRegistry)
  /\ WF_<<vars, maps>>(FreeRegistry)
  /\ WF_vars(Alive /\ (BuildServer \/ Spawn \/ Join))
  /\ WF_vars(Alive /\ RunReturns)
  /\ \A c \in Clients : WF_vars(Alive /\ Returns(c))

ProcessSpec == ProcessInit /\ [][ProcessNext]_<<vars, maps>> /\ Fairness

=============================================================================
