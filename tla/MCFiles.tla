------------------------------ MODULE MCFiles ------------------------------
(***************************************************************************)
(* ChatFiles and TurnParams on small instances for TLC, in one run: a      *)
(* behaviour is about the files under the chats' names, or about models,   *)
(* their parameters and sessions.                                          *)
(***************************************************************************)
EXTENDS ChatFiles, MCTurnParams

VARIABLE part

MCInit ==
    /\ FilesInit /\ Init
    /\ part \in {"files", "models"}
    /\ part = "files" =>
          setup = (CHOOSE s \in Setups : TRUE) /\ \A c \in Chats : ~config[c].save

MCNext ==
    /\ UNCHANGED part
    /\ \/ part = "files" /\ FilesNext /\ UNCHANGED vars
       \/ part = "models" /\ Next /\ UNCHANGED fileVars

MCSpec == MCInit /\ [][MCNext]_<<part, fileVars, vars>>
============================================================================
