------------------------------- MODULE MCLive -------------------------------
(***************************************************************************)
(* ChatSession and Downloads on small instances for TLC, in one run of     *)
(* what must eventually happen: a behaviour is about the chat window, or   *)
(* about the view of the downloads.                                        *)
(***************************************************************************)
EXTENDS ChatSession, MCDownloads

VARIABLE part

MCInit ==
    /\ Init /\ DownloadsInit
    /\ \/ part = "chat" /\ setup = (CHOOSE s \in Setups : s.waits)
       \/ part = "downloads" /\ chatName = (CHOOSE c \in Chats : TRUE)

MCNext ==
    /\ UNCHANGED part
    /\ \/ part = "chat" /\ Next /\ UNCHANGED downloadVars
       \/ part = "downloads" /\ DownloadsNext /\ UNCHANGED vars

\* What is fair in the other part is never enabled.
MCSpec ==
    /\ MCInit /\ [][MCNext]_<<part, vars, downloadVars>>
    /\ Fairness /\ DownloadsFairness
============================================================================
