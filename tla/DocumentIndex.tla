--------------------------- MODULE DocumentIndex ---------------------------
(***************************************************************************)
(* What the documents view promises: every chat has a directory of         *)
(* documents and an index of them, and the index follows the directory.    *)
(* A document enters the index only while it is in the directory and       *)
(* leaves it only when it is gone from there.  Nothing is promised of a    *)
(* document whose copy or removal fails, while that is in hand, or of a    *)
(* process that may stop halfway in a write of an index.                   *)
(***************************************************************************)
CONSTANTS Chats, Files

VARIABLES
    docs, index,   \* chat -> set of files
    astray,        \* chat -> documents of which nothing is promised
    broken         \* can a write stop halfway?

Init == docs = [c \in Chats |-> {}] /\ index = [c \in Chats |-> {}]

ChangeDocs(c) ==
    /\ \E files \in SUBSET Files : docs' = [docs EXCEPT ![c] = files]
    /\ UNCHANGED index

\* One save may catch up with several changes, for this chat alone.
Follow(c) ==
    \E files \in SUBSET Files :
        /\ files \ index[c] \subseteq docs[c] \cup astray[c]
        /\ (index[c] \ files) \cap docs[c] \subseteq astray[c]
        /\ index' = [index EXCEPT ![c] = files]
        /\ UNCHANGED docs

Next == broken \/ \E c \in Chats : ChangeDocs(c) \/ Follow(c)

Spec == Init /\ [][Next]_<<docs, index>>
============================================================================
