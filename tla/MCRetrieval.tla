---------------------------- MODULE MCRetrieval ----------------------------
(***************************************************************************)
(* RagIndex and RetrievalCalls on small instances for TLC, in one run: a   *)
(* behaviour is about the documents and indexes of the chats, or is one    *)
(* call of the functions that RagIndex takes as single steps.              *)
(***************************************************************************)
EXTENDS RagIndex, RetrievalCalls

CONSTANTS c1, c2, m1, m2, f1, f2

\* Two chats with different embedding models; m1 is the one a process starts with.
TwoModels == c1 :> m1 @@ c2 :> m2

\* Crashes; torn files; one chat, whose model is not the default, in longer behaviours; no
\* faults, so that something must eventually happen; copies, removals and writes that fail,
\* with two chats and with one; and another model picked, when all writes succeed and not.
AllSetups ==
    {[chats |-> {c1, c2}, textless |-> {f2}, ops |-> 3, faults |-> {"crash"}],
     [chats |-> {c1, c2}, textless |-> {}, ops |-> 3, faults |-> {"crash", "torn"}],
     [chats |-> {c2}, textless |-> {}, ops |-> 5, faults |-> {"crash"}],
     [chats |-> {c1, c2}, textless |-> {f2}, ops |-> 3, faults |-> {}],
     [chats |-> {c1, c2}, textless |-> {f2}, ops |-> 2, faults |-> {"copy", "remove"}],
     [chats |-> {c2}, textless |-> {f2}, ops |-> 4, faults |-> {"copy", "remove", "write"}],
     [chats |-> {c1, c2}, textless |-> {f2}, ops |-> 3, faults |-> {"write"}],
     [chats |-> {c2}, textless |-> {}, ops |-> 3, faults |-> {"picker"}],
     [chats |-> {c1, c2}, textless |-> {}, ops |-> 2, faults |-> {"write", "picker"}],
     [chats |-> {c2}, textless |-> {}, ops |-> 3, faults |-> {"crash", "torn", "write"}]}

NoCall ==
    /\ call = "none" /\ pc = None /\ chunkSize = None /\ chunks = None
    /\ NoCharacters /\ NoTokens /\ NoRecursive /\ NoRanking /\ NoInsertion

MCInit ==
    \/ RagInit /\ NoCall
    \/ RagInit /\ setup = (CHOOSE s \in Setups : s.faults = {}) /\ Init

MCNext ==
    \/ call = "none" /\ RagNext /\ UNCHANGED vars
    \/ Next /\ UNCHANGED ragVars

MCSpec ==
    /\ MCInit /\ [][MCNext]_<<ragVars, vars>>
    /\ \A s \in Slots : WF_ragVars(Step(s))
    /\ WF_vars(SplitTokens) /\ WF_vars(RunChild) /\ WF_vars(Resume)
============================================================================
