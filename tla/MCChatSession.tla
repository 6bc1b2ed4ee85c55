--------------------------- MODULE MCChatSession ---------------------------
(* ChatSession on small instances for TLC. *)
EXTENDS ChatSession, TLC

\* Chats and AI objects are interchangeable in the safety runs.
Symmetry == Permutations(Chats) \cup Permutations(AIs)

Identities(msgs) == [i \in DOMAIN msgs |-> <<msgs[i].from, msgs[i].id>>]

\* What the run on all schedules tells states apart by.  Left out: how a message is
\* shown, the fields of deallocated objects, the AI of a finished turn, the history
\* variables.  No guard and none of that run's invariants depends on them.
View == <<chatName, Identities(messages), [c \in Chats |-> Identities(history[c])],
          state, predicting, chat, opening, opened, rag, mainQ, nRequests,
          [a \in AIs |-> IF a \in Free \ {chat} THEN NoAI ELSE ai[a]],
          [t \in DOMAIN turn |-> IF Alive(t) THEN <<turn[t].pc, turn[t].ai>> ELSE NoAI]>>
============================================================================
