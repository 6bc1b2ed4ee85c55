--------------------------- MODULE ContextMemory ---------------------------
(***************************************************************************)
(* What the context window promises the chat: the model remembers a        *)
(* sequence of tokens.  It learns new tokens at the end and, when room is  *)
(* short, forgets one block behind the first Keep tokens.  Nothing else    *)
(* happens to it: no shift, no image, no position ever reorders it or      *)
(* drops a token anywhere else.  Only a model whose evaluations fail       *)
(* promises nothing.                                                       *)
(***************************************************************************)
EXTENDS Naturals, Sequences

CONSTANTS
    Tokens,     \* what can be remembered
    Keep,       \* the first tokens, which are never forgotten
    Room        \* how many tokens fit

VARIABLES
    memory,
    broken      \* do evaluations fail?

\* The memory without the n tokens behind the first i.
Without(m, i, n) == SubSeq(m, 1, i) \o SubSeq(m, i + n + 1, Len(m))

Learn ==
    /\ Len(memory') \in Len(memory) + 1..Room
    /\ SubSeq(memory', 1, Len(memory)) = memory

Forget == \E n \in 1..Len(memory) - Keep : memory' = Without(memory, Keep, n)

Init == memory = << >>

Next == broken \/ Learn \/ Forget

Spec == Init /\ [][Next]_memory
============================================================================
