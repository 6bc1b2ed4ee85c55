--------------------------- MODULE MCLlamaContext ---------------------------
(* LlamaContext on small windows for TLC. *)
EXTENDS LlamaContext, TLC

Symmetry == Permutations(Tokens)
============================================================================
