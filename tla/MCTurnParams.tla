---------------------------- MODULE MCTurnParams ----------------------------
(* Constants of the TLC runs of TurnParams. *)
EXTENDS TurnParams, TLC

\* A small context holds one exchange, a large one three.
RoomSmallLarge == [small \in BOOLEAN |-> IF small THEN 1 ELSE 3]

\* A behaviour with loads that overlap is short; those whose loads follow one another
\* have intents, and three questions when every session property is at stake.
AllSetups ==
    {[may |-> {"overlap", "clip"}, exchanges |-> 1, edits |-> 2],
     [may |-> {"intents"}, exchanges |-> 3, edits |-> 0],
     [may |-> {"intents", "intents anywhere", "clip"}, exchanges |-> 2, edits |-> 0],
     [may |-> {"intents", "context"}, exchanges |-> 2, edits |-> 1]}

\* Questions of the user and of Shortcuts, and Clear.
IntentSetup == {[may |-> {"intents"}, exchanges |-> 2, edits |-> 0]}

\* Nothing but one question after the other.
PlainSetup == {[may |-> {}, exchanges |-> 2, edits |-> 0]}

MCSymmetry == Permutations(Models) \cup Permutations(Chats)

=============================================================================
