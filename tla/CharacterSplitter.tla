------------------------- MODULE CharacterSplitter -------------------------
(***************************************************************************)
(* CharacterSplitter.split, which the app uses with a space as separator:  *)
(* the words of a text are collected into chunks of chunkSize words, and a *)
(* new chunk starts with the last overlapSize words of the one before.     *)
(* Words are named by their position; trimming a chunk is left out.        *)
(***************************************************************************)
EXTENDS Integers, SequencesExt

CONSTANTS
    Sizes,     \* chunk sizes the settings hold
    Overlaps,  \* overlaps the settings hold
    MaxWords   \* bound: components of the text

VARIABLES
    chunkSize, overlapSize,  \* the arguments
    components,              \* how many components the text has
    read,                    \* components the loop has taken
    currentChunk, currentCount,
    chunks,
    pc

vars == <<chunkSize, overlapSize, components, read, currentChunk, currentCount, chunks, pc>>

Lesser(a, b) == IF a < b THEN a ELSE b
Greater(a, b) == IF a > b THEN a ELSE b

Init ==
    /\ chunkSize \in Sizes /\ overlapSize \in Overlaps
    /\ components \in 1..MaxWords
    /\ read = 0
    /\ currentChunk = << >> /\ currentCount = 0
    /\ chunks = << >>
    /\ pc = "loop"

\* The chunk has room for one more word.
Collect ==
    /\ pc = "loop" /\ read < components
    /\ currentCount < chunkSize
    /\ currentChunk' = Append(currentChunk, read + 1)
    /\ currentCount' = currentCount + 1
    /\ read' = read + 1
    /\ UNCHANGED <<chunkSize, overlapSize, components, chunks, pc>>

\* What a full chunk hands on to the next.
HandedOn(s) == SubSeq(s, Greater(0, Len(s) - overlapSize) + 1, Len(s))

\* Mutant of Flush: the word that did not fit is lost.
FlushDropsWord ==
    /\ pc = "loop" /\ read < components
    /\ currentCount >= chunkSize
    /\ chunks' = Append(chunks, currentChunk)
    /\ currentChunk' = HandedOn(currentChunk)
    /\ currentCount' = Len(currentChunk')
    /\ read' = read + 1
    /\ UNCHANGED <<chunkSize, overlapSize, components, pc>>

\* The chunk is full: emit it and start the next with its tail and this word.
Flush ==
    /\ pc = "loop" /\ read < components
    /\ currentCount >= chunkSize
    /\ chunks' = Append(chunks, currentChunk)
    /\ currentChunk' = Append(HandedOn(currentChunk), read + 1)
    /\ currentCount' = Len(currentChunk')
    /\ read' = read + 1
    /\ UNCHANGED <<chunkSize, overlapSize, components, pc>>

\* The last chunk.
Finish ==
    /\ pc = "loop" /\ read = components
    /\ chunks' = IF currentChunk = << >> THEN chunks ELSE Append(chunks, currentChunk)
    /\ pc' = "done"
    /\ UNCHANGED <<chunkSize, overlapSize, components, read, currentChunk, currentCount>>

Next == Collect \/ Flush \/ Finish

Spec == Init /\ [][Next]_vars

------------------------------------------------------------------------------
(* Properties *)

\* Every variable has its type, and the counter is the length of the chunk.
TypeOK ==
    /\ chunkSize \in Sizes /\ overlapSize \in Overlaps
    /\ components \in 1..MaxWords /\ read \in 0..components
    /\ currentChunk \in Seq(1..components) /\ currentCount = Len(currentChunk)
    /\ chunks \in Seq(Seq(1..components))
    /\ pc \in {"loop", "done"}

\* Every word read is in a chunk or in the one being collected, with any size and overlap.
NoWordLost ==
    ToSet(currentChunk) \cup UNION {ToSet(chunks[k]) : k \in DOMAIN chunks} = 1..read

\* The reference: with an overlap smaller than the size, chunk k is the window of
\* chunkSize words that starts chunkSize - overlapSize words after the one before.
Window(k) ==
    LET first == (k - 1) * (chunkSize - overlapSize) + 1
    IN  [i \in 1..(Lesser(components, first + chunkSize - 1) - first + 1) |-> first + i - 1]

\* The loop computes those windows, and stops with the first that reaches the end.
ChunksAreWindows ==
    overlapSize < chunkSize =>
        /\ \A k \in DOMAIN chunks : chunks[k] = Window(k)
        /\ pc = "done" => \A k \in DOMAIN chunks :
                             Last(chunks[k]) = components <=> k = Len(chunks)

\* Together: no text is lost, and the chunks are the ones asked for.
Correct == TypeOK /\ NoWordLost /\ ChunksAreWindows

=============================================================================
