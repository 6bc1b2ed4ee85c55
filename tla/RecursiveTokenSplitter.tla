----------------------- MODULE RecursiveTokenSplitter -----------------------
(***************************************************************************)
(* RecursiveTokenSplitter.split, the app's default: take the coarsest      *)
(* separator for which every piece of the text fits into chunkSize tokens, *)
(* and pack the pieces, each with its separator, into chunks.              *)
(*                                                                         *)
(* A text is a sequence of atoms: w (a word piece), p (a full stop), n (a  *)
(* line break) and s (a space).  The tokenizer yields one token for each w *)
(* and p, one (unknown) for n, none for s.  Trimming the spaces of a chunk *)
(* changes no token and is left out.                                       *)
(***************************************************************************)
EXTENDS Integers, SequencesExt

CONSTANTS
    Sizes,     \* chunk sizes the settings hold
    MaxLength  \* bound: atoms of the text

VARIABLES
    text, chunkSize,    \* the arguments
    level,              \* which separator is tried
    splits,             \* the pieces that are not packed yet
    currentChunkSplit,  \* the chunk being packed
    currentChunkSize,   \* the tokens it is taken to have
    chunks,
    pc

vars == <<text, chunkSize, level, splits, currentChunkSplit, currentChunkSize, chunks, pc>>
arguments == <<text, chunkSize>>

Atoms == {"w", "p", "n", "s"}
Texts == UNION {[1..n -> Atoms] : n \in 0..MaxLength}

separators == << <<"n", "n">>, <<"n">>, <<"p">>, <<"s">>, << >> >>

\* tokenizer.tokenize(text).count
TokenCount(t) == Cardinality({i \in DOMAIN t : t[i] # "s"})

\* String.components(separatedBy:): the empty separator occurs nowhere.
Components(t, separator) ==
    LET hits == {i \in 1..(Len(t) - Len(separator) + 1) :
                    SubSeq(t, i, i + Len(separator) - 1) = separator}
        from[k \in 1..(Len(t) + 1)] ==
            LET ahead == {i \in hits : i >= k}
            IN  IF separator = << >> \/ ahead = {} THEN <<SubSeq(t, k, Len(t))>>
                ELSE <<SubSeq(t, k, Min(ahead) - 1)>> \o from[Min(ahead) + Len(separator)]
    IN  from[1]

isSplitValid(pieces) == \A i \in DOMAIN pieces : TokenCount(pieces[i]) <= chunkSize

\* A piece with the separator it is packed with.
WithSeparator(piece) == piece \o separators[level]

Init ==
    /\ text \in Texts /\ chunkSize \in Sizes
    /\ level = 1
    /\ splits = << >> /\ currentChunkSplit = << >> /\ currentChunkSize = 0
    /\ chunks = << >>
    /\ pc = "try"

\* The next finer separator, until every piece fits.
TrySeparator ==
    /\ pc = "try" /\ level <= Len(separators)
    /\ LET pieces == Components(text, separators[level])
       IN  IF isSplitValid(pieces)
           THEN splits' = pieces /\ pc' = "pack" /\ UNCHANGED level
           ELSE level' = level + 1 /\ UNCHANGED <<splits, pc>>
    /\ UNCHANGED <<arguments, currentChunkSplit, currentChunkSize, chunks>>

\* No separator is fine enough: ([], []).
GiveUp ==
    /\ pc = "try" /\ level > Len(separators)
    /\ pc' = "done"
    /\ UNCHANGED <<arguments, level, splits, currentChunkSplit, currentChunkSize, chunks>>

\* Mutant of PackPiece: a piece may also fill the chunk up.
PackPieceFull ==
    /\ pc = "pack" /\ splits # << >>
    /\ currentChunkSize + TokenCount(Head(splits)) <= chunkSize
    /\ currentChunkSplit' = currentChunkSplit \o WithSeparator(Head(splits))
    /\ currentChunkSize' = LET added == currentChunkSize + TokenCount(Head(splits))
                               again == TokenCount(currentChunkSplit')
                           IN  IF again > added THEN again ELSE added
    /\ splits' = Tail(splits)
    /\ UNCHANGED <<arguments, level, chunks, pc>>

\* The piece fits.  Its tokens are added, then the chunk is tokenized again in case
\* the separators count.
PackPiece ==
    /\ pc = "pack" /\ splits # << >>
    /\ currentChunkSize + TokenCount(Head(splits)) < chunkSize
    /\ currentChunkSplit' = currentChunkSplit \o WithSeparator(Head(splits))
    /\ currentChunkSize' = LET added == currentChunkSize + TokenCount(Head(splits))
                               again == TokenCount(currentChunkSplit')
                           IN  IF again > added THEN again ELSE added
    /\ splits' = Tail(splits)
    /\ UNCHANGED <<arguments, level, chunks, pc>>

\* It does not: emit the chunk; the next starts with the piece, its separator uncounted.
NextChunk ==
    /\ pc = "pack" /\ splits # << >>
    /\ currentChunkSize + TokenCount(Head(splits)) >= chunkSize
    /\ chunks' = Append(chunks, currentChunkSplit)
    /\ currentChunkSplit' = WithSeparator(Head(splits))
    /\ currentChunkSize' = TokenCount(Head(splits))
    /\ splits' = Tail(splits)
    /\ UNCHANGED <<arguments, level, pc>>

\* The last chunk.
Finish ==
    /\ pc = "pack" /\ splits = << >>
    /\ chunks' = IF currentChunkSplit = << >> THEN chunks ELSE Append(chunks, currentChunkSplit)
    /\ currentChunkSplit' = << >>
    /\ pc' = "done"
    /\ UNCHANGED <<arguments, level, splits, currentChunkSize>>

Next == TrySeparator \/ GiveUp \/ PackPiece \/ NextChunk \/ Finish

Spec == Init /\ [][Next]_vars

------------------------------------------------------------------------------
(* Properties *)

\* What the separators, which the pieces are measured without, can add to a chunk: those
\* of the first two pieces of a chunk that NextChunk began.
Excess ==
    LET separatorSize == TokenCount(separators[level])
    IN  IF separatorSize = 0 THEN 0 ELSE 2 * separatorSize - 1

\* Every variable has its type; a chunk is never taken for larger than it is.
TypeOK ==
    /\ text \in Texts /\ chunkSize \in Sizes
    /\ level \in 1..(Len(separators) + 1)
    /\ splits \in Seq(Seq(Atoms)) /\ currentChunkSplit \in Seq(Atoms)
    /\ currentChunkSize \in Nat
    /\ pc = "pack" => currentChunkSize <= TokenCount(currentChunkSplit)
    /\ chunks \in Seq(Seq(Atoms))
    /\ pc \in {"try", "pack", "done"}

Packed == FlattenSeq(chunks) \o currentChunkSplit
ToPack == FlattenSeq([i \in DOMAIN splits |-> WithSeparator(splits[i])])

\* No piece is lost, doubled or moved: chunks and rest are the text and one separator.
EveryPieceOnce ==
    pc = "pack" \/ (pc = "done" /\ level <= Len(separators)) =>
        Packed \o ToPack = WithSeparator(text)

\* A chunk goes over the goal by the separators of two pieces at most.
OverBySeparators ==
    pc # "try" /\ level <= Len(separators) =>
        \A i \in DOMAIN chunks : TokenCount(chunks[i]) <= chunkSize + Excess

\* The class promises chunks that fit the goal size "without going over"
\* (RecursiveTokenSplitter.swift); it does not hold, see the run goal_size.
FitsGoal == \A i \in DOMAIN chunks : TokenCount(chunks[i]) <= chunkSize

\* Only a text with a run of atoms without a space longer than a chunk yields nothing.
DroppedOnlyForLongRun ==
    pc = "done" /\ chunks = << >> =>
        \/ text = << >>
        \/ \E i, j \in DOMAIN text :
              /\ i <= j /\ j - i + 1 > chunkSize
              /\ \A k \in i..j : text[k] # "s"

\* Together: the whole text, in chunks over the goal by separators only, or for a reason nothing.
Correct == TypeOK /\ EveryPieceOnce /\ OverBySeparators /\ DroppedOnlyForLongRun

=============================================================================
