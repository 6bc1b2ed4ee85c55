--------------------------- MODULE TokenSplitter ---------------------------
(***************************************************************************)
(* TokenSplitter.split: take chunkSize tokens at a time, cut the chunk     *)
(* after its last punctuation mark, and go on with the tokens behind the   *)
(* cut.  A token is a word, a later piece of a word (##...) or a full stop *)
(* (any of the marks the splitter looks for).  Decoding puts words and     *)
(* stops apart with one space, and encoding finds them again.  Only a      *)
(* chunk that starts in the middle of a word is another text: the end of a *)
(* word, encoded by itself, may be more tokens, or fewer.                  *)
(***************************************************************************)
EXTENDS Integers, SequencesExt

CONSTANTS
    Sizes,        \* chunk sizes the settings hold
    MaxTokens,    \* bound: tokens of the text
    MaxGrowth     \* bound: how many more tokens the end of a word may take

VARIABLES
    tokens,           \* the tokens of the text
    chunkSize,
    remainingTokens,
    chunk,            \* the tokens of this round
    emitted,          \* the tokens of the chunks returned so far, in order
    pc

vars == <<tokens, chunkSize, remainingTokens, chunk, emitted, pc>>

Token == {"word", "piece", "stop"}

\* A piece continues a word.
Texts ==
    {t \in UNION {[1..n -> Token] : n \in 1..MaxTokens} :
        \A i \in DOMAIN t : t[i] = "piece" => i > 1 /\ t[i - 1] # "stop"}

Lesser(a, b) == IF a < b THEN a ELSE b

\* Mutant of Cut: the mark itself stays behind.
CutBeforeMark(c) ==
    LET lastPunctuation == SelectLastInSeq(c, LAMBDA t : t = "stop")
    IN  IF lastPunctuation = 0 THEN c ELSE SubSeq(c, 1, lastPunctuation - 1)

\* The tokens of chunkTextToAppend: up to and including the last mark, but without it
\* when it is the last character (safeIndex is at most chunkText.count - 1).
Cut(c) ==
    LET lastPunctuation == SelectLastInSeq(c, LAMBDA t : t = "stop")
    IN  IF lastPunctuation = 0 THEN c
        ELSE SubSeq(c, 1, Lesser(Len(c) - 1, lastPunctuation))

Init ==
    /\ tokens \in Texts /\ chunkSize \in Sizes
    /\ remainingTokens = tokens
    /\ chunk = << >> /\ emitted = << >>
    /\ pc = "loop"

\* while !remainingTokens.isEmpty: the next chunkSize tokens.  An empty chunk, which a size
\* of 0 gives, is skipped with the tokens it has, none.
TakeChunk ==
    /\ pc = "loop" /\ remainingTokens # << >>
    /\ chunk' = SubSeq(remainingTokens, 1, Lesser(chunkSize, Len(remainingTokens)))
    /\ pc' = IF chunk' = << >> THEN "loop" ELSE "cut"
    /\ UNCHANGED <<tokens, chunkSize, remainingTokens, emitted>>

\* How many pieces c begins with: the end of a word.
EndOfWord(c) ==
    LET next == SelectInSeq(c, LAMBDA t : t # "piece")
    IN  IF next = 0 THEN Len(c) ELSE next - 1

\* How many tokens encoding the text of the cut chunk yields: as many as it has, but the end
\* of a word may be one token ([UNK], or a word of its own) or any number.
Reencoded(c) ==
    IF c = << >> \/ c[1] # "piece" THEN {Len(c)}
    ELSE {Len(c) - EndOfWord(c) + n : n \in 1..(EndOfWord(c) + MaxGrowth)}

\* Mutant of EmitChunk: the whole chunk is dropped from the rest.
EmitChunkDropAll ==
    /\ pc = "cut"
    /\ emitted' = emitted \o Cut(chunk)
    /\ remainingTokens' = SubSeq(remainingTokens, Len(chunk) + 1, Len(remainingTokens))
    /\ pc' = "loop"
    /\ UNCHANGED <<tokens, chunkSize, chunk>>

\* Append the cut text and remove as many tokens as encoding it yields; removeFirst traps
\* on more than there are.
EmitChunk ==
    /\ pc = "cut"
    /\ emitted' = emitted \o Cut(chunk)
    /\ \E n \in Reencoded(Cut(chunk)) :
          /\ remainingTokens' = SubSeq(remainingTokens, n + 1, Len(remainingTokens))
          /\ pc' = IF n > Len(remainingTokens) THEN "trapped" ELSE "loop"
    /\ UNCHANGED <<tokens, chunkSize, chunk>>

Return ==
    /\ pc = "loop" /\ remainingTokens = << >>
    /\ pc' = "done"
    /\ UNCHANGED <<tokens, chunkSize, remainingTokens, chunk, emitted>>

Next == TakeChunk \/ EmitChunk \/ Return

\* The loop runs: nothing in it waits for anything.
Spec == Init /\ [][Next]_vars /\ WF_vars(Next)

------------------------------------------------------------------------------
(* Properties *)

\* Every variable has its type; a chunk never takes more than chunkSize tokens.
TypeOK ==
    /\ tokens \in Texts /\ chunkSize \in Sizes
    /\ remainingTokens \in Seq(Token) /\ emitted \in Seq(Token)
    /\ chunk \in Seq(Token) /\ Len(chunk) <= chunkSize
    /\ pc \in {"loop", "cut", "done", "trapped"}

\* No word has two tokens, or no sentence is as long as a chunk: chunkSize tokens in a row
\* always hold a stop.
WholeWords == \A i \in DOMAIN tokens : tokens[i] # "piece"
ShortSentences ==
    \A i \in 0..(Len(tokens) - chunkSize) : \E j \in (i + 1)..(i + chunkSize) : tokens[j] = "stop"

\* Then no cut falls inside a word, although a chunk may end anywhere: every token is in
\* exactly one chunk, in order, and removeFirst never asks for more than there is.
EachTokenOnce ==
    WholeWords \/ ShortSentences => emitted \o remainingTokens = tokens /\ pc # "trapped"

\* A chunk that is a full stop alone is cut to nothing, and the loop goes round for ever:
\* when the text ends with a stop, or when a chunk holds one token only.
MeetsLoneStop == Last(tokens) = "stop" \/ (chunkSize = 1 /\ "stop" \in Range(tokens))

\* "Loop until all tokens are consumed": for every other text and a size above 0 the call
\* ends.  With size 0 every chunk is empty, and the loop goes round for ever.
Ended == MeetsLoneStop \/ chunkSize = 0 \/ pc \in {"done", "trapped"}
Terminates == <>Ended

\* Together: chunks of the size asked for, which are the text where cuts spare the words.
Correct == TypeOK /\ EachTokenOnce

=============================================================================
