--------------------------- MODULE RetrievalCalls ---------------------------
(***************************************************************************)
(* The functions of SimilaritySearchKit that a document and a question go  *)
(* through: one of the three splitters cuts a text, addItems takes in the  *)
(* chunks, topK ranks them.  Each has a module of its own; a behaviour is  *)
(* one call of one of them.  They share nothing but the names of some      *)
(* variables, and a call leaves those of the others alone.                 *)
(***************************************************************************)
EXTENDS Integers, SequencesExt

CONSTANTS
    ChunkSizes,   \* chunk sizes the settings hold, for the token splitters
    WordCounts,   \* the same for the character splitter
    Overlaps,     \* overlaps the settings hold
    MaxWords, MaxTokens, MaxLength,   \* bounds: components, tokens and atoms of a text
    MaxGrowth,        \* bound: how many more tokens the end of a word may take
    Scores, NaN, Counts, Lengths,     \* of topK: scores, results asked for, collections
    ItemTexts, Pools, \* of addItems: the texts and the threads there may be
    None

Calls == {"characters", "tokens", "recursive", "topK", "addItems"}

ASSUME RetrievalCallsAssumption ==
    /\ ChunkSizes \subseteq Nat /\ WordCounts \subseteq Nat /\ Overlaps \subseteq Nat
    /\ MaxWords \in Nat \ {0} /\ MaxTokens \in Nat \ {0} /\ MaxLength \in Nat /\ MaxGrowth \in Nat
    /\ Scores \subseteq Int /\ IsFiniteSet(Scores) /\ NaN \notin Int /\ Counts \cup Lengths \subseteq Nat
    /\ Pools \subseteq Nat \ {0} /\ IsFiniteSet(ItemTexts) /\ None \notin ItemTexts

VARIABLES
    call,
    pc, chunkSize, chunks,
    overlapSize, components, read, currentChunk, currentCount,
    tokens, remainingTokens, chunk, emitted,
    text, level, splits, currentChunkSplit, currentChunkSize,
    count, size, seen, result,
    threads, at, oldCount, buffer, memory, indexItems, raced

characterVars == <<overlapSize, components, read, currentChunk, currentCount>>
tokenVars == <<tokens, remainingTokens, chunk, emitted>>
recursiveVars == <<text, level, splits, currentChunkSplit, currentChunkSize>>
topKVars == <<count, size, seen, result>>
insertionVars == <<threads, at, oldCount, buffer, memory, indexItems, raced>>
vars == <<call, pc, chunkSize, chunks, characterVars, tokenVars, recursiveVars, topKVars, insertionVars>>

Characters == INSTANCE CharacterSplitter WITH Sizes <- WordCounts
Tokens == INSTANCE TokenSplitter WITH Sizes <- ChunkSizes
Recursive == INSTANCE RecursiveTokenSplitter WITH Sizes <- ChunkSizes
Ranking == INSTANCE TopK WITH Sizes <- Lengths
Insertion == INSTANCE ItemInsertion WITH Texts <- ItemTexts

------------------------------------------------------------------------------
NoCharacters ==
    overlapSize = None /\ components = None /\ read = None /\ currentChunk = None /\ currentCount = None

NoTokens ==
    tokens = None /\ remainingTokens = None /\ chunk = None /\ emitted = None

NoRecursive ==
    text = None /\ level = None /\ splits = None /\ currentChunkSplit = None /\ currentChunkSize = None

NoRanking == count = None /\ size = None /\ seen = None /\ result = None

NoInsertion ==
    /\ threads = None /\ at = None /\ oldCount = None /\ buffer = None
    /\ memory = None /\ indexItems = None /\ raced = None

Init ==
    \/ /\ call = "characters" /\ Characters!Init
       /\ NoTokens /\ NoRecursive /\ NoRanking /\ NoInsertion
    \/ /\ call = "tokens" /\ Tokens!Init /\ chunks = None
       /\ NoCharacters /\ NoRecursive /\ NoRanking /\ NoInsertion
    \/ /\ call = "recursive" /\ Recursive!Init
       /\ NoCharacters /\ NoTokens /\ NoRanking /\ NoInsertion
    \/ /\ call = "topK" /\ Ranking!Init /\ chunkSize = None /\ chunks = None
       /\ NoCharacters /\ NoTokens /\ NoRecursive /\ NoInsertion
    \/ /\ call = "addItems" /\ Insertion!Init /\ chunkSize = None /\ chunks = None
       /\ NoCharacters /\ NoTokens /\ NoRecursive /\ NoRanking

SplitCharacters ==
    /\ call = "characters" /\ Characters!Next
    /\ UNCHANGED <<call, tokenVars, recursiveVars, topKVars, insertionVars>>

SplitTokens ==
    /\ call = "tokens" /\ Tokens!Next
    /\ UNCHANGED <<call, chunks, characterVars, recursiveVars, topKVars, insertionVars>>

SplitRecursive ==
    /\ call = "recursive" /\ Recursive!Next
    /\ UNCHANGED <<call, characterVars, tokenVars, topKVars, insertionVars>>

Rank ==
    /\ call = "topK" /\ Ranking!Next
    /\ UNCHANGED <<call, chunkSize, chunks, characterVars, tokenVars, recursiveVars, insertionVars>>

Others == <<call, chunkSize, chunks, characterVars, tokenVars, recursiveVars, topKVars>>

AddItems == call = "addItems" /\ Insertion!Next /\ UNCHANGED Others

\* The children of addItems, and its own task.
RunChild == call = "addItems" /\ Insertion!RunChild /\ UNCHANGED Others
Resume == call = "addItems" /\ Insertion!Resume /\ UNCHANGED Others

Next == SplitCharacters \/ SplitTokens \/ SplitRecursive \/ Rank \/ AddItems

\* A loop runs on, a pool's threads run, and the caller is resumed.
Spec == Init /\ [][Next]_vars /\ WF_vars(SplitTokens) /\ WF_vars(RunChild) /\ WF_vars(Resume)

------------------------------------------------------------------------------
(* Properties: those of each function, of its calls *)

\* With any size and overlap no word is lost, and below the size the chunks are the sliding
\* windows of size and overlap (CharacterSplitter.split).
CharactersCorrect == call = "characters" => Characters!Correct

\* Where words are single tokens or sentences shorter than a chunk, every token is in one chunk,
\* in order, although the end of a word encodes to any number of tokens (TokenSplitter.split).
TokensCorrect == call = "tokens" => Tokens!Correct

\* Nothing is lost, doubled or moved, only separators take a chunk over the goal, and only a
\* run without a space longer than a chunk makes a text vanish (RecursiveTokenSplitter.split).
RecursiveCorrect == call = "recursive" => Recursive!Correct

\* In its single pass topK always has what a full sort would give (Collection.topK).
RankingCorrect == call = "topK" => Ranking!Correct

\* Unless two appends overlap, addItems returns with every text in the index once; on one
\* thread none overlap (SimilarityIndex.addItems).
InsertionCorrect == call = "addItems" => Insertion!Correct

\* The loop "until all tokens are consumed" ends, unless a chunk is empty or a full stop alone, and
\* addItems returns or traps (TokenSplitter.split, SimilarityIndex.addItems).
CallsEnd ==
    /\ <>(call = "tokens" => Tokens!Ended)
    /\ <>(call = "addItems" => pc \in {"returned", "trapped"})

=============================================================================
