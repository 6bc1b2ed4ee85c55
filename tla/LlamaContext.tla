---------------------------- MODULE LlamaContext ----------------------------
(***************************************************************************)
(* The context window of one loaded model: LLMBase.Predict over the KV     *)
(* cache of llama.cpp.  One Predict runs at a time (see ChatSession).      *)
(*                                                                         *)
(* The Swift code counts tokens in nPast and never names a position; the   *)
(* cache numbers the tokens itself, from its largest position.  KVShift    *)
(* edits positions inside the cache by what nPast says.  The two must stay *)
(* in step for the window to work at all.                                  *)
(***************************************************************************)
EXTENDS Integers, Sequences, FiniteSetsExt

CONSTANTS
    Size,          \* cells of the KV cache (n_ctx of the llama context)
    Context,       \* contextParams.context
    Batch,         \* sampleParams.n_batch
    UBatch,        \* tokens llama_decode handles at once (n_ubatch)
    Keep,          \* sampleParams.repeat_last_n, which KVShift takes for n_keep
    Tokens,        \* what a token can say
    Blank,         \* the content of an empty cell
    SystemLengths, \* bound: lengths of a system prompt
    PromptLengths, \* bound: lengths of a formatted question
    ImageLengths,  \* bound: embeddings of an attached image
    Setups         \* what a behaviour may have: "images" attached to questions, "faults"
                   \* of evaluations (the GPU is taken away)

ASSUME LlamaContextAssumption ==
    /\ {Size, Context, Batch, UBatch} \subseteq Nat \ {0} /\ Keep \in Nat
    /\ SystemLengths \subseteq Nat /\ PromptLengths \subseteq Nat /\ ImageLengths \subseteq Nat
    /\ Tokens # {} /\ Blank \notin Tokens
    /\ Setups \subseteq SUBSET {"images", "faults"}

VARIABLES
    setup,    \* one of Setups
    pos,      \* kv_self.cells[c].pos, -1 when the cell is empty
    token,    \* what the cell holds
    head,     \* kv_self.head: where the search for free cells starts
    nPast,    \* LLMBase.nPast
    pc,       \* where Predict stands
    system,   \* the system prompt still to be evaluated
    pictured, \* img_path: does the question come with an image?
    image,    \* the image embeddings still to be evaluated
    input,    \* the tokens of the question still to be evaluated
    batch,    \* the rest of the batch llama_decode is working on
    at,       \* the position of its first token
    count,    \* what nPast gains when llama_decode succeeds
    slots,    \* the cells taken so far by this llama_decode
    oldHead   \* kv_slot_restorer.old_state.head

cacheVars == <<pos, token, head>>
predictVars == <<setup, pc, system, pictured, image, input>>
decodeVars == <<batch, at, count, slots, oldHead>>
vars == <<cacheVars, nPast, predictVars, decodeVars>>

Cells == 0..Size - 1

Strings(lengths) == UNION {[1..n -> Tokens] : n \in lengths}

Drop(s, n) == SubSeq(s, n + 1, Len(s))

------------------------------------------------------------------------------
(* The KV cache of llama.cpp *)

Used(p) == {c \in Cells : p[c] >= 0}

max_pos(p) == Max({-1} \cup {p[c] : c \in Cells})

InRange(p, p0, p1) == {c \in Cells : p[c] >= p0 /\ p[c] < p1 /\ p[c] >= 0}

\* llama_kv_cache_seq_rm: the positions without p0..p1-1, and the head it leaves.
seq_rm(p, p0, p1) == [c \in Cells |-> IF c \in InRange(p, p0, p1) THEN -1 ELSE p[c]]
seq_rm_head(p, h, p0, p1) ==
    IF \E c \in InRange(p, p0, p1) : c < h THEN Min(InRange(p, p0, p1)) ELSE h

\* llama_kv_cache_seq_add: the positions p0..p1-1 moved down by n, and the head.  (With
\* p0 >= n, as here, none of them falls below 0, where the cell would be freed.)
seq_add(p, p0, p1, n) == [c \in Cells |-> IF c \in InRange(p, p0, p1) THEN p[c] - n ELSE p[c]]
seq_add_head(h, p0, p1) == IF p0 = p1 THEN h ELSE 0

\* Runs of n free cells, by their first cell.
FreeSlots(n) == {c \in Cells : c + n <= Size /\ \A i \in 0..n - 1 : pos[c + i] < 0}

\* llama_kv_cache_find_slot, after llama_decode looked where to start.
start_head(n) == IF head > Cardinality(Used(pos)) + 2 * n THEN 0 ELSE head
find_slot(n) ==
    LET ahead == {c \in FreeSlots(n) : c >= start_head(n)}
    IN IF ahead # {} THEN Min(ahead) ELSE Min(FreeSlots(n))

\* The next ubatch of the batch in progress.
UBatchSize == IF Len(batch) <= UBatch THEN Len(batch) ELSE UBatch

Placed(c, n) == [d \in Cells |-> IF d \in c..c + n - 1 THEN at + (d - c) ELSE pos[d]]
Written(c, n) == [d \in Cells |-> IF d \in c..c + n - 1 THEN batch[d - c + 1] ELSE token[d]]

Clean(p) == [c \in Cells |-> IF p[c] < 0 THEN Blank ELSE token[c]]

NoCall == batch' = << >> /\ at' = 0 /\ count' = 0 /\ slots' = << >> /\ oldHead' = 0

\* llama_decode begins with tokens whose first position is given.
Call(tokens, first) ==
    /\ batch' = tokens /\ at' = first /\ count' = Len(tokens)
    /\ slots' = << >> /\ oldHead' = head'

\* Text comes without positions: it is numbered from the largest one in the cache.
CallText(tokens) == Call(tokens, max_pos(pos') + 1)

------------------------------------------------------------------------------
(* LLMBase.Predict *)

\* Forget the n positions from Keep on, move the positions from..to-1 down by n.
ForgetAndMove(n, from, to) ==
    LET left == seq_rm(pos, Keep, Keep + n)
    IN /\ pos' = seq_add(left, from, to, n)
       /\ token' = Clean(left)
       /\ head' = seq_add_head(seq_rm_head(pos, head, Keep, Keep + n), from, to)

\* Mutant of KVShift: the length is read again after it was reduced.
KVShiftLateLength ==
    LET n == nPast \div 2
    IN ForgetAndMove(n, Keep + n, nPast - n) /\ nPast' = nPast - n + 1

\* LLaMa.KVShift: forget half of the length behind Keep, move the rest down.  The
\* last line once counted an end-of-text token that is no longer evaluated.
KVShift ==
    LET n == nPast \div 2
    IN ForgetAndMove(n, Keep + n, nPast) /\ nPast' = nPast - n + 1

\* A new question, with the system prompt (which only an empty context looks at) and
\* the image it comes with.
Predict ==
    /\ pc = "idle"
    /\ pc' = "system"
    /\ system' \in IF nPast = 0 THEN Strings(SystemLengths) ELSE {<< >>}
    /\ image' \in Strings(IF "images" \in setup THEN ImageLengths ELSE {0})
    /\ pictured' = (image' # << >>)
    /\ input' \in Strings(PromptLengths)
    /\ UNCHANGED <<setup, cacheVars, nPast, decodeVars>>

\* _eval_system_prompt, in one batch, only into an empty context.
EvalSystem ==
    /\ pc = "system" /\ batch = << >>
    /\ UNCHANGED <<setup, cacheVars, nPast, pictured, image, input>>
    /\ system' = << >>
    /\ IF nPast = 0 /\ system # << >>
       THEN CallText(system) /\ UNCHANGED pc
       ELSE pc' = "image" /\ UNCHANGED decodeVars

\* The next piece of the image, whose first embedding gets the given position.
EvalImageAt(first) ==
    /\ pc = "image" /\ batch = << >>
    /\ UNCHANGED <<setup, cacheVars, nPast, system, pictured, input>>
    /\ LET n == IF Len(image) <= Batch THEN Len(image) ELSE Batch
       IN IF image # << >>
          THEN /\ Call(SubSeq(image, 1, n), first)
               /\ image' = Drop(image, n)
               /\ UNCHANGED pc
          ELSE pc' = "tokenize" /\ UNCHANGED <<image, decodeVars>>

\* _eval_img: llava_eval_image_embed numbers the embeddings from nPast.
EvalImage == EvalImageAt(nPast)

\* An empty question is answered at once, unless it comes with an image; one longer
\* than the context is refused.
Tokenize ==
    /\ pc = "tokenize"
    /\ IF (input = << >> /\ ~pictured) \/ Len(input) > Context
       THEN pc' = "idle" /\ input' = << >>
       ELSE pc' = "input" /\ UNCHANGED input
    /\ UNCHANGED <<setup, cacheVars, nPast, system, pictured, image, decodeVars>>

\* EvalInputTokensBatched: the next batch, after a shift when it would not fit.
EvalInput ==
    /\ pc = "input" /\ batch = << >> /\ input # << >>
    /\ LET n == IF Len(input) <= Batch THEN Len(input) ELSE Batch
       IN /\ IF nPast + n >= Context THEN KVShift ELSE UNCHANGED <<cacheVars, nPast>>
          /\ CallText(SubSeq(input, 1, n))
          /\ input' = Drop(input, n)
    /\ UNCHANGED <<setup, pc, system, pictured, image>>

InputDone ==
    /\ pc = "input" /\ batch = << >> /\ input = << >>
    /\ pc' = "sample"
    /\ UNCHANGED <<setup, cacheVars, nPast, system, pictured, image, input, decodeVars>>

\* A sampled token goes back into the model, after a shift at the end of the window.
EvalSample ==
    /\ pc = "sample" /\ batch = << >>
    /\ IF nPast >= Context - 2 THEN KVShift ELSE UNCHANGED <<cacheVars, nPast>>
    /\ \E t \in Tokens : CallText(<<t>>)
    /\ UNCHANGED predictVars

\* End of generation, a stop, or n_predict: that token is not evaluated.
Stop ==
    /\ pc = "sample" /\ batch = << >>
    /\ pc' = "idle"
    /\ UNCHANGED <<setup, cacheVars, nPast, system, pictured, image, input, decodeVars>>

------------------------------------------------------------------------------
(* llama_decode *)

\* One ubatch goes to the cells from c on and is evaluated; when it was the last of
\* the call, nPast gains what the caller asked to evaluate.
DecodeInto(c, gain) ==
    LET n == UBatchSize
    IN /\ batch # << >> /\ FreeSlots(n) # {}
       /\ pos' = Placed(c, n)
       /\ token' = Written(c, n)
       /\ head' = IF c + n >= Size THEN 0 ELSE c + n
       /\ IF n = Len(batch)
          THEN nPast' = nPast + gain /\ NoCall
          ELSE /\ batch' = Drop(batch, n) /\ at' = at + n
               /\ slots' = Append(slots, <<c, c + n>>)
               /\ UNCHANGED <<nPast, count, oldHead>>
       /\ UNCHANGED predictVars

\* Mutant of DecodeUBatch: the free cells are not looked for, the head is trusted.
DecodeUBatchAtHead == DecodeInto(IF head + UBatchSize <= Size THEN head ELSE 0, count)

\* Mutant of DecodeUBatch: nPast counts calls, not tokens.
DecodeUBatchByOne == DecodeInto(find_slot(UBatchSize), 1)

DecodeUBatch == DecodeInto(find_slot(UBatchSize), count)

\* llama_decode reported an error: an image that could not be evaluated is passed
\* over, everything else ends Predict with failedToEval.
Failed ==
    /\ pc' = IF pc = "image" THEN "tokenize" ELSE "idle"
    /\ image' = << >>
    /\ input' = IF pc = "image" THEN input ELSE << >>
    /\ NoCall
    /\ UNCHANGED <<setup, nPast, system, pictured>>

\* No run of free cells is long enough; the search gives up behind a used cell.
DecodeNoSlot ==
    /\ batch # << >>
    /\ FreeSlots(UBatchSize) = {}
    /\ head' \in IF UBatchSize > Size THEN {start_head(UBatchSize)}
                 ELSE {c + 1 : c \in Used(pos)}
    /\ UNCHANGED <<pos, token>>
    /\ Failed

\* The evaluation fails.  llama_kv_slot_restorer gives back the cells taken by the
\* call, by asking seq_rm for their cell numbers.
DecodeComputeFails ==
    /\ "faults" \in setup
    /\ batch # << >>
    /\ LET n == UBatchSize
           c == find_slot(n)
           placed == Placed(c, n)
           taken == Append(slots, <<c, c + n>>)
           gone == {d \in Cells : \E i \in DOMAIN taken :
                      d \in InRange(placed, taken[i][1], taken[i][2])}
       IN /\ FreeSlots(n) # {}
          /\ pos' = [d \in Cells |-> IF d \in gone THEN -1 ELSE placed[d]]
          /\ token' = [d \in Cells |-> IF pos'[d] < 0 THEN Blank ELSE Written(c, n)[d]]
          /\ head' = Min({oldHead} \cup gone)
    /\ Failed

------------------------------------------------------------------------------

Init ==
    /\ setup \in Setups
    /\ pos = [c \in Cells |-> -1]
    /\ token = [c \in Cells |-> Blank]
    /\ head = 0 /\ nPast = 0
    /\ pc = "idle"
    /\ system = << >> /\ pictured = FALSE /\ image = << >> /\ input = << >>
    /\ batch = << >> /\ at = 0 /\ count = 0 /\ slots = << >> /\ oldHead = 0

Next == \/ Predict \/ EvalSystem \/ EvalImage \/ Tokenize \/ EvalInput \/ InputDone
        \/ EvalSample \/ Stop
        \/ DecodeUBatch \/ DecodeNoSlot \/ DecodeComputeFails

Spec == Init /\ [][Next]_vars
------------------------------------------------------------------------------
(* Properties *)

\* Every variable has its type; only a call in progress holds tokens and cells.
TypeOK ==
    /\ setup \in Setups
    /\ pos \in [Cells -> {-1} \cup Nat]
    /\ token \in [Cells -> Tokens \cup {Blank}]
    /\ \A c \in Cells : token[c] = Blank <=> pos[c] = -1
    /\ head \in 0..Size
    /\ nPast \in Nat
    /\ pc \in {"idle", "system", "image", "tokenize", "input", "sample"}
    /\ {system, image, input, batch} \subseteq Seq(Tokens)
    /\ pictured \in BOOLEAN
    /\ at \in Nat /\ count \in Nat /\ oldHead \in 0..Size
    /\ slots \in Seq(Cells \X (0..Size))

\* Tokens of the running call already in the cache.
Decoded == count - Len(batch)

\* LLMBase.nPast never falls behind the cache of llama.cpp, which counts for itself:
\* KVShift moves the positions below nPast only, so a token beyond it would stay where
\* it is while the rest moves away.
NPastCovers == setup = {} => max_pos(pos) + 1 <= nPast + Decoded

\* No two cells claim the same position, whatever shifts, images that are cut off or
\* failed batches came before: attention would see two tokens in one place.
PositionsDistinct ==
    setup # {"images", "faults"} => \A c, d \in Used(pos) : pos[c] = pos[d] => c = d

\* Text leaves no gaps: after any number of shifts the positions are 0, 1, 2, ...
\* although KVShift and llama_decode number them from different counters.
PositionsContiguous ==
    setup = {} => \A c \in Used(pos) : \A p \in 0..pos[c] : \E d \in Cells : pos[d] = p

\* Together: the cache is numbered as the Swift code believes, although it counts for itself.
CountersAgree == TypeOK /\ NPastCovers /\ PositionsDistinct /\ PositionsContiguous

\* Once the window check of EvalInputTokensBatched or Predict has made room, a batch of
\* the documented size finds a run of free cells (inference_options.md: context 1024,
\* "batch size for prompt processing" 512), although a shift leaves the cache fragmented.
AlwaysRoom == batch # << >> => FreeSlots(UBatchSize) # {}

\* How many tokens come before the one in cell c.
Before(c) == Cardinality({d \in Used(pos) : pos[d] < pos[c]})

\* The tokens the model attends to, in the order of their positions.
Memory ==
    [i \in 1..Cardinality(Used(pos)) |-> token[CHOOSE c \in Used(pos) : Before(c) = i - 1]]

\* The window behaves as a memory that learns at its end and forgets one block
\* behind its first tokens, whatever cells the cache uses for it.
Window == INSTANCE ContextMemory WITH
    memory <- Memory, Room <- Size, broken <- "faults" \in setup
WindowSpec == Window!Spec
============================================================================
