------------------------- MODULE LlamaContextProofs -------------------------
(***************************************************************************)
(* Proofs about LlamaContext, for every size of window, batch and kept     *)
(* prefix that a window can be shifted with.                               *)
(***************************************************************************)
EXTENDS LlamaContext, FiniteSetTheorems, SequenceTheorems, NaturalsInduction, TLAPS

\* What the numbering needs of the window, and the app gives it: a batch of a question is
\* one round of llama_decode (n_batch and n_ubatch are both 512), KVShift keeps no more
\* than what is left of the shortest window it is called on, and a system prompt fits into
\* the cache it is the first to enter.
Shiftable ==
    /\ Batch <= UBatch
    /\ 2 * Keep <= Context /\ 2 * Keep + Batch <= Context + 2
    /\ \A n \in SystemLengths : n <= Size

------------------------------------------------------------------------------
(* The inductive invariant *)

\* Every position is below b.
Below(b) == \A c \in Cells : pos[c] < b

\* Types, and what they rest on: the cache is finite, so some position is the largest.
Typed == TypeOK /\ \E b \in Nat : Below(b)

\* What llama_decode was asked for and has not done yet; only the system prompt takes it
\* more than one round.
Working ==
    /\ Len(batch) <= count /\ (batch = << >> => count = 0)
    /\ batch # << >> => pc \in {"system", "image", "input", "sample"}
    /\ batch # << >> /\ pc # "system" => count = Len(batch) /\ Len(batch) <= UBatch
    /\ batch # << >> /\ pc = "system" => nPast = 0 /\ count <= Size
    /\ Len(system) <= Size
    /\ "images" \notin setup => image = << >>

\* A batch in progress lies beyond everything in the cache.
AheadOfCache == setup # {"images", "faults"} /\ batch # << >> => Below(at)

\* nPast and what is decoded of the running call cover the cache and the call; nothing has
\* touched the cache while nPast is 0 but the system prompt, which fills it from its start.
Covered ==
    "faults" \notin setup =>
        /\ Below(nPast + Decoded)
        /\ batch # << >> => at <= nPast + Decoded
        /\ nPast = 0 => Used(pos) = 0..Decoded - 1 /\ head = Decoded

\* Text in progress continues where the cache ends.
Continues == setup = {} /\ batch # << >> =>
                \A p \in 0..at - 1 : \E d \in Cells : pos[d] = p

IInv == /\ Typed /\ Working /\ PositionsDistinct /\ AheadOfCache /\ Covered
        /\ PositionsContiguous /\ Continues

------------------------------------------------------------------------------
(* Smallest and largest *)

\* A set of numbers has a smallest one.
LEMMA SmallestOf ==
  ASSUME NEW S \in SUBSET Nat, S # {}
  PROVE  \E x \in S : \A y \in S : x <= y
<1> DEFINE Less == {ss \in Nat \X Nat : ss[1] < ss[2]}
<1>1. OpToRel(<, Nat) = Less
  BY DEF OpToRel
<1>2. IsWellFoundedOn(Less, Nat)
  BY ONLY <1>1, NatLessThanWellFounded
<1>3. PICK x \in S : \A y \in S : ~ (<<y, x>> \in Less)
  BY ONLY <1>2, WFMin, S \in SUBSET Nat, S # {}
<1>4. \A z, y \in S : y < z => <<y, z>> \in Less
  OBVIOUS
<1> HIDE DEF Less
<1>5. x \in S /\ \A y \in S : ~ (y < x)
  BY <1>3, <1>4
<1>6. \A y \in S : x <= y
  BY <1>5
<1> QED
  BY <1>5, <1>6

\* A set of numbers has a minimum.
LEMMA MinFacts ==
  ASSUME NEW S \in SUBSET Nat, S # {}
  PROVE  Min(S) \in S /\ \A y \in S : Min(S) <= y
  BY SmallestOf DEF Min

\* A cache has a largest position, or is empty.
LEMMA MaxFacts ==
  ASSUME NEW p \in [Cells -> {-1} \cup Nat], NEW b \in Nat, \A c \in Cells : p[c] < b
  PROVE  /\ max_pos(p) \in {-1} \cup Nat
         /\ \A c \in Cells : p[c] <= max_pos(p)
         /\ max_pos(p) # -1 => \E c \in Cells : p[c] = max_pos(p)
<1> DEFINE S == {-1} \cup {p[c] : c \in Cells}
           Above == {m \in Nat : \A x \in S : x < m}
<1>1. Above # {}
  <2>1. b \in Above
    OBVIOUS
  <2> QED
    BY <2>1
<1>3. PICK m \in Above : \A y \in Above : m <= y
  BY <1>1, SmallestOf
<1>4. m - 1 \in S
  <2>1. SUFFICES ASSUME m - 1 \notin S PROVE FALSE
    OBVIOUS
  <2>2. \A x \in S : x < m - 1
    BY <2>1
  <2>3. m - 1 \in Nat
    BY <2>2
  <2> QED
    BY <1>3, <2>2, <2>3
<1>5. \A y \in S : m - 1 >= y
  OBVIOUS
<1>6. Max(S) = m - 1
  BY <1>4, <1>5 DEF Max
<1> QED
  BY <1>4, <1>5, <1>6 DEF max_pos

------------------------------------------------------------------------------
(* The cache *)

\* The sizes are positive numbers.
LEMMA ConstantFacts ==
  /\ Size \in Nat /\ Size > 0 /\ Context \in Nat /\ Context > 0 /\ Batch \in Nat /\ Batch > 0
  /\ UBatch \in Nat /\ UBatch > 0 /\ Keep \in Nat
  BY LlamaContextAssumption

\* A round of llama_decode takes at least one token and no more than are left.
LEMMA UBatchFacts ==
  ASSUME batch \in Seq(Tokens), batch # << >>
  PROVE  /\ UBatchSize \in Nat /\ UBatchSize > 0 /\ UBatchSize <= Len(batch)
         /\ Len(batch) \in Nat /\ Len(batch) <= UBatch => UBatchSize = Len(batch)
<1>1. Len(batch) \in Nat /\ Len(batch) > 0
  BY EmptySeq
<1> QED
  BY <1>1, ConstantFacts DEF UBatchSize

\* What the search finds is a run of free cells, wherever it starts.
LEMMA SlotFacts ==
  ASSUME NEW n \in Nat, n > 0, FreeSlots(n) # {}
  PROVE  /\ find_slot(n) \in FreeSlots(n) /\ find_slot(n) \in Cells /\ find_slot(n) + n <= Size
         /\ \A d \in find_slot(n)..find_slot(n) + n - 1 : d \in Cells /\ pos[d] < 0
<1> DEFINE ahead == {c \in FreeSlots(n) : c >= start_head(n)}
<1>1. FreeSlots(n) \in SUBSET Nat /\ FreeSlots(n) \subseteq Cells
  BY ConstantFacts DEF FreeSlots, Cells
<1>2. ahead \in SUBSET Nat
  BY <1>1
<1>3. find_slot(n) \in FreeSlots(n)
  <2>1. CASE ahead # {}
    <3>1. Min(ahead) \in ahead
      BY <1>2, <2>1, MinFacts
    <3> QED
      BY <2>1, <3>1 DEF find_slot
  <2>2. CASE ahead = {}
    <3>1. Min(FreeSlots(n)) \in FreeSlots(n)
      BY <1>1, MinFacts
    <3> QED
      BY <2>2, <3>1 DEF find_slot
  <2> QED
    BY <2>1, <2>2
<1>4. \A c \in FreeSlots(n) : /\ c + n <= Size
                              /\ \A d \in c..c + n - 1 : d \in Cells /\ pos[d] < 0
  <2> SUFFICES ASSUME NEW c \in FreeSlots(n)
               PROVE  c + n <= Size /\ \A d \in c..c + n - 1 : d \in Cells /\ pos[d] < 0
    OBVIOUS
  <2>1. c \in Nat /\ c + n <= Size /\ \A i \in 0..n - 1 : pos[c + i] < 0
    BY ConstantFacts DEF FreeSlots, Cells
  <2>2. ASSUME NEW d \in c..c + n - 1
        PROVE  d \in Cells /\ pos[d] < 0
    <3>1. d - c \in 0..n - 1 /\ c + (d - c) = d
      BY <2>1
    <3>2. pos[d] < 0
      BY <2>1, <3>1
    <3> QED
      BY <2>1, <3>2, ConstantFacts DEF Cells
  <2> QED
    BY <2>1, <2>2
<1> QED
  BY <1>1, <1>3, <1>4

\* A run of cells takes the next tokens of the batch; the others keep what they hold.
LEMMA PlacedFacts ==
  ASSUME TypeOK, NEW n \in Nat, n <= Len(batch), NEW c \in Cells, c + n <= Size
  PROVE  /\ Placed(c, n) \in [Cells -> {-1} \cup Nat]
         /\ Written(c, n) \in [Cells -> Tokens \cup {Blank}]
         /\ \A d \in Cells : /\ d \in c..c + n - 1 => /\ Placed(c, n)[d] = at + (d - c)
                                                      /\ Written(c, n)[d] \in Tokens
                             /\ d \notin c..c + n - 1 => /\ Placed(c, n)[d] = pos[d]
                                                         /\ Written(c, n)[d] = token[d]
         /\ \A d \in Cells : Written(c, n)[d] = Blank <=> Placed(c, n)[d] = -1
<1>1. at \in Nat /\ pos \in [Cells -> {-1} \cup Nat] /\ token \in [Cells -> Tokens \cup {Blank}]
  BY DEF TypeOK
<1>2. batch \in Seq(Tokens) /\ Len(batch) \in Nat
  BY DEF TypeOK
<1>3. c \in Nat /\ \A d \in Cells : d \in Nat
  BY ConstantFacts DEF Cells
<1>4. ASSUME NEW d \in Cells, d \in c..c + n - 1
      PROVE  batch[d - c + 1] \in Tokens /\ at + (d - c) \in Nat
  <2>1. d - c + 1 \in 1..Len(batch)
    BY <1>2, <1>3, <1>4
  <2> QED
    BY <1>1, <1>2, <1>3, <1>4, <2>1, ElementOfSeq
<1>5. Placed(c, n) \in [Cells -> {-1} \cup Nat]
  BY <1>1, <1>4 DEF Placed
<1>6. Written(c, n) \in [Cells -> Tokens \cup {Blank}]
  BY <1>1, <1>4 DEF Written
<1>7. \A d \in Cells : /\ d \in c..c + n - 1 => /\ Placed(c, n)[d] = at + (d - c)
                                                /\ Written(c, n)[d] \in Tokens
                       /\ d \notin c..c + n - 1 => /\ Placed(c, n)[d] = pos[d]
                                                   /\ Written(c, n)[d] = token[d]
  BY <1>4 DEF Placed, Written
<1>8. \A d \in Cells : token[d] = Blank <=> pos[d] = -1
  BY DEF TypeOK
<1>9. \A d \in Cells : Written(c, n)[d] = Blank <=> Placed(c, n)[d] = -1
  <2> SUFFICES ASSUME NEW d \in Cells
               PROVE  Written(c, n)[d] = Blank <=> Placed(c, n)[d] = -1
    OBVIOUS
  <2>1. CASE d \in c..c + n - 1
    BY <1>4, <1>7, <2>1, LlamaContextAssumption
  <2>2. CASE d \notin c..c + n - 1
    BY <1>7, <1>8, <2>2
  <2> QED
    BY <2>1, <2>2
<1> QED
  BY <1>5, <1>6, <1>7, <1>9

\* What a shift by n does to the positions: a block behind Keep goes, what nPast covers
\* moves down.  Nothing at all is a shift by 0.
Moved(n) == \A c \in Cells :
    \/ pos[c] = -1 /\ pos'[c] = -1
    \/ pos[c] \in Keep..Keep + n - 1 /\ pos'[c] = -1
    \/ pos[c] \in 0..Keep - 1 /\ pos'[c] = pos[c]
    \/ pos[c] >= Keep + n /\ pos[c] >= nPast /\ pos'[c] = pos[c]
    \/ pos[c] >= Keep + n /\ pos[c] < nPast /\ pos'[c] = pos[c] - n

CacheType(p, t, h) ==
    /\ p \in [Cells -> {-1} \cup Nat] /\ t \in [Cells -> Tokens \cup {Blank}]
    /\ \A c \in Cells : t[c] = Blank <=> p[c] = -1
    /\ h \in 0..Size

\* A shift forgets about half of what nPast counts and moves the rest down.
LEMMA ShiftFacts ==
  ASSUME TypeOK, KVShift
  PROVE  /\ CacheType(pos', token', head')
         /\ nPast' \in Nat /\ nPast' > 0
         /\ \E n \in Nat : /\ Moved(n) /\ nPast' = nPast - n + 1 /\ 2 * n <= nPast
                           /\ nPast <= 2 * n + 1
<1> DEFINE n == nPast \div 2
           left == seq_rm(pos, Keep, Keep + n)
<1>1. nPast \in Nat /\ pos \in [Cells -> {-1} \cup Nat] /\ head \in 0..Size
      /\ token \in [Cells -> Tokens \cup {Blank}]
      /\ \A c \in Cells : token[c] = Blank <=> pos[c] = -1
  BY DEF TypeOK
<1>2. n \in Nat /\ 2 * n <= nPast /\ nPast <= 2 * n + 1
  BY <1>1
<1>3. /\ pos' = seq_add(left, Keep + n, nPast, n)
      /\ token' = Clean(left)
      /\ head' = seq_add_head(seq_rm_head(pos, head, Keep, Keep + n), Keep + n, nPast)
      /\ nPast' = nPast - n + 1
  BY DEF KVShift, ForgetAndMove
<1> HIDE DEF n
<1>4. left = [c \in Cells |-> IF pos[c] \in Keep..Keep + n - 1 THEN -1 ELSE pos[c]]
  <2>1. \A c \in Cells : c \in InRange(pos, Keep, Keep + n) <=> pos[c] \in Keep..Keep + n - 1
    BY <1>1, <1>2, ConstantFacts DEF InRange
  <2> QED
    BY <2>1 DEF seq_rm
<1>5. left \in [Cells -> {-1} \cup Nat]
  BY <1>1, <1>4
<1> HIDE DEF left
<1>6. pos' = [c \in Cells |-> IF left[c] \in Keep + n..nPast - 1 THEN left[c] - n ELSE left[c]]
  <2>1. \A c \in Cells : c \in InRange(left, Keep + n, nPast) <=> left[c] \in Keep + n..nPast - 1
    BY <1>1, <1>2, <1>5, ConstantFacts DEF InRange
  <2> QED
    BY <1>3, <2>1 DEF seq_add
<1>7. pos' \in [Cells -> {-1} \cup Nat] /\ \A c \in Cells : pos'[c] = -1 <=> left[c] = -1
  BY <1>1, <1>2, <1>5, <1>6, ConstantFacts
<1>8. Moved(n)
  <2> SUFFICES ASSUME NEW c \in Cells
               PROVE  \/ pos[c] = -1 /\ pos'[c] = -1
                      \/ pos[c] \in Keep..Keep + n - 1 /\ pos'[c] = -1
                      \/ pos[c] \in 0..Keep - 1 /\ pos'[c] = pos[c]
                      \/ pos[c] >= Keep + n /\ pos[c] >= nPast /\ pos'[c] = pos[c]
                      \/ pos[c] >= Keep + n /\ pos[c] < nPast /\ pos'[c] = pos[c] - n
    BY DEF Moved
  <2>1. pos[c] \in {-1} \cup Nat
    BY <1>1
  <2>2. left[c] = IF pos[c] \in Keep..Keep + n - 1 THEN -1 ELSE pos[c]
    BY <1>4
  <2>3. pos'[c] = IF left[c] \in Keep + n..nPast - 1 THEN left[c] - n ELSE left[c]
    BY <1>6
  <2> QED
    BY <1>1, <1>2, <2>1, <2>2, <2>3, ConstantFacts
<1>9. token' \in [Cells -> Tokens \cup {Blank}] /\ \A c \in Cells : token'[c] = Blank <=> pos'[c] = -1
  <2>1. token' = [c \in Cells |-> IF left[c] < 0 THEN Blank ELSE token[c]]
    BY <1>3 DEF Clean
  <2>2. token' \in [Cells -> Tokens \cup {Blank}]
    BY <1>1, <2>1
  <2>3. ASSUME NEW c \in Cells
        PROVE  token'[c] = Blank <=> pos'[c] = -1
    <3>1. pos'[c] = -1 <=> left[c] = -1
      BY <1>7
    <3>2. left[c] < 0 <=> left[c] = -1
      BY <1>5
    <3>3. left[c] = -1 \/ left[c] = pos[c]
      BY <1>4
    <3> QED
      BY <1>1, <2>1, <3>1, <3>2, <3>3
  <2> QED
    BY <2>2, <2>3
<1>10. head' \in 0..Size
  <2>1. seq_rm_head(pos, head, Keep, Keep + n) \in 0..Size
    <3> DEFINE gone == InRange(pos, Keep, Keep + n)
    <3>1. gone \in SUBSET Nat /\ gone \subseteq 0..Size
      BY ConstantFacts DEF InRange, Cells
    <3>2. gone # {} => Min(gone) \in gone
      BY <3>1, MinFacts
    <3> QED
      BY <1>1, <3>1, <3>2 DEF seq_rm_head
  <2> QED
    BY <1>3, <2>1, ConstantFacts DEF seq_add_head
<1> QED
  BY <1>1, <1>2, <1>3, <1>7, <1>8, <1>9, <1>10 DEF CacheType

\* Before a call the cache is shifted or left as it is; either way by some n.
LEMMA RoomFacts ==
  ASSUME TypeOK, NEW full \in BOOLEAN, IF full THEN KVShift ELSE UNCHANGED <<cacheVars, nPast>>
  PROVE  /\ CacheType(pos', token', head') /\ nPast' \in Nat /\ (nPast > 0 => nPast' > 0)
         /\ \E n \in Nat : /\ Moved(n)
                           /\ ~ full => n = 0 /\ nPast' = nPast /\ pos' = pos /\ head' = head
                           /\ full => /\ nPast' = nPast - n + 1 /\ 2 * n <= nPast
                                      /\ nPast <= 2 * n + 1 /\ nPast' > 0
<1>1. CASE full
  BY <1>1, ShiftFacts
<1>2. CASE ~ full
  <2>1. pos' = pos /\ token' = token /\ head' = head /\ nPast' = nPast
    BY <1>2 DEF cacheVars
  <2>2. CacheType(pos', token', head') /\ nPast' \in Nat /\ (nPast > 0 => nPast' > 0)
    BY <2>1 DEF TypeOK, CacheType
  <2>3. Moved(0)
    BY <2>1, ConstantFacts DEF Moved, TypeOK
  <2> QED
    BY <1>2, <2>1, <2>2, <2>3
<1> QED
  BY <1>1, <1>2

\* A shift moves nothing up.
LEMMA MovedDown ==
  ASSUME TypeOK, NEW n \in Nat, Moved(n), NEW b \in Nat, Below(b)
  PROVE  Below(b)'
<1> SUFFICES ASSUME NEW c \in Cells
             PROVE  pos'[c] < b
  BY DEF Below, Cells
<1>1. pos[c] \in {-1} \cup Nat /\ pos[c] < b
  BY DEF TypeOK, Below
<1> QED
  BY <1>1 DEF Moved

\* Tokens without positions are numbered from the first position behind the cache.
LEMMA CallTextFacts ==
  ASSUME CacheType(pos', token', head'), NEW b \in Nat, Below(b)',
         NEW tokens \in Seq(Tokens), CallText(tokens)
  PROVE  /\ batch' = tokens /\ count' = Len(tokens) /\ slots' = << >> /\ oldHead' = head'
         /\ at' \in Nat /\ at' <= b
         /\ \A c \in Cells : pos'[c] < at'
         /\ at' > 0 => \E c \in Cells : pos'[c] = at' - 1
<1>1. pos' \in [Cells -> {-1} \cup Nat] /\ \A c \in Cells : pos'[c] < b
  BY DEF CacheType, Below, Cells
<1>2. batch' = tokens /\ count' = Len(tokens) /\ slots' = << >> /\ oldHead' = head'
      /\ at' = max_pos(pos') + 1
  BY DEF CallText, Call
<1> DEFINE m == max_pos(pos')
<1>3. /\ m \in {-1} \cup Nat
      /\ \A c \in Cells : pos'[c] <= m
      /\ m # -1 => \E c \in Cells : pos'[c] = m
  BY <1>1, MaxFacts
<1> HIDE DEF m
<1>4. at' = m + 1
  BY <1>2 DEF m
<1>5. m = -1 \/ \E c \in Cells : pos'[c] = m
  BY <1>3
<1>6. m + 1 <= b
  BY <1>1, <1>3, <1>5
<1>7. \A c \in Cells : pos'[c] < m + 1
  BY <1>1, <1>3
<1> QED
  BY <1>2, <1>3, <1>4, <1>5, <1>6, <1>7

------------------------------------------------------------------------------
(* Type correctness *)

\* Types of what llama_decode works on.
CallType(b, a, k, s, o) ==
    /\ b \in Seq(Tokens) /\ a \in Nat /\ k \in Nat /\ o \in 0..Size
    /\ s \in Seq(Cells \X (0..Size))

PredictType(su, q, sy, pic, im, i) ==
    /\ su \in Setups /\ q \in {"idle", "system", "image", "tokenize", "input", "sample"}
    /\ {sy, im, i} \subseteq Seq(Tokens) /\ pic \in BOOLEAN

\* The type invariant in four parts.
LEMMA TypeParts ==
  TypeOK <=> /\ CacheType(pos, token, head) /\ nPast \in Nat
             /\ PredictType(setup, pc, system, pictured, image, input)
             /\ CallType(batch, at, count, slots, oldHead)
  BY DEF TypeOK, CacheType, CallType, PredictType

\* The same of the next state.
LEMMA TypePartsNext ==
  TypeOK' <=> /\ CacheType(pos', token', head') /\ nPast' \in Nat
              /\ PredictType(setup', pc', system', pictured', image', input')
              /\ CallType(batch', at', count', slots', oldHead')
  BY DEF TypeOK, CacheType, CallType, PredictType, Cells

\* A text is a sequence of tokens of one of the lengths.
LEMMA StringsType ==
  ASSUME NEW lengths \in SUBSET Nat, NEW s \in Strings(lengths)
  PROVE  s \in Seq(Tokens) /\ Len(s) \in lengths
<1>1. PICK n \in lengths : s \in [1..n -> Tokens]
  BY DEF Strings
<1>2. n \in Nat
  OBVIOUS
<1> QED
  BY <1>1, <1>2, SeqDef, LenProperties

\* Dropping a beginning leaves the rest of the sequence.
LEMMA DropType ==
  ASSUME NEW s \in Seq(Tokens), NEW n \in 0..Len(s)
  PROVE  /\ Drop(s, n) \in Seq(Tokens) /\ Len(Drop(s, n)) = Len(s) - n
         /\ SubSeq(s, 1, n) \in Seq(Tokens) /\ Len(SubSeq(s, 1, n)) = n
<1>1. Len(s) \in Nat
  OBVIOUS
<1>2. n + 1 \in 1..Len(s) + 1
  BY <1>1
<1> QED
  BY <1>1, <1>2, SubSeqProperties DEF Drop

\* Between two calls of llama_decode nothing of one is left.
LEMMA NoCallType ==
  ASSUME NoCall
  PROVE  /\ CallType(batch', at', count', slots', oldHead') /\ batch' = << >> /\ count' = 0
         /\ Len(batch') = 0
<1>1. batch' = << >> /\ at' = 0 /\ count' = 0 /\ slots' = << >> /\ oldHead' = 0
  BY DEF NoCall
<1> QED
  BY <1>1, ConstantFacts, EmptySeq DEF CallType

\* The steps of Predict, calls of llama_decode included.
LEMMA TypePredict ==
  ASSUME Typed,
         Predict \/ EvalSystem \/ EvalImage \/ Tokenize \/ EvalInput \/ InputDone \/ EvalSample
           \/ Stop
  PROVE  Typed'
<1>1. /\ CacheType(pos, token, head) /\ nPast \in Nat
      /\ PredictType(setup, pc, system, pictured, image, input)
      /\ CallType(batch, at, count, slots, oldHead)
  BY TypeParts DEF Typed
<1>2. PICK b \in Nat : Below(b)
  BY DEF Typed
<1>3. Below(b)' => \E m \in Nat : Below(m)'
  OBVIOUS
<1>4. UNCHANGED cacheVars => CacheType(pos', token', head') /\ Below(b)'
  BY <1>1, <1>2 DEF cacheVars, Below, Cells
<1>5. UNCHANGED decodeVars => CallType(batch', at', count', slots', oldHead')
  BY <1>1 DEF decodeVars
<1>6. {system, image, input} \subseteq Seq(Tokens) /\ << >> \in Seq(Tokens) /\ TypeOK
      /\ {Len(image), Len(input)} \subseteq Nat
  BY <1>1, EmptySeq DEF PredictType, Typed
<1>7. \A tokens \in Seq(Tokens) :
         CacheType(pos', token', head') /\ Below(b)' /\ CallText(tokens)
           => CallType(batch', at', count', slots', oldHead')
  <2> SUFFICES ASSUME NEW tokens \in Seq(Tokens),
                      CacheType(pos', token', head'), Below(b)', CallText(tokens)
               PROVE  CallType(batch', at', count', slots', oldHead')
    OBVIOUS
  <2>1. batch' = tokens /\ count' = Len(tokens) /\ slots' = << >> /\ oldHead' = head' /\ at' \in Nat
    BY CallTextFacts
  <2>2. Len(tokens) \in Nat /\ head' \in 0..Size
    BY DEF CacheType
  <2>3. << >> \in Seq(Cells \X (0..Size))
    BY EmptySeq
  <2> QED
    BY <2>1, <2>2, <2>3 DEF CallType
<1>8. CASE Predict
  <2>1. UNCHANGED cacheVars /\ nPast' = nPast /\ UNCHANGED decodeVars /\ setup' = setup
        /\ pc' = "system" /\ pictured' \in BOOLEAN
    BY <1>8 DEF Predict
  <2>2. \E lengths \in SUBSET Nat : image' \in Strings(lengths)
    BY <1>8, LlamaContextAssumption DEF Predict
  <2>3. \E lengths \in SUBSET Nat : input' \in Strings(lengths)
    BY <1>8, LlamaContextAssumption DEF Predict
  <2>4. system' = << >> \/ \E lengths \in SUBSET Nat : system' \in Strings(lengths)
    BY <1>8, LlamaContextAssumption DEF Predict
  <2>5. {system', image', input'} \subseteq Seq(Tokens)
    BY <1>6, <2>2, <2>3, <2>4, StringsType
  <2>6. PredictType(setup', pc', system', pictured', image', input')
    BY <1>1, <2>1, <2>5 DEF PredictType
  <2> QED
    BY <1>1, <1>3, <1>4, <1>5, <2>1, <2>6, TypePartsNext DEF Typed
<1>9. CASE EvalSystem
  <2>1. UNCHANGED cacheVars /\ nPast' = nPast /\ CacheType(pos', token', head') /\ Below(b)'
    BY <1>4, <1>9 DEF EvalSystem
  <2>2. CallType(batch', at', count', slots', oldHead')
    BY <1>5, <1>6, <1>7, <1>9, <2>1 DEF EvalSystem
  <2>3. PredictType(setup', pc', system', pictured', image', input')
    BY <1>1, <1>6, <1>9 DEF PredictType, EvalSystem
  <2> QED
    BY <1>1, <1>3, <2>1, <2>2, <2>3, TypePartsNext DEF Typed
<1>10. CASE EvalImage
  <2> DEFINE n == IF Len(image) <= Batch THEN Len(image) ELSE Batch
  <2>1. UNCHANGED cacheVars /\ nPast' = nPast /\ CacheType(pos', token', head') /\ Below(b)'
    BY <1>4, <1>10 DEF EvalImage, EvalImageAt
  <2>2. n \in 0..Len(image)
    BY <1>6, ConstantFacts
  <2>3. Drop(image, n) \in Seq(Tokens) /\ SubSeq(image, 1, n) \in Seq(Tokens)
        /\ Len(SubSeq(image, 1, n)) \in Nat
    <3>1. image \in Seq(Tokens) /\ n \in Nat
      BY <1>6, <2>2
    <3> HIDE DEF n
    <3> QED
      BY <2>2, <3>1, DropType
  <2>4. IF image # << >> THEN Call(SubSeq(image, 1, n), nPast) /\ image' = Drop(image, n)
                         ELSE UNCHANGED <<image, decodeVars>>
    BY <1>10 DEF EvalImage, EvalImageAt
  <2> HIDE DEF n
  <2>5. Call(SubSeq(image, 1, n), nPast) => CallType(batch', at', count', slots', oldHead')
    <3>1. << >> \in Seq(Cells \X (0..Size)) /\ head' \in 0..Size
      BY <2>1, EmptySeq DEF CacheType
    <3> QED
      BY <1>1, <2>3, <3>1 DEF Call, CallType
  <2>6. CallType(batch', at', count', slots', oldHead') /\ image' \in Seq(Tokens)
    BY <1>5, <1>6, <2>3, <2>4, <2>5
  <2>7. setup' = setup /\ system' = system /\ pictured' = pictured /\ input' = input
        /\ pc' \in {pc, "tokenize"}
    BY <1>10 DEF EvalImage, EvalImageAt
  <2>8. PredictType(setup', pc', system', pictured', image', input')
    BY <1>1, <1>6, <2>6, <2>7 DEF PredictType
  <2> QED
    BY <1>1, <1>3, <2>1, <2>6, <2>8, TypePartsNext DEF Typed
<1>11. CASE Tokenize
  <2>1. UNCHANGED cacheVars /\ nPast' = nPast /\ UNCHANGED decodeVars /\ setup' = setup
        /\ system' = system /\ pictured' = pictured /\ image' = image
        /\ pc' \in {"idle", "input"} /\ input' \in {input, << >>}
    BY <1>11 DEF Tokenize
  <2>2. PredictType(setup', pc', system', pictured', image', input')
    BY <1>1, <1>6, <2>1 DEF PredictType
  <2> QED
    BY <1>1, <1>3, <1>4, <1>5, <2>1, <2>2, TypePartsNext DEF Typed
<1>12. CASE EvalInput
  <2> DEFINE n == IF Len(input) <= Batch THEN Len(input) ELSE Batch
             full == nPast + n >= Context
  <2>1. /\ IF full THEN KVShift ELSE UNCHANGED <<cacheVars, nPast>>
        /\ CallText(SubSeq(input, 1, n)) /\ input' = Drop(input, n)
        /\ UNCHANGED <<setup, pc, system, pictured, image>>
    BY <1>12 DEF EvalInput
  <2>2. n \in 0..Len(input)
    BY <1>6, ConstantFacts
  <2>3. Drop(input, n) \in Seq(Tokens) /\ SubSeq(input, 1, n) \in Seq(Tokens)
    BY <1>6, <2>2, DropType
  <2>4. full \in BOOLEAN
    OBVIOUS
  <2> HIDE DEF n, full
  <2>5. CacheType(pos', token', head') /\ nPast' \in Nat /\ \E k \in Nat : Moved(k)
    BY <1>6, <2>1, <2>4, RoomFacts
  <2>6. Below(b)'
    BY <1>2, <1>6, <2>5, MovedDown
  <2>7. CallType(batch', at', count', slots', oldHead')
    BY <1>7, <2>1, <2>3, <2>5, <2>6
  <2>8. PredictType(setup', pc', system', pictured', image', input')
    BY <1>1, <2>1, <2>3 DEF PredictType
  <2> QED
    BY <1>3, <2>5, <2>6, <2>7, <2>8, TypePartsNext DEF Typed
<1>13. CASE EvalSample
  <2> DEFINE full == nPast >= Context - 2
  <2>1. /\ IF full THEN KVShift ELSE UNCHANGED <<cacheVars, nPast>>
        /\ \E t \in Tokens : CallText(<<t>>)
        /\ UNCHANGED predictVars
    BY <1>13 DEF EvalSample
  <2>2. full \in BOOLEAN
    OBVIOUS
  <2> HIDE DEF full
  <2>3. CacheType(pos', token', head') /\ nPast' \in Nat /\ \E k \in Nat : Moved(k)
    BY <1>6, <2>1, <2>2, RoomFacts
  <2>4. Below(b)'
    BY <1>2, <1>6, <2>3, MovedDown
  <2>5. \A t \in Tokens : <<t>> \in Seq(Tokens)
    OBVIOUS
  <2>6. CallType(batch', at', count', slots', oldHead')
    BY <1>7, <2>1, <2>3, <2>4, <2>5
  <2>7. PredictType(setup', pc', system', pictured', image', input')
    BY <1>1, <2>1 DEF predictVars
  <2> QED
    BY <1>3, <2>3, <2>4, <2>6, <2>7, TypePartsNext DEF Typed
<1>14. CASE InputDone \/ Stop
  <2>1. UNCHANGED cacheVars /\ nPast' = nPast /\ UNCHANGED decodeVars /\ setup' = setup
        /\ system' = system /\ pictured' = pictured /\ image' = image /\ input' = input
        /\ pc' \in {"idle", "sample"}
    BY <1>14 DEF InputDone, Stop
  <2>2. PredictType(setup', pc', system', pictured', image', input')
    BY <1>1, <2>1 DEF PredictType
  <2> QED
    BY <1>1, <1>3, <1>4, <1>5, <2>1, <2>2, TypePartsNext DEF Typed
<1> QED
  BY <1>8, <1>9, <1>10, <1>11, <1>12, <1>13, <1>14

\* One round of llama_decode that succeeds.
LEMMA DecodeFacts ==
  ASSUME TypeOK, DecodeUBatch
  PROVE  \E n \in Nat, c \in Cells :
           /\ n = UBatchSize /\ n > 0 /\ n <= Len(batch) /\ c = find_slot(n) /\ c \in FreeSlots(n)
           /\ c + n <= Size /\ \A d \in c..c + n - 1 : d \in Cells /\ pos[d] < 0
           /\ pos' = Placed(c, n) /\ CacheType(pos', token', head')
           /\ \A d \in Cells : /\ d \in c..c + n - 1 => pos'[d] = at + (d - c)
                               /\ d \notin c..c + n - 1 => pos'[d] = pos[d]
           /\ head' = IF c + n >= Size THEN 0 ELSE c + n
           /\ n = Len(batch) => nPast' = nPast + count /\ NoCall
           /\ n # Len(batch) => /\ batch' = Drop(batch, n) /\ at' = at + n
                                /\ slots' = Append(slots, <<c, c + n>>)
                                /\ nPast' = nPast /\ count' = count /\ oldHead' = oldHead
           /\ batch # << >> /\ UNCHANGED predictVars
<1> DEFINE n == UBatchSize
           c == find_slot(n)
<1>0. batch # << >> /\ FreeSlots(n) # {} /\ pos' = Placed(c, n) /\ token' = Written(c, n)
      /\ head' = (IF c + n >= Size THEN 0 ELSE c + n)
      /\ (IF n = Len(batch) THEN nPast' = nPast + count /\ NoCall
                            ELSE /\ batch' = Drop(batch, n) /\ at' = at + n
                                 /\ slots' = Append(slots, <<c, c + n>>)
                                 /\ nPast' = nPast /\ count' = count /\ oldHead' = oldHead)
      /\ UNCHANGED predictVars
  BY DEF DecodeUBatch, DecodeInto
<1>1. n \in Nat /\ n > 0 /\ n <= Len(batch)
  BY <1>0, UBatchFacts DEF TypeOK
<1> HIDE DEF n
<1>2. /\ c \in FreeSlots(n) /\ c \in Cells /\ c + n <= Size
      /\ \A d \in c..c + n - 1 : d \in Cells /\ pos[d] < 0
  BY <1>0, <1>1, SlotFacts
<1> HIDE DEF c
<1>3. /\ Placed(c, n) \in [Cells -> {-1} \cup Nat]
      /\ Written(c, n) \in [Cells -> Tokens \cup {Blank}]
      /\ \A d \in Cells : /\ d \in c..c + n - 1 => /\ Placed(c, n)[d] = at + (d - c)
                                                   /\ Written(c, n)[d] \in Tokens
                          /\ d \notin c..c + n - 1 => /\ Placed(c, n)[d] = pos[d]
                                                      /\ Written(c, n)[d] = token[d]
      /\ \A d \in Cells : Written(c, n)[d] = Blank <=> Placed(c, n)[d] = -1
  BY <1>1, <1>2, PlacedFacts
<1>4. head' \in 0..Size
  BY <1>0, <1>1, <1>2, ConstantFacts DEF Cells
<1>5. CacheType(pos', token', head')
  BY <1>0, <1>3, <1>4 DEF CacheType
<1>6. /\ n = UBatchSize /\ c = find_slot(n)
  BY DEF n, c
<1> QED
  BY <1>0, <1>1, <1>2, <1>3, <1>5, <1>6

\* A call that ends with an error.
LEMMA FailedFacts ==
  ASSUME PredictType(setup, pc, system, pictured, image, input), Failed
  PROVE  /\ CallType(batch', at', count', slots', oldHead') /\ batch' = << >> /\ count' = 0
         /\ Len(batch') = 0
         /\ PredictType(setup', pc', system', pictured', image', input')
         /\ setup' = setup /\ nPast' = nPast /\ system' = system /\ image' = << >>
         /\ pc' \in {"idle", "tokenize"}
<1>1. /\ setup' = setup /\ nPast' = nPast /\ system' = system /\ image' = << >>
      /\ pc' \in {"idle", "tokenize"} /\ pictured' = pictured /\ input' \in {input, << >>} /\ NoCall
  BY DEF Failed
<1>2. << >> \in Seq(Tokens)
  BY EmptySeq
<1> QED
  BY <1>1, <1>2, NoCallType DEF PredictType

\* A failed search moves only the head, behind a used cell or back to the start.
LEMMA NoSlotFacts ==
  ASSUME TypeOK, DecodeNoSlot
  PROVE  /\ CacheType(pos', token', head') /\ pos' = pos /\ batch # << >>
         /\ FreeSlots(UBatchSize) = {}
         /\ UBatchSize <= Size => \E c \in Used(pos) : head' = c + 1
         /\ UBatchSize > Size => head' = start_head(UBatchSize)
<1>1. /\ pos' = pos /\ token' = token /\ batch # << >> /\ FreeSlots(UBatchSize) = {}
      /\ head' \in IF UBatchSize > Size THEN {start_head(UBatchSize)}
                   ELSE {c + 1 : c \in Used(pos)}
  BY DEF DecodeNoSlot
<1>2. UBatchSize \in Nat
  BY <1>1, UBatchFacts DEF TypeOK
<1>3. start_head(UBatchSize) \in 0..Size
  BY ConstantFacts DEF start_head, TypeOK
<1>4. \A c \in Used(pos) : c + 1 \in 0..Size
  BY ConstantFacts DEF Used, Cells
<1>5. head' \in 0..Size
  BY <1>1, <1>3, <1>4
<1> QED
  BY <1>1, <1>2, <1>5, ConstantFacts DEF TypeOK, CacheType

\* A failed evaluation clears cells or leaves some of its batch, and moves no other.
LEMMA ComputeFailsFacts ==
  ASSUME TypeOK, DecodeComputeFails
  PROVE  /\ CacheType(pos', token', head') /\ batch # << >> /\ "faults" \in setup
         /\ \E n \in Nat, c \in Cells :
              \A d \in Cells : \/ pos'[d] = -1 \/ pos'[d] = pos[d]
                               \/ d \in c..c + n - 1 /\ pos'[d] = at + (d - c)
<1> DEFINE n == UBatchSize
           c == find_slot(n)
           placed == Placed(c, n)
           taken == Append(slots, <<c, c + n>>)
           gone == {d \in Cells : \E i \in DOMAIN taken :
                      d \in InRange(placed, taken[i][1], taken[i][2])}
<1>0. /\ "faults" \in setup /\ batch # << >> /\ FreeSlots(n) # {}
      /\ pos' = [d \in Cells |-> IF d \in gone THEN -1 ELSE placed[d]]
      /\ token' = [d \in Cells |-> IF pos'[d] < 0 THEN Blank ELSE Written(c, n)[d]]
      /\ head' = Min({oldHead} \cup gone)
  BY DEF DecodeComputeFails
<1>1. n \in Nat /\ n > 0 /\ n <= Len(batch)
  BY <1>0, UBatchFacts DEF TypeOK
<1> HIDE DEF n
<1>2. c \in Cells /\ c + n <= Size
  BY <1>0, <1>1, SlotFacts
<1> HIDE DEF c
<1>3. /\ placed \in [Cells -> {-1} \cup Nat]
      /\ Written(c, n) \in [Cells -> Tokens \cup {Blank}]
      /\ \A d \in Cells : /\ d \in c..c + n - 1 => /\ placed[d] = at + (d - c)
                                                   /\ Written(c, n)[d] \in Tokens
                          /\ d \notin c..c + n - 1 => /\ placed[d] = pos[d]
                                                      /\ Written(c, n)[d] = token[d]
      /\ \A d \in Cells : Written(c, n)[d] = Blank <=> placed[d] = -1
  BY <1>1, <1>2, PlacedFacts
<1>4. gone \subseteq Cells
  OBVIOUS
<1> HIDE DEF gone, placed
<1>5. head' \in 0..Size
  <2> DEFINE S == {oldHead} \cup gone
  <2>1. S \in SUBSET Nat /\ S \subseteq 0..Size /\ S # {}
    BY <1>4, ConstantFacts DEF TypeOK, Cells
  <2>2. Min(S) \in S
    BY <2>1, MinFacts
  <2> QED
    BY <1>0, <2>1, <2>2
<1>6. pos' \in [Cells -> {-1} \cup Nat] /\ \A d \in Cells : pos'[d] \in {-1, placed[d]}
  BY <1>0, <1>3
<1>7. token' \in [Cells -> Tokens \cup {Blank}]
  BY <1>0, <1>3
<1>8. ASSUME NEW d \in Cells
      PROVE  token'[d] = Blank <=> pos'[d] = -1
  <2>1. pos'[d] < 0 <=> pos'[d] = -1
    BY <1>6
  <2>2. token'[d] = IF pos'[d] < 0 THEN Blank ELSE Written(c, n)[d]
    BY <1>0
  <2> QED
    BY <1>3, <1>6, <2>1, <2>2
<1>9. \A d \in Cells : \/ pos'[d] = -1 \/ pos'[d] = pos[d]
                       \/ d \in c..c + n - 1 /\ pos'[d] = at + (d - c)
  BY <1>3, <1>6
<1> QED
  BY <1>0, <1>1, <1>2, <1>5, <1>6, <1>7, <1>8, <1>9 DEF CacheType

\* The rounds of llama_decode.
LEMMA TypeDecode ==
  ASSUME Typed, DecodeUBatch \/ DecodeNoSlot \/ DecodeComputeFails
  PROVE  Typed'
<1>1. /\ CacheType(pos, token, head) /\ nPast \in Nat /\ TypeOK
      /\ PredictType(setup, pc, system, pictured, image, input)
      /\ CallType(batch, at, count, slots, oldHead)
  BY TypeParts DEF Typed
<1>2. PICK b \in Nat : Below(b)
  BY DEF Typed
<1>3. \A m \in Nat : Below(m)' => \E k \in Nat : Below(k)'
  OBVIOUS
<1>4. CASE DecodeUBatch
  <2>1. PICK n \in Nat, c \in Cells :
           /\ n = UBatchSize /\ n > 0 /\ n <= Len(batch) /\ c = find_slot(n) /\ c \in FreeSlots(n)
           /\ c + n <= Size /\ \A d \in c..c + n - 1 : d \in Cells /\ pos[d] < 0
           /\ pos' = Placed(c, n) /\ CacheType(pos', token', head')
           /\ \A d \in Cells : /\ d \in c..c + n - 1 => pos'[d] = at + (d - c)
                               /\ d \notin c..c + n - 1 => pos'[d] = pos[d]
           /\ head' = IF c + n >= Size THEN 0 ELSE c + n
           /\ n = Len(batch) => nPast' = nPast + count /\ NoCall
           /\ n # Len(batch) => /\ batch' = Drop(batch, n) /\ at' = at + n
                                /\ slots' = Append(slots, <<c, c + n>>)
                                /\ nPast' = nPast /\ count' = count /\ oldHead' = oldHead
           /\ batch # << >> /\ UNCHANGED predictVars
    BY <1>1, <1>4, DecodeFacts
  <2>2. \E m \in Nat : Below(m)'
    <3>0. PICK m \in Nat : m = b + at + n
      BY <1>1 DEF CallType
    <3>1. ASSUME NEW d \in Cells PROVE pos'[d] < m
      <4>1. pos[d] < b /\ pos[d] \in {-1} \cup Nat /\ d \in Nat /\ c \in Nat
        BY <1>1, <1>2, ConstantFacts DEF Below, CacheType, Cells
      <4>2. at \in Nat
        BY <1>1 DEF CallType
      <4> QED
        BY <2>1, <3>0, <4>1, <4>2
    <3> QED
      BY <3>1 DEF Below, Cells
  <2>3. nPast' \in Nat /\ CallType(batch', at', count', slots', oldHead')
    <3>1. CASE n = Len(batch)
      BY <1>1, <2>1, <3>1, NoCallType DEF CallType
    <3>2. CASE n # Len(batch)
      <4>1. batch \in Seq(Tokens) /\ n \in 0..Len(batch)
        BY <1>1, <2>1 DEF CallType
      <4>2. Drop(batch, n) \in Seq(Tokens)
        BY <4>1, DropType
      <4>3. <<c, c + n>> \in Cells \X (0..Size)
        BY <2>1, ConstantFacts DEF Cells
      <4>4. Append(slots, <<c, c + n>>) \in Seq(Cells \X (0..Size))
        <5>1. slots \in Seq(Cells \X (0..Size))
          BY <1>1 DEF CallType
        <5> QED
          BY <4>3, <5>1, AppendProperties
      <4>5. batch' \in Seq(Tokens) /\ slots' \in Seq(Cells \X (0..Size))
        BY <2>1, <3>2, <4>2, <4>4
      <4>6. at' \in Nat /\ count' \in Nat /\ oldHead' \in 0..Size /\ nPast' \in Nat
        BY <1>1, <2>1, <3>2 DEF CallType
      <4> QED
        BY <4>5, <4>6 DEF CallType
    <3> QED
      BY <3>1, <3>2
  <2>4. PredictType(setup', pc', system', pictured', image', input')
    BY <1>1, <2>1 DEF predictVars
  <2> QED
    BY <2>1, <2>2, <2>3, <2>4, TypePartsNext DEF Typed
<1>5. CASE DecodeNoSlot
  <2>1. CacheType(pos', token', head') /\ pos' = pos
    BY <1>1, <1>5, NoSlotFacts
  <2>2. Failed
    BY <1>5 DEF DecodeNoSlot
  <2>3. Below(b)'
    BY <1>2, <2>1 DEF Below, Cells
  <2> QED
    BY <1>1, <1>3, <2>1, <2>2, <2>3, FailedFacts, TypePartsNext DEF Typed
<1>6. CASE DecodeComputeFails
  <2>1. CacheType(pos', token', head')
    BY <1>1, <1>6, ComputeFailsFacts
  <2>2. PICK n \in Nat, c \in Cells :
           \A d \in Cells : \/ pos'[d] = -1 \/ pos'[d] = pos[d]
                            \/ d \in c..c + n - 1 /\ pos'[d] = at + (d - c)
    BY <1>1, <1>6, ComputeFailsFacts
  <2>3. Failed
    BY <1>6 DEF DecodeComputeFails
  <2>4. \E m \in Nat : Below(m)'
    <3>0. PICK m \in Nat : m = b + at + n
      BY <1>1 DEF CallType
    <3>1. ASSUME NEW d \in Cells PROVE pos'[d] < m
      <4>1. pos[d] < b /\ pos[d] \in {-1} \cup Nat /\ d \in Nat /\ c \in Nat
        BY <1>1, <1>2, ConstantFacts DEF Below, CacheType, Cells
      <4>2. at \in Nat
        BY <1>1 DEF CallType
      <4> QED
        BY <2>2, <3>0, <4>1, <4>2
    <3> QED
      BY <3>1 DEF Below, Cells
  <2> QED
    BY <1>1, <2>1, <2>3, <2>4, FailedFacts, TypePartsNext DEF Typed
<1> QED
  BY <1>4, <1>5, <1>6

\* Types and bounds hold at the start.
LEMMA TypeInit ==
  ASSUME Init
  PROVE  Typed
<1>1. << >> \in Seq(Tokens) /\ << >> \in Seq(Cells \X (0..Size))
  BY EmptySeq
<1>2. CacheType(pos, token, head)
  BY ConstantFacts DEF Init, CacheType
<1>3. CallType(batch, at, count, slots, oldHead)
  BY <1>1, ConstantFacts DEF Init, CallType
<1>4. nPast \in Nat /\ PredictType(setup, pc, system, pictured, image, input)
  BY <1>1 DEF Init, PredictType
<1>5. Below(0)
  BY DEF Init, Below
<1> QED
  BY <1>2, <1>3, <1>4, <1>5, TypeParts DEF Typed

\* Every step keeps the types, and the positions bounded.
LEMMA TypeStep ==
  ASSUME Typed, [Next]_vars
  PROVE  Typed'
<1>1. CASE UNCHANGED vars
  <2>1. Typed = Typed'
    BY <1>1 DEF Typed, TypeOK, Below, Cells, vars, cacheVars, predictVars, decodeVars
  <2> QED
    BY <2>1
<1>2. CASE Next
  BY <1>2, TypePredict, TypeDecode DEF Next
<1> QED
  BY <1>1, <1>2

\* Every counter, position and cell keeps its type in any window, with images and with
\* failing evaluations: no position falls below 0 when KVShift moves it, and the search
\* for cells stays inside the cache.
THEOREM TypeCorrect == Spec => []TypeOK
<1>1. Init => Typed
  BY TypeInit
<1>2. Typed /\ [Next]_vars => Typed'
  BY TypeStep
<1>3. Typed => TypeOK
  BY DEF Typed
<1> QED
  BY <1>1, <1>2, <1>3, PTL DEF Spec

------------------------------------------------------------------------------
(* Calls of llama_decode *)

\* A call with text: it begins right behind the cache.
TextCall == /\ at' \in Nat /\ \A c \in Cells : pos'[c] < at'
            /\ at' > 0 => \E c \in Cells : pos'[c] = at' - 1

\* A call with a piece of an image: it begins where nPast says.
ImageCall == "images" \in setup /\ at' = nPast /\ pos' = pos /\ nPast' = nPast

\* A shift, and nPast long enough for it to leave what is kept covered.
Shift(n) == /\ nPast' = nPast - n + 1 /\ 2 * n <= nPast /\ nPast <= 2 * n + 1 /\ nPast' > 0
            /\ 2 * Keep <= nPast + 2

\* A new call, after a shift or without one.
Called ==
    /\ batch' # << >> /\ Len(batch') \in Nat /\ count' = Len(batch') /\ nPast' \in Nat
    /\ TextCall \/ ImageCall
    /\ \E n \in Nat : /\ Moved(n)
                      /\ \/ n = 0 /\ nPast' = nPast /\ pos' = pos /\ head' = head
                         \/ Shift(n)
    /\ \/ pc' \in {"image", "input", "sample"} /\ Len(batch') <= UBatch
       \/ pc' = "system" /\ nPast' = 0 /\ Len(batch') <= Size

PredictStep == Predict \/ EvalSystem \/ EvalImage \/ Tokenize \/ EvalInput \/ InputDone
                 \/ EvalSample \/ Stop

\* Between two calls Predict only moves on, or it makes the next one.
LEMMA PredictKinds ==
  ASSUME Typed, Working, Shiftable, PredictStep
  PROVE  /\ batch = << >> /\ count = 0 /\ setup' = setup
         /\ Called \/ UNCHANGED <<cacheVars, nPast, decodeVars>>
<1>0. /\ TypeOK /\ nPast \in Nat /\ {system, image, input} \subseteq Seq(Tokens)
      /\ CacheType(pos, token, head) /\ {Len(system), Len(image), Len(input)} \subseteq Nat
  BY TypeParts DEF Typed, PredictType
<1>a. PICK b \in Nat : Below(b)
  BY DEF Typed
<1>1. /\ batch = << >> /\ count = 0 /\ setup' = setup
  BY DEF PredictStep, Working, Predict, EvalSystem, EvalImage, EvalImageAt, Tokenize, EvalInput,
         InputDone, EvalSample, Stop, predictVars
<1>2. \A tokens \in Seq(Tokens) :
         /\ tokens # << >> /\ CallText(tokens) /\ CacheType(pos', token', head') /\ Below(b)'
         => /\ batch' = tokens /\ batch' # << >> /\ Len(batch') \in Nat /\ count' = Len(batch')
            /\ TextCall
  BY CallTextFacts DEF TextCall
<1>3. UNCHANGED cacheVars => CacheType(pos', token', head') /\ Below(b)' /\ Moved(0)
  BY <1>0, <1>a, ConstantFacts DEF cacheVars, Below, Cells, Moved, CacheType
<1>4. CASE Predict \/ Tokenize \/ InputDone \/ Stop
  BY <1>1, <1>4 DEF Predict, Tokenize, InputDone, Stop
<1>5. CASE EvalSystem
  <2>1. UNCHANGED <<cacheVars, nPast>>
    BY <1>5 DEF EvalSystem
  <2>2. CASE nPast = 0 /\ system # << >>
    <3>1. CallText(system) /\ pc' = "system"
      BY <1>5, <2>2 DEF EvalSystem
    <3>2. batch' = system /\ batch' # << >> /\ Len(batch') \in Nat /\ count' = Len(batch') /\ TextCall
      BY <1>0, <1>2, <1>3, <2>1, <2>2, <3>1
    <3>3. Len(system) <= Size
      BY DEF Working
    <3> QED
      BY <1>0, <1>1, <1>3, <2>1, <2>2, <3>1, <3>2, <3>3 DEF Called, cacheVars
  <2>3. CASE ~ (nPast = 0 /\ system # << >>)
    BY <1>1, <1>5, <2>1, <2>3 DEF EvalSystem
  <2> QED
    BY <2>2, <2>3
<1>6. CASE EvalImage
  <2> DEFINE n == IF Len(image) <= Batch THEN Len(image) ELSE Batch
  <2>1. UNCHANGED <<cacheVars, nPast>>
    BY <1>6 DEF EvalImage, EvalImageAt
  <2>2. CASE image # << >>
    <3>1. Call(SubSeq(image, 1, n), nPast) /\ pc' = "image"
      BY <1>6, <2>2 DEF EvalImage, EvalImageAt
    <3>2. n \in 0..Len(image) /\ n \in Nat /\ n > 0 /\ n <= UBatch
      <4>1. Len(image) > 0
        BY <1>0, <2>2, EmptySeq
      <4> QED
        BY <1>0, <4>1, ConstantFacts DEF Shiftable
    <3> HIDE DEF n
    <3>3. SubSeq(image, 1, n) \in Seq(Tokens) /\ Len(SubSeq(image, 1, n)) = n
      BY <1>0, <3>2, DropType
    <3>4. batch' = SubSeq(image, 1, n) /\ at' = nPast /\ count' = Len(batch')
      BY <3>1 DEF Call
    <3>5. batch' # << >>
      BY <3>2, <3>3, <3>4, EmptySeq
    <3>6. "images" \in setup
      BY <2>2 DEF Working
    <3>7. ImageCall
      BY <2>1, <3>4, <3>6 DEF ImageCall, cacheVars
    <3> QED
      BY <1>0, <1>1, <1>3, <2>1, <3>1, <3>2, <3>3, <3>4, <3>5, <3>7 DEF Called, cacheVars
  <2>3. CASE image = << >>
    BY <1>1, <1>6, <2>1, <2>3 DEF EvalImage, EvalImageAt
  <2> QED
    BY <2>2, <2>3
<1>7. CASE EvalInput
  <2> DEFINE n == IF Len(input) <= Batch THEN Len(input) ELSE Batch
             full == nPast + n >= Context
  <2>1. /\ IF full THEN KVShift ELSE UNCHANGED <<cacheVars, nPast>>
        /\ CallText(SubSeq(input, 1, n)) /\ pc' = "input"
    BY <1>7 DEF EvalInput
  <2>2. n \in 0..Len(input) /\ n \in Nat /\ n > 0 /\ n <= UBatch /\ n <= Batch
    <3>1. Len(input) > 0
      BY <1>0, <1>7, EmptySeq DEF EvalInput
    <3> QED
      BY <1>0, <3>1, ConstantFacts DEF Shiftable
  <2>3. full \in BOOLEAN
    OBVIOUS
  <2>4. full => 2 * Keep <= nPast + 2
    BY <1>0, <2>2, ConstantFacts DEF Shiftable
  <2> HIDE DEF n, full
  <2>5. SubSeq(input, 1, n) \in Seq(Tokens) /\ Len(SubSeq(input, 1, n)) = n
        /\ SubSeq(input, 1, n) # << >>
    <3>1. SubSeq(input, 1, n) \in Seq(Tokens) /\ Len(SubSeq(input, 1, n)) = n
      BY <1>0, <2>2, DropType
    <3> QED
      BY <2>2, <3>1, EmptySeq
  <2>6. CacheType(pos', token', head') /\ nPast' \in Nat
    BY <1>0, <2>1, <2>3, RoomFacts
  <2>7. PICK k \in Nat : /\ Moved(k)
                         /\ ~ full => k = 0 /\ nPast' = nPast /\ pos' = pos /\ head' = head
                         /\ full => /\ nPast' = nPast - k + 1 /\ 2 * k <= nPast
                                    /\ nPast <= 2 * k + 1 /\ nPast' > 0
    BY <1>0, <2>1, <2>3, RoomFacts
  <2>8. Below(b)'
    BY <1>0, <1>a, <2>7, MovedDown
  <2>9. /\ batch' = SubSeq(input, 1, n) /\ batch' # << >> /\ Len(batch') \in Nat
        /\ count' = Len(batch') /\ TextCall
    BY <1>2, <2>1, <2>5, <2>6, <2>8
  <2>10. full => Shift(k)
    BY <2>4, <2>7 DEF Shift
  <2> QED
    BY <1>1, <2>1, <2>2, <2>3, <2>5, <2>6, <2>7, <2>9, <2>10 DEF Called
<1>8. CASE EvalSample
  <2> DEFINE full == nPast >= Context - 2
  <2>1. /\ IF full THEN KVShift ELSE UNCHANGED <<cacheVars, nPast>>
        /\ pc' = "sample"
    BY <1>8 DEF EvalSample, predictVars
  <2>2. PICK t \in Tokens : CallText(<<t>>)
    BY <1>8 DEF EvalSample
  <2>3. full \in BOOLEAN
    OBVIOUS
  <2>4. full => 2 * Keep <= nPast + 2
    BY <1>0, ConstantFacts DEF Shiftable
  <2> HIDE DEF full
  <2>5. <<t>> \in Seq(Tokens) /\ Len(<<t>>) = 1 /\ <<t>> # << >>
    OBVIOUS
  <2>6. CacheType(pos', token', head') /\ nPast' \in Nat
    BY <1>0, <2>1, <2>3, RoomFacts
  <2>7. PICK k \in Nat : /\ Moved(k)
                         /\ ~ full => k = 0 /\ nPast' = nPast /\ pos' = pos /\ head' = head
                         /\ full => /\ nPast' = nPast - k + 1 /\ 2 * k <= nPast
                                    /\ nPast <= 2 * k + 1 /\ nPast' > 0
    BY <1>0, <2>1, <2>3, RoomFacts
  <2>8. Below(b)'
    BY <1>0, <1>a, <2>7, MovedDown
  <2>9. /\ batch' = <<t>> /\ batch' # << >> /\ Len(batch') \in Nat
        /\ count' = Len(batch') /\ TextCall
    BY <1>2, <2>2, <2>5, <2>6, <2>8
  <2>10. full => Shift(k)
    BY <2>4, <2>7 DEF Shift
  <2>11. Len(batch') <= UBatch
    BY <2>5, <2>9, ConstantFacts
  <2> QED
    BY <1>1, <2>1, <2>3, <2>6, <2>7, <2>9, <2>10, <2>11 DEF Called
<1> QED
  BY <1>4, <1>5, <1>6, <1>7, <1>8 DEF PredictStep

\* A round of llama_decode as far as the positions are concerned: the next n tokens of the
\* batch go to free cells, and it is the last round or the rest of the batch remains.
Round(n, c) ==
    /\ n > 0 /\ n <= Len(batch) /\ c + n <= Size
    /\ \A d \in Cells : /\ d \in c..c + n - 1 => pos[d] < 0 /\ pos'[d] = at + (d - c)
                        /\ d \notin c..c + n - 1 => pos'[d] = pos[d]
    /\ c = find_slot(n) /\ c \in FreeSlots(n)
    /\ head' = IF c + n >= Size THEN 0 ELSE c + n
    /\ Len(batch') = Len(batch) - n
    /\ \/ Len(batch') = 0 /\ batch' = << >> /\ nPast' = nPast + count /\ count' = 0
       \/ /\ Len(batch') > 0 /\ batch' # << >> /\ at' = at + n /\ nPast' = nPast
          /\ count' = count

\* A round of llama_decode fills free cells that lie together with the next tokens.
LEMMA RoundFacts ==
  ASSUME TypeOK, DecodeUBatch
  PROVE  /\ batch # << >> /\ Len(batch) \in Nat /\ UNCHANGED predictVars
         /\ CacheType(pos', token', head')
         /\ \E n \in Nat, c \in Cells : Round(n, c) /\ n = UBatchSize
<1>0. batch \in Seq(Tokens) /\ Len(batch) \in Nat
  BY DEF TypeOK
<1>1. PICK n \in Nat, c \in Cells :
           /\ n = UBatchSize /\ n > 0 /\ n <= Len(batch) /\ c = find_slot(n) /\ c \in FreeSlots(n)
           /\ c + n <= Size /\ \A d \in c..c + n - 1 : d \in Cells /\ pos[d] < 0
           /\ pos' = Placed(c, n) /\ CacheType(pos', token', head')
           /\ \A d \in Cells : /\ d \in c..c + n - 1 => pos'[d] = at + (d - c)
                               /\ d \notin c..c + n - 1 => pos'[d] = pos[d]
           /\ head' = IF c + n >= Size THEN 0 ELSE c + n
           /\ n = Len(batch) => nPast' = nPast + count /\ NoCall
           /\ n # Len(batch) => /\ batch' = Drop(batch, n) /\ at' = at + n
                                /\ slots' = Append(slots, <<c, c + n>>)
                                /\ nPast' = nPast /\ count' = count /\ oldHead' = oldHead
           /\ batch # << >> /\ UNCHANGED predictVars
  BY DecodeFacts
<1>2. /\ Len(batch') = Len(batch) - n
      /\ \/ Len(batch') = 0 /\ batch' = << >> /\ nPast' = nPast + count /\ count' = 0
         \/ /\ Len(batch') > 0 /\ batch' # << >> /\ at' = at + n /\ nPast' = nPast
            /\ count' = count
  <2>1. CASE n = Len(batch)
    BY <1>0, <1>1, <2>1, NoCallType
  <2>2. CASE n # Len(batch)
    <3>1. Len(batch') = Len(batch) - n
      BY <1>0, <1>1, <2>2, DropType
    <3>2. batch' # << >>
      BY <1>0, <1>1, <2>2, <3>1, EmptySeq
    <3> QED
      BY <1>0, <1>1, <2>2, <3>1, <3>2
  <2> QED
    BY <2>1, <2>2
<1>3. Round(n, c)
  BY <1>1, <1>2 DEF Round
<1> QED
  BY <1>0, <1>1, <1>3

\* Every step keeps what is under way consistent with the stage of Predict.
LEMMA WorkingStep ==
  ASSUME Typed, Working, Shiftable, Next
  PROVE  Working'
<1>0. TypeOK /\ Typed' /\ {Len(batch), Len(batch'), Len(system')} \subseteq Nat
  <2>1. Typed'
    BY TypeStep
  <2>2. batch \in Seq(Tokens) /\ TypeOK
    BY DEF Typed, TypeOK
  <2>3. batch' \in Seq(Tokens) /\ system' \in Seq(Tokens)
    BY <2>1 DEF Typed, TypeOK
  <2> QED
    BY <2>1, <2>2, <2>3
<1>1. CASE PredictStep
  <2>1. batch = << >> /\ count = 0 /\ (Called \/ UNCHANGED <<cacheVars, nPast, decodeVars>>)
    BY <1>1, PredictKinds
  <2>2. /\ Len(batch') <= count' /\ (batch' = << >> => count' = 0)
        /\ batch' # << >> => pc' \in {"system", "image", "input", "sample"}
        /\ batch' # << >> /\ pc' # "system" => count' = Len(batch') /\ Len(batch') <= UBatch
        /\ batch' # << >> /\ pc' = "system" => nPast' = 0 /\ count' <= Size
    <3>1. CASE Called
      BY <3>1 DEF Called
    <3>2. CASE UNCHANGED <<cacheVars, nPast, decodeVars>>
      BY <2>1, <3>2, EmptySeq DEF decodeVars
    <3> QED
      BY <2>1, <3>1, <3>2
  <2>3. Len(system') <= Size
    <3>1. CASE Predict
      <4>1. system' = << >> \/ system' \in Strings(SystemLengths)
        BY <3>1 DEF Predict
      <4>2. CASE system' = << >>
        BY <4>2, EmptySeq, ConstantFacts
      <4>3. CASE system' \in Strings(SystemLengths)
        <5>1. Len(system') \in SystemLengths
          BY <4>3, StringsType, LlamaContextAssumption
        <5> QED
          BY <5>1 DEF Shiftable
      <4> QED
        BY <4>1, <4>2, <4>3
    <3>2. CASE EvalSystem
      BY <3>2, EmptySeq, ConstantFacts DEF EvalSystem
    <3>3. CASE ~ Predict /\ ~ EvalSystem
      <4>1. system' = system
        BY <1>1, <3>3 DEF PredictStep, EvalImage, EvalImageAt, Tokenize, EvalInput, InputDone,
                          EvalSample, Stop, predictVars
      <4> QED
        BY <4>1 DEF Working
    <3> QED
      BY <3>1, <3>2, <3>3
  <2>4. "images" \notin setup' => image' = << >>
    <3>1. CASE Predict
      <4>1. setup' = setup /\ image' \in Strings(IF "images" \in setup THEN ImageLengths ELSE {0})
        BY <3>1 DEF Predict
      <4>2. SUFFICES ASSUME "images" \notin setup PROVE image' = << >>
        BY <4>1
      <4>3. image' \in Strings({0})
        BY <4>1, <4>2
      <4>4. image' \in Seq(Tokens) /\ Len(image') = 0
        BY <4>3, StringsType
      <4> QED
        BY <4>4, EmptySeq
    <3>2. CASE EvalImage
      <4>1. setup' = setup /\ (image = << >> => image' = << >>)
        BY <3>2 DEF EvalImage, EvalImageAt
      <4> QED
        BY <4>1 DEF Working
    <3>3. CASE ~ Predict /\ ~ EvalImage
      <4>1. image' = image /\ setup' = setup
        BY <1>1, <3>3 DEF PredictStep, EvalSystem, Tokenize, EvalInput, InputDone, EvalSample,
                          Stop, predictVars
      <4> QED
        BY <4>1 DEF Working
    <3> QED
      BY <3>1, <3>2, <3>3
  <2> QED
    BY <2>2, <2>3, <2>4 DEF Working
<1>2. CASE DecodeUBatch
  <2>1. batch # << >> /\ UNCHANGED predictVars
    BY <1>0, <1>2, RoundFacts
  <2>2. PICK n \in Nat, c \in Cells : Round(n, c) /\ n = UBatchSize
    BY <1>0, <1>2, RoundFacts
  <2>3. pc # "system" => batch' = << >>
    <3>1. batch \in Seq(Tokens)
      BY <1>0 DEF TypeOK
    <3>2. pc # "system" => UBatchSize = Len(batch)
      BY <2>1, <3>1, UBatchFacts DEF Working
    <3> QED
      BY <1>0, <2>2, <3>2 DEF Round
  <2>4. /\ pc' = pc /\ system' = system /\ image' = image /\ setup' = setup
    BY <2>1 DEF predictVars
  <2>5. CASE batch' = << >>
    <3>1. count' = 0 /\ Len(batch') = 0
      BY <2>2, <2>5, EmptySeq DEF Round
    <3> QED
      BY <2>4, <2>5, <3>1 DEF Working
  <2>6. CASE batch' # << >>
    <3>1. pc = "system" /\ count' = count /\ nPast' = nPast /\ Len(batch') = Len(batch) - n
      BY <2>2, <2>3, <2>6 DEF Round
    <3>2. Len(batch') <= count'
      BY <1>0, <3>1 DEF Working, TypeOK
    <3> QED
      BY <2>1, <2>4, <2>6, <3>1, <3>2 DEF Working
  <2> QED
    BY <2>5, <2>6
<1>3. CASE DecodeNoSlot \/ DecodeComputeFails
  <2>1. Failed
    BY <1>3 DEF DecodeNoSlot, DecodeComputeFails
  <2>2. /\ batch' = << >> /\ count' = 0 /\ Len(batch') = 0 /\ setup' = setup /\ system' = system
        /\ image' = << >>
    BY <1>0, <2>1, FailedFacts, TypeParts
  <2> QED
    BY <2>2 DEF Working
<1> QED
  BY <1>1, <1>2, <1>3 DEF Next, PredictStep

------------------------------------------------------------------------------
(* nPast covers the cache *)

\* A shift keeps the positions below what nPast becomes: what it moves was below nPast, and
\* what it keeps is no longer than what is left.
LEMMA ShiftCovers ==
  ASSUME TypeOK, Below(nPast), NEW n \in Nat, Moved(n), Shift(n)
  PROVE  \A c \in Cells : pos'[c] < nPast'
<1> SUFFICES ASSUME NEW c \in Cells PROVE pos'[c] < nPast'
  OBVIOUS
<1>1. pos[c] \in {-1} \cup Nat /\ pos[c] < nPast /\ nPast \in Nat
  BY DEF TypeOK, Below
<1>2. nPast' = nPast - n + 1 /\ 2 * n <= nPast /\ nPast <= 2 * n + 1 /\ 2 * Keep <= nPast + 2
  BY DEF Shift
<1>3. Keep \in Nat
  BY ConstantFacts
<1> QED
  BY <1>1, <1>2, <1>3 DEF Moved

\* The cells in use are counted by an empty cache's system prompt.
LEMMA UsedFacts ==
  ASSUME NEW k \in Nat, Used(pos) = 0..k - 1
  PROVE  Cardinality(Used(pos)) = k
<1>1. 0 \in Int /\ k - 1 \in Int
  OBVIOUS
<1>2. Cardinality(0..k - 1) = IF 0 > k - 1 THEN 0 ELSE k - 1 - 0 + 1
  BY <1>1, FS_Interval
<1> QED
  BY <1>2

\* Every step keeps nPast, with what of the batch is decoded, ahead of the cache.
LEMMA CoveredStep ==
  ASSUME Typed, Working, Shiftable, Covered, Next
  PROVE  Covered'
<1>0. TypeOK /\ Typed' /\ nPast \in Nat /\ count \in Nat /\ at \in Nat /\ Len(batch) \in Nat
  <2>1. batch \in Seq(Tokens)
    BY DEF Typed, TypeOK
  <2>2. Len(batch) \in Nat
    BY <2>1
  <2>3. Typed'
    BY TypeStep
  <2> QED
    BY <2>2, <2>3 DEF Typed, TypeOK
<1>a. setup' = setup
  BY DEF Next, Predict, EvalSystem, EvalImage, EvalImageAt, Tokenize, EvalInput, InputDone,
         EvalSample, Stop, DecodeUBatch, DecodeInto, DecodeNoSlot, DecodeComputeFails, Failed,
         predictVars
<1> SUFFICES ASSUME "faults" \notin setup
             PROVE  /\ \A c \in Cells : pos'[c] < nPast' + (count' - Len(batch'))
                    /\ batch' # << >> => at' <= nPast' + (count' - Len(batch'))
                    /\ nPast' = 0 => /\ Used(pos') = 0..(count' - Len(batch')) - 1
                                     /\ head' = count' - Len(batch')
  BY <1>a DEF Covered, Below, Cells, Decoded
<1>1. /\ \A c \in Cells : pos[c] < nPast + (count - Len(batch))
      /\ batch # << >> => at <= nPast + (count - Len(batch))
      /\ nPast = 0 => Used(pos) = 0..(count - Len(batch)) - 1 /\ head = count - Len(batch)
  BY DEF Covered, Below, Cells, Decoded
<1>2. CASE PredictStep
  <2>1. batch = << >> /\ count = 0 /\ (Called \/ UNCHANGED <<cacheVars, nPast, decodeVars>>)
    BY <1>2, PredictKinds
  <2>2. Len(batch) = 0
    BY <2>1, EmptySeq
  <2>3. CASE UNCHANGED <<cacheVars, nPast, decodeVars>>
    BY <1>1, <2>3 DEF cacheVars, decodeVars
  <2>4. CASE Called
    <3>1. /\ batch' # << >> /\ Len(batch') \in Nat /\ count' = Len(batch') /\ nPast' \in Nat
          /\ TextCall \/ ImageCall
      BY <2>4 DEF Called
    <3>a. nPast' \in Nat
      BY <3>1
    <3>2. PICK n \in Nat : /\ Moved(n)
                           /\ \/ n = 0 /\ nPast' = nPast /\ pos' = pos /\ head' = head
                              \/ Shift(n)
      BY <2>4 DEF Called
    <3>3. Below(nPast)
      BY <1>0, <1>1, <2>1, <2>2 DEF Below
    <3>4. \A c \in Cells : pos'[c] < nPast'
      BY <1>0, <3>2, <3>3, ShiftCovers DEF Below
    <3>5. at' <= nPast'
      <4>1. CASE TextCall
        <5>1. at' \in Nat /\ (at' > 0 => \E c \in Cells : pos'[c] = at' - 1)
          BY <4>1 DEF TextCall
        <5>2. CASE at' = 0
          BY <3>1, <5>2
        <5>3. CASE at' > 0
          <6>1. PICK c \in Cells : pos'[c] = at' - 1
            BY <5>1, <5>3
          <6>2. at' - 1 < nPast'
            BY <3>4, <6>1
          <6> QED
            <7>1. \A x, y \in Nat : x - 1 < y => x <= y
              OBVIOUS
            <7> QED
              BY <3>a, <5>1, <6>2, <7>1
        <5> QED
          BY <5>1, <5>2, <5>3
      <4>2. CASE ImageCall
        BY <1>0, <4>2 DEF ImageCall
      <4> QED
        BY <3>1, <4>1, <4>2
    <3>6. nPast' = 0 => Used(pos') = Used(pos) /\ head' = head /\ nPast = 0
      <4>1. Shift(n) => nPast' > 0
        BY DEF Shift
      <4> QED
        BY <3>1, <3>2, <4>1
    <3>7. count' - Len(batch') = 0 /\ count - Len(batch) = 0 /\ nPast' + 0 = nPast'
      <4>1. \A x \in Nat : x - x = 0 /\ x + 0 = x
        OBVIOUS
      <4> QED
        BY <2>1, <2>2, <3>1, <4>1
    <3> QED
      BY <1>1, <3>4, <3>5, <3>6, <3>7
  <2> QED
    BY <2>1, <2>3, <2>4
<1>3. CASE DecodeUBatch
  <2>1. batch # << >> /\ UNCHANGED predictVars
    BY <1>0, <1>3, RoundFacts
  <2>2. PICK n \in Nat, c \in Cells : Round(n, c)
    BY <1>0, <1>3, RoundFacts
  <2>3. c \in Nat /\ \A d \in Cells : d \in Nat
    BY ConstantFacts DEF Cells
  <2>4. /\ n > 0 /\ n <= Len(batch) /\ Len(batch) <= count
    BY <2>2 DEF Round, Working
  <2> DEFINE done == nPast + (count - Len(batch))
             done2 == nPast' + (count' - Len(batch'))
  <2>5. done2 = done + n /\ done \in Nat /\ done2 \in Nat
    <3>1. \/ Len(batch') = 0 /\ nPast' = nPast + count /\ count' = 0
          \/ nPast' = nPast /\ count' = count
      BY <2>2 DEF Round
    <3>2. Len(batch') = Len(batch) - n
      BY <2>2 DEF Round
    <3> QED
      BY <1>0, <2>4, <3>1, <3>2
  <2>6. at <= done /\ \A d \in Cells : pos[d] < done
    BY <1>1, <2>1
  <2> HIDE DEF done, done2
  <2>7. ASSUME NEW d \in Cells PROVE pos'[d] < done2
    <3>1. pos[d] \in {-1} \cup Nat /\ d \in Nat
      BY <1>0, <2>3 DEF TypeOK
    <3>2. CASE d \in c..c + n - 1
      <4>1. pos'[d] = at + (d - c)
        BY <2>2, <3>2 DEF Round
      <4> QED
        BY <1>0, <2>3, <2>5, <2>6, <3>1, <3>2, <4>1
    <3>3. CASE d \notin c..c + n - 1
      <4>1. pos'[d] = pos[d]
        BY <2>2, <3>3 DEF Round
      <4> QED
        BY <2>4, <2>5, <2>6, <3>1, <4>1
    <3> QED
      BY <3>2, <3>3
  <2>8. batch' # << >> => at' <= done2
    <3>1. batch' # << >> => at' = at + n
      BY <2>2 DEF Round
    <3> QED
      BY <1>0, <2>5, <2>6, <3>1
  <2>9. ASSUME nPast' = 0
        PROVE  Used(pos') = 0..(count' - Len(batch')) - 1 /\ head' = count' - Len(batch')
    <3> DEFINE k == count - Len(batch)
    <3>1. nPast = 0 /\ batch' # << >> /\ Len(batch') > 0 /\ count' = count
          /\ Len(batch') = Len(batch) - n
      BY <1>0, <2>2, <2>4, <2>9 DEF Round
    <3>2. k \in Nat /\ Used(pos) = 0..k - 1 /\ head = k /\ count' - Len(batch') = k + n
      BY <1>0, <1>1, <2>4, <3>1
    <3>3. pc = "system"
      <4>1. pc # "system" => count = Len(batch) /\ Len(batch) <= UBatch
        BY <2>1 DEF Working
      <4>2. batch \in Seq(Tokens) /\ UBatchSize \in Nat
        BY <1>0, <2>1, UBatchFacts DEF TypeOK
      <4>3. PICK m \in Nat, e \in Cells : Round(m, e) /\ m = UBatchSize
        BY <1>0, <1>3, RoundFacts
      <4>4. Len(batch') = Len(batch) - m
        BY <4>3 DEF Round
      <4>5. pc # "system" => m = Len(batch)
        BY <2>1, <4>1, <4>2, <4>3, UBatchFacts
      <4> QED
        BY <1>0, <3>1, <4>4, <4>5
    <3>4. count <= Size
      BY <2>1, <3>3 DEF Working
    <3>5. k + n < Size
      BY <1>0, <2>4, <3>1, <3>2, <3>4, ConstantFacts
    <3> HIDE DEF k
    <3>6. start_head(n) = k
      <4>1. Cardinality(Used(pos)) = k
        BY <3>2, UsedFacts
      <4> QED
        BY <3>2, <4>1 DEF start_head
    <3>7. k \in FreeSlots(n)
      <4>1. k \in Cells /\ k + n <= Size
        BY <2>4, <3>2, <3>5, ConstantFacts DEF Cells
      <4>2. ASSUME NEW i \in 0..n - 1 PROVE pos[k + i] < 0
        <5>1. k + i \in Cells /\ k + i \notin Used(pos)
          BY <3>2, <3>5, ConstantFacts DEF Cells
        <5>2. pos[k + i] \in {-1} \cup Nat
          BY <1>0, <5>1 DEF TypeOK
        <5> QED
          BY <5>1, <5>2 DEF Used
      <4> QED
        BY <4>1, <4>2 DEF FreeSlots
    <3>8. c = k
      <4> DEFINE ahead == {e \in FreeSlots(n) : e >= start_head(n)}
      <4>1. k \in ahead
        BY <3>2, <3>6, <3>7
      <4>2. ahead \in SUBSET Nat
        BY ConstantFacts DEF FreeSlots, Cells
      <4>3. Min(ahead) \in ahead /\ Min(ahead) <= k
        BY <4>1, <4>2, MinFacts
      <4>4. Min(ahead) = k
        BY <3>2, <3>6, <4>2, <4>3
      <4>5. c = Min(ahead)
        BY <2>2, <4>1 DEF Round, find_slot
      <4> QED
        BY <4>4, <4>5
    <3>9. head' = k + n
      BY <2>2, <3>2, <3>5, <3>8, ConstantFacts DEF Round
    <3>10. Used(pos') = 0..(k + n) - 1
      <4>1. ASSUME NEW d \in Cells
            PROVE  pos'[d] >= 0 <=> d \in 0..(k + n) - 1
        <5>1. pos[d] \in {-1} \cup Nat /\ d \in Nat /\ (pos[d] >= 0 <=> d \in 0..k - 1)
          BY <1>0, <2>3, <3>2 DEF TypeOK, Used
        <5>2. CASE d \in k..k + n - 1
          <6>1. pos'[d] = at + (d - k)
            BY <2>2, <3>8, <5>2 DEF Round
          <6> QED
            BY <1>0, <3>2, <5>1, <5>2, <6>1
        <5>3. CASE d \notin k..k + n - 1
          <6>1. pos'[d] = pos[d]
            BY <2>2, <3>8, <5>3 DEF Round
          <6> QED
            BY <3>2, <5>1, <5>3, <6>1
        <5> QED
          BY <5>2, <5>3
      <4>2. 0..(k + n) - 1 \subseteq Cells
        BY <3>2, <3>5, ConstantFacts DEF Cells
      <4> QED
        BY <4>1, <4>2 DEF Used
    <3> QED
      BY <3>2, <3>9, <3>10
  <2> QED
    BY <2>7, <2>8, <2>9 DEF done2
<1>4. CASE DecodeNoSlot
  <2>1. /\ pos' = pos /\ batch # << >> /\ FreeSlots(UBatchSize) = {}
        /\ UBatchSize <= Size => \E c \in Used(pos) : head' = c + 1
        /\ UBatchSize > Size => head' = start_head(UBatchSize)
    BY <1>0, <1>4, NoSlotFacts
  <2>2. batch' = << >> /\ count' = 0 /\ Len(batch') = 0 /\ nPast' = nPast
    <3>1. Failed
      BY <1>4 DEF DecodeNoSlot
    <3> QED
      BY <1>0, <3>1, FailedFacts, TypeParts
  <2>3. batch \in Seq(Tokens) /\ UBatchSize \in Nat /\ UBatchSize > 0 /\ UBatchSize <= Len(batch)
    BY <1>0, <2>1, UBatchFacts DEF TypeOK
  <2> DEFINE k == count - Len(batch)
  <2>4. k \in Nat
    BY <1>0 DEF Working
  \* While nPast is 0 the cells behind head are free.
  <2>5. nPast = 0 => UBatchSize > Size - k
    <3>1. SUFFICES ASSUME nPast = 0, UBatchSize <= Size - k PROVE FALSE
      BY <2>3, <2>4, ConstantFacts
    <3>2. Used(pos) = 0..k - 1
      BY <1>1, <3>1
    <3>3. k \in FreeSlots(UBatchSize)
      <4>1. k \in Cells /\ k + UBatchSize <= Size
        BY <2>3, <2>4, <3>1, ConstantFacts DEF Cells
      <4>2. ASSUME NEW i \in 0..UBatchSize - 1 PROVE pos[k + i] < 0
        <5>1. k + i \in Cells /\ k + i \notin Used(pos)
          BY <2>3, <2>4, <3>2, <4>1, ConstantFacts DEF Cells
        <5>2. pos[k + i] \in {-1} \cup Nat
          BY <1>0, <5>1 DEF TypeOK
        <5> QED
          BY <5>1, <5>2 DEF Used
      <4> QED
        BY <4>1, <4>2 DEF FreeSlots
    <3> QED
      BY <2>1, <3>3
  <2>6. pc = "system" => FALSE
    <3>1. SUFFICES ASSUME pc = "system" PROVE FALSE
      OBVIOUS
    <3>2. nPast = 0 /\ count <= Size
      BY <2>1, <3>1 DEF Working
    <3> QED
      BY <1>0, <2>3, <2>5, <3>2, ConstantFacts
  <2>7. k = 0
    BY <1>0, <2>1, <2>6 DEF Working
  <2>8. nPast = 0 => Used(pos) = {} /\ head = 0 /\ head' = 0
    <3>1. SUFFICES ASSUME nPast = 0 PROVE Used(pos) = {} /\ head = 0 /\ head' = 0
      OBVIOUS
    <3>2. Used(pos) = 0..0 - 1 /\ head = 0
      BY <1>1, <2>7, <3>1
    <3>3. UBatchSize > Size
      BY <2>3, <2>5, <2>7, <3>1, ConstantFacts
    <3>4. start_head(UBatchSize) = 0
      BY <3>2 DEF start_head
    <3> QED
      BY <2>1, <3>2, <3>3, <3>4
  <2>9. \A c \in Cells : pos'[c] < nPast' + (count' - Len(batch'))
    BY <1>0, <1>1, <2>1, <2>2, <2>7
  <2>10. nPast' = 0 => Used(pos') = 0..(count' - Len(batch')) - 1 /\ head' = count' - Len(batch')
    <3>1. count' - Len(batch') = 0 /\ 0..0 - 1 = {} /\ Used(pos') = Used(pos)
      <4>1. 0 - 0 = 0 /\ 0..0 - 1 = {}
        OBVIOUS
      <4> QED
        BY <2>1, <2>2, <4>1
    <3> QED
      BY <2>2, <2>8, <3>1
  <2> QED
    BY <2>2, <2>9, <2>10
<1>5. CASE DecodeComputeFails
  BY <1>5 DEF DecodeComputeFails
<1> QED
  BY <1>2, <1>3, <1>4, <1>5 DEF Next, PredictStep

------------------------------------------------------------------------------
(* No two cells share a position *)

\* A shift brings no two tokens together: the tokens that move keep their distance, stay
\* behind those in front of Keep and below those nPast does not cover.
LEMMA MovedDistinct ==
  ASSUME TypeOK, NEW n \in Nat, Moved(n), NEW c \in Cells, NEW d \in Cells,
         pos[c] = pos[d] /\ pos[c] >= 0 => c = d, pos'[c] = pos'[d], pos'[c] >= 0
  PROVE  c = d
<1>1. {pos[c], pos[d]} \subseteq {-1} \cup Nat /\ nPast \in Nat /\ Keep \in Nat
  BY ConstantFacts DEF TypeOK
<1>2. /\ \/ pos[c] \in 0..Keep - 1 /\ pos'[c] = pos[c]
         \/ pos[c] >= Keep + n /\ pos[c] >= nPast /\ pos'[c] = pos[c]
         \/ pos[c] >= Keep + n /\ pos[c] < nPast /\ pos'[c] = pos[c] - n
      /\ \/ pos[d] \in 0..Keep - 1 /\ pos'[d] = pos[d]
         \/ pos[d] >= Keep + n /\ pos[d] >= nPast /\ pos'[d] = pos[d]
         \/ pos[d] >= Keep + n /\ pos[d] < nPast /\ pos'[d] = pos[d] - n
  BY DEF Moved
<1>3. pos[c] = pos[d] /\ pos[c] >= 0
  BY <1>1, <1>2
<1> QED
  BY <1>3

\* A batch that lies beyond the cache brings no position that is taken.
LEMMA PlacedDistinct ==
  ASSUME TypeOK, NEW n \in Nat, NEW f \in Cells, NEW c \in Cells, NEW d \in Cells,
         pos[c] = pos[d] /\ pos[c] >= 0 => c = d, pos[c] < at, pos[d] < at,
         pos'[c] \in {-1, pos[c]} \/ (c \in f..f + n - 1 /\ pos'[c] = at + (c - f)),
         pos'[d] \in {-1, pos[d]} \/ (d \in f..f + n - 1 /\ pos'[d] = at + (d - f)),
         pos'[c] = pos'[d], pos'[c] >= 0
  PROVE  c = d
<1>1. {pos[c], pos[d]} \subseteq {-1} \cup Nat /\ at \in Nat /\ {c, d, f} \subseteq Nat
  BY ConstantFacts DEF TypeOK, Cells
<1> QED
  BY <1>1

\* No step puts two tokens at one position.
LEMMA DistinctStep ==
  ASSUME Typed, Working, Shiftable, Covered, PositionsDistinct, AheadOfCache, Next
  PROVE  PositionsDistinct' /\ AheadOfCache'
<1>0. TypeOK /\ nPast \in Nat /\ at \in Nat
  BY DEF Typed, TypeOK
<1>a. setup' = setup
  BY DEF Next, Predict, EvalSystem, EvalImage, EvalImageAt, Tokenize, EvalInput, InputDone,
         EvalSample, Stop, DecodeUBatch, DecodeInto, DecodeNoSlot, DecodeComputeFails, Failed,
         predictVars
<1> SUFFICES ASSUME setup # {"images", "faults"}
             PROVE  /\ \A c, d \in Cells : pos'[c] = pos'[d] /\ pos'[c] >= 0 => c = d
                    /\ batch' # << >> => \A c \in Cells : pos'[c] < at'
  BY <1>a DEF PositionsDistinct, AheadOfCache, Used, Below, Cells
<1>1. \A c, d \in Cells : pos[c] = pos[d] /\ pos[c] >= 0 => c = d
  <2> SUFFICES ASSUME NEW c \in Cells, NEW d \in Cells, pos[c] = pos[d], pos[c] >= 0
               PROVE  c = d
    OBVIOUS
  <2>1. c \in Used(pos) /\ d \in Used(pos)
    BY DEF Used
  <2> QED
    BY <2>1 DEF PositionsDistinct
<1>2. batch # << >> => \A c \in Cells : pos[c] < at
  BY DEF AheadOfCache, Below
<1>3. CASE PredictStep
  <2>1. batch = << >> /\ count = 0 /\ (Called \/ UNCHANGED <<cacheVars, nPast, decodeVars>>)
    BY <1>3, PredictKinds
  <2>2. CASE UNCHANGED <<cacheVars, nPast, decodeVars>>
    BY <1>1, <1>2, <2>2 DEF cacheVars, decodeVars
  <2>3. CASE Called
    <3>1. PICK n \in Nat : Moved(n)
      BY <2>3 DEF Called
    <3>2. \A c, d \in Cells : pos'[c] = pos'[d] /\ pos'[c] >= 0 => c = d
      BY <1>0, <1>1, <3>1, MovedDistinct
    <3>3. \A c \in Cells : pos'[c] < at'
      <4>1. CASE TextCall
        BY <4>1 DEF TextCall
      <4>2. CASE ImageCall
        <5>1. "faults" \notin setup
          <6>1. setup \subseteq {"images", "faults"}
            BY <1>0, LlamaContextAssumption DEF TypeOK
          <6> QED
            BY <4>2, <6>1 DEF ImageCall
        <5>2. \A c \in Cells : pos[c] < nPast + (count - Len(batch))
          BY <5>1 DEF Covered, Below, Decoded
        <5>3. Len(batch) = 0 /\ nPast + (0 - 0) = nPast
          BY <1>0, <2>1, EmptySeq
        <5> QED
          BY <2>1, <4>2, <5>2, <5>3 DEF ImageCall
      <4> QED
        BY <2>3, <4>1, <4>2 DEF Called
    <3> QED
      BY <3>2, <3>3
  <2> QED
    BY <2>1, <2>2, <2>3
<1>4. CASE DecodeUBatch
  <2>1. batch # << >>
    BY <1>0, <1>4, RoundFacts
  <2>2. PICK n \in Nat, f \in Cells : Round(n, f)
    BY <1>0, <1>4, RoundFacts
  <2>3. \A c \in Cells : \/ pos'[c] \in {-1, pos[c]}
                         \/ c \in f..f + n - 1 /\ pos'[c] = at + (c - f)
    BY <2>2 DEF Round
  <2>4. \A c, d \in Cells : pos'[c] = pos'[d] /\ pos'[c] >= 0 => c = d
    BY <1>0, <1>1, <1>2, <2>1, <2>3, PlacedDistinct
  <2>5. ASSUME batch' # << >>, NEW c \in Cells PROVE pos'[c] < at'
    <3>1. at' = at + n /\ n > 0
      BY <2>2, <2>5 DEF Round
    <3>2. pos[c] \in {-1} \cup Nat /\ c \in Nat /\ f \in Nat /\ pos[c] < at
      BY <1>0, <1>2, <2>1, ConstantFacts DEF TypeOK, Cells
    <3> QED
      BY <1>0, <2>3, <3>1, <3>2
  <2> QED
    BY <2>4, <2>5
<1>5. CASE DecodeNoSlot
  <2>1. pos' = pos
    BY <1>0, <1>5, NoSlotFacts
  <2>2. batch' = << >>
    BY <1>0, <1>5, FailedFacts, TypeParts DEF DecodeNoSlot
  <2> QED
    BY <1>1, <2>1, <2>2
<1>6. CASE DecodeComputeFails
  <2>1. batch # << >>
    BY <1>6 DEF DecodeComputeFails
  <2>2. batch' = << >>
    BY <1>0, <1>6, FailedFacts, TypeParts DEF DecodeComputeFails
  <2>3. PICK n \in Nat, f \in Cells :
           \A c \in Cells : \/ pos'[c] = -1 \/ pos'[c] = pos[c]
                            \/ c \in f..f + n - 1 /\ pos'[c] = at + (c - f)
    BY <1>0, <1>6, ComputeFailsFacts
  <2>4. \A c \in Cells : \/ pos'[c] \in {-1, pos[c]}
                         \/ c \in f..f + n - 1 /\ pos'[c] = at + (c - f)
    BY <2>3
  <2>5. \A c, d \in Cells : pos'[c] = pos'[d] /\ pos'[c] >= 0 => c = d
    BY <1>0, <1>1, <1>2, <2>1, <2>4, PlacedDistinct
  <2> QED
    BY <2>2, <2>5
<1> QED
  BY <1>3, <1>4, <1>5, <1>6 DEF Next, PredictStep

------------------------------------------------------------------------------
(* Text leaves no gaps *)

\* A shift closes the gap it makes: below Keep nothing moves, and what follows the block
\* that goes is covered by nPast and moves down by the length of the block.
LEMMA MovedContiguous ==
  ASSUME TypeOK, NEW n \in Nat, Moved(n), Below(nPast),
         \A c \in Cells : pos[c] >= 0 => \A p \in 0..pos[c] : \E d \in Cells : pos[d] = p,
         NEW c \in Cells, pos'[c] >= 0, NEW p \in 0..pos'[c]
  PROVE  \E d \in Cells : pos'[d] = p
<1>1. /\ nPast \in Nat /\ Keep \in Nat
      /\ \A d \in Cells : pos[d] \in {-1} \cup Nat /\ pos[d] < nPast
  BY ConstantFacts DEF TypeOK, Below
<1>2. \A d \in Cells : \/ pos[d] = -1 /\ pos'[d] = -1
                       \/ pos[d] \in Keep..Keep + n - 1 /\ pos'[d] = -1
                       \/ pos[d] \in 0..Keep - 1 /\ pos'[d] = pos[d]
                       \/ pos[d] >= Keep + n /\ pos'[d] = pos[d] - n
  BY <1>1 DEF Moved
<1>3. /\ p \in Nat /\ p <= pos'[c] /\ pos'[c] <= pos[c] /\ pos[c] >= 0
      /\ pos[c] \in Nat /\ pos'[c] \in Nat
  BY <1>1, <1>2
<1>4. CASE p < Keep
  <2>1. p \in 0..pos[c]
    <3>1. \A x, y, z \in Nat : x <= y /\ y <= z => x \in 0..z
      OBVIOUS
    <3> QED
      BY <1>3, <3>1
  <2>2. PICK d \in Cells : pos[d] = p
    BY <1>3, <2>1
  <2>3. pos'[d] = p
    BY <1>1, <1>2, <1>3, <1>4, <2>2
  <2> QED
    BY <2>3
<1>5. CASE p >= Keep
  <2>1. pos'[c] = pos[c] - n
    BY <1>1, <1>2, <1>3, <1>5
  <2>2. p + n \in 0..pos[c]
    BY <1>1, <1>3, <2>1
  <2>3. PICK d \in Cells : pos[d] = p + n
    BY <1>3, <2>2
  <2>4. pos'[d] = p
    BY <1>1, <1>2, <1>3, <1>5, <2>3
  <2> QED
    BY <2>4
<1> QED
  BY <1>1, <1>3, <1>4, <1>5

\* No step leaves a gap in the numbers of a text.
LEMMA ContiguousStep ==
  ASSUME Typed, Working, Shiftable, Covered, PositionsContiguous, AheadOfCache, Continues, Next
  PROVE  PositionsContiguous' /\ Continues'
<1>0. TypeOK /\ nPast \in Nat /\ at \in Nat /\ Typed'
  BY TypeStep DEF Typed, TypeOK
<1>a. setup' = setup
  BY DEF Next, Predict, EvalSystem, EvalImage, EvalImageAt, Tokenize, EvalInput, InputDone,
         EvalSample, Stop, DecodeUBatch, DecodeInto, DecodeNoSlot, DecodeComputeFails, Failed,
         predictVars
<1> SUFFICES ASSUME setup = {}
             PROVE  /\ \A c \in Cells : pos'[c] >= 0 =>
                          \A p \in 0..pos'[c] : \E d \in Cells : pos'[d] = p
                    /\ batch' # << >> => \A p \in 0..at' - 1 : \E d \in Cells : pos'[d] = p
  BY <1>a DEF PositionsContiguous, Continues, Used, Cells
<1>1. \A c \in Cells : pos[c] >= 0 => \A p \in 0..pos[c] : \E d \in Cells : pos[d] = p
  BY DEF PositionsContiguous, Used
<1>2. batch # << >> => /\ \A p \in 0..at - 1 : \E d \in Cells : pos[d] = p
                       /\ \A c \in Cells : pos[c] < at
  BY DEF Continues, AheadOfCache, Below
<1>3. CASE PredictStep
  <2>1. batch = << >> /\ count = 0 /\ (Called \/ UNCHANGED <<cacheVars, nPast, decodeVars>>)
    BY <1>3, PredictKinds
  <2>2. CASE UNCHANGED <<cacheVars, nPast, decodeVars>>
    BY <1>1, <1>2, <2>2 DEF cacheVars, decodeVars
  <2>3. CASE Called
    <3>1. PICK n \in Nat : Moved(n)
      BY <2>3 DEF Called
    <3>2. Below(nPast)
      <4>1. \A c \in Cells : pos[c] < nPast + (count - Len(batch))
        BY DEF Covered, Below, Decoded
      <4>2. Len(batch) = 0 /\ nPast + (0 - 0) = nPast
        BY <1>0, <2>1, EmptySeq
      <4> QED
        BY <2>1, <4>1, <4>2 DEF Below
    <3>3. \A c \in Cells : pos'[c] >= 0 => \A p \in 0..pos'[c] : \E d \in Cells : pos'[d] = p
      BY <1>0, <1>1, <3>1, <3>2, MovedContiguous
    <3>4. TextCall
      BY <2>3 DEF Called, ImageCall
    <3>5. ASSUME NEW p \in 0..at' - 1 PROVE \E d \in Cells : pos'[d] = p
      <4>1. at' \in Nat /\ at' > 0
        <5>1. \A x \in Nat : p \in 0..x - 1 => x > 0
          OBVIOUS
        <5> QED
          BY <3>4, <3>5, <5>1 DEF TextCall
      <4>2. PICK c \in Cells : pos'[c] = at' - 1
        BY <3>4, <4>1 DEF TextCall
      <4>3. pos'[c] >= 0 /\ p \in 0..pos'[c]
        <5>1. \A x \in Nat : x > 0 => x - 1 >= 0
          OBVIOUS
        <5> QED
          BY <3>5, <4>1, <4>2, <5>1
      <4> QED
        BY <3>3, <4>3
    <3> QED
      BY <3>3, <3>5
  <2> QED
    BY <2>1, <2>2, <2>3
<1>4. CASE DecodeUBatch
  <2>1. batch # << >>
    BY <1>0, <1>4, RoundFacts
  <2>2. PICK n \in Nat, f \in Cells : Round(n, f)
    BY <1>0, <1>4, RoundFacts
  <2>3. n > 0 /\ f + n <= Size /\ \A d \in Cells : d \in Nat
    BY <2>2, ConstantFacts DEF Round, Cells
  <2>4. \A d \in Cells : /\ d \in f..f + n - 1 => pos[d] < 0 /\ pos'[d] = at + (d - f)
                         /\ d \notin f..f + n - 1 => pos'[d] = pos[d]
    BY <2>2 DEF Round
  <2>5. ASSUME NEW p \in 0..(at + n) - 1 PROVE \E d \in Cells : pos'[d] = p
    <3>1. p \in Nat /\ p < at + n
      BY <1>0
    <3>2. CASE p < at
      <4>1. p \in 0..at - 1
        BY <1>0, <3>1, <3>2
      <4>2. PICK d \in Cells : pos[d] = p
        BY <1>2, <2>1, <4>1
      <4>3. d \notin f..f + n - 1
        BY <2>4, <3>1, <4>2
      <4> QED
        BY <2>4, <4>2, <4>3
    <3>3. CASE p >= at
      <4> DEFINE d == f + (p - at)
      <4>1. d \in f..f + n - 1 /\ d \in Cells /\ at + (d - f) = p
        BY <1>0, <2>3, <3>1, <3>3, ConstantFacts DEF Cells
      <4> HIDE DEF d
      <4> QED
        BY <2>4, <4>1
    <3> QED
      BY <1>0, <3>1, <3>2, <3>3
  <2>6. ASSUME NEW c \in Cells PROVE pos'[c] < at + n
    <3>1. pos[c] \in {-1} \cup Nat /\ c \in Nat /\ f \in Nat /\ pos[c] < at
      BY <1>0, <1>2, <2>1, ConstantFacts DEF TypeOK, Cells
    <3> QED
      BY <1>0, <2>3, <2>4, <3>1
  <2>7. ASSUME NEW c \in Cells, pos'[c] >= 0, NEW p \in 0..pos'[c]
        PROVE  \E d \in Cells : pos'[d] = p
    <3>1. pos'[c] \in {-1} \cup Nat
      BY <1>0, TypePartsNext DEF Typed, CacheType
    <3>2. p \in 0..(at + n) - 1
      BY <1>0, <2>6, <3>1
    <3> QED
      BY <2>5, <3>2
  <2>8. batch' # << >> => at' = at + n
    BY <2>2 DEF Round
  <2> QED
    BY <2>5, <2>7, <2>8
<1>5. CASE DecodeNoSlot
  <2>1. pos' = pos
    BY <1>0, <1>5, NoSlotFacts
  <2>2. batch' = << >>
    BY <1>0, <1>5, FailedFacts, TypeParts DEF DecodeNoSlot
  <2> QED
    BY <1>1, <2>1, <2>2
<1>6. CASE DecodeComputeFails
  BY <1>6 DEF DecodeComputeFails
<1> QED
  BY <1>3, <1>4, <1>5, <1>6 DEF Next, PredictStep

------------------------------------------------------------------------------

\* The inductive invariant holds at the start.
LEMMA InitFacts ==
  ASSUME Init, Shiftable
  PROVE  IInv
<1>1. Typed
  BY TypeInit
<1>2. /\ \A c \in Cells : pos[c] = -1
      /\ head = 0 /\ nPast = 0 /\ batch = << >> /\ count = 0 /\ system = << >> /\ image = << >>
  BY DEF Init
<1>3. Len(<< >>) = 0
  BY EmptySeq
<1>4. Working
  BY <1>2, <1>3, ConstantFacts DEF Working
<1>5. Used(pos) = {} /\ Decoded = 0
  <2>1. Used(pos) = {}
    BY <1>2 DEF Used
  <2>2. 0 - 0 = 0
    OBVIOUS
  <2> QED
    BY <1>2, <1>3, <2>1, <2>2 DEF Decoded
<1>6. Covered
  <2>1. Below(0)
    BY <1>2 DEF Below
  <2>2. 0..0 - 1 = {} /\ 0 + 0 = 0
    OBVIOUS
  <2> QED
    BY <1>2, <1>5, <2>1, <2>2 DEF Covered
<1>7. PositionsDistinct /\ PositionsContiguous /\ AheadOfCache /\ Continues
  BY <1>2, <1>5 DEF PositionsDistinct, PositionsContiguous, AheadOfCache, Continues
<1> QED
  BY <1>1, <1>4, <1>6, <1>7 DEF IInv

\* Every step keeps the inductive invariant.
LEMMA InvStep ==
  ASSUME IInv, Shiftable, [Next]_vars
  PROVE  IInv'
<1>1. CASE UNCHANGED vars
  <2>1. IInv = IInv'
    BY <1>1 DEF IInv, Typed, TypeOK, Working, PositionsDistinct, AheadOfCache, Covered,
                PositionsContiguous, Continues, Below, Decoded, Used, Cells, vars, cacheVars,
                predictVars, decodeVars
  <2> QED
    BY <2>1
<1>2. CASE Next
  BY <1>2, TypeStep, WorkingStep, CoveredStep, DistinctStep, ContiguousStep DEF IInv
<1> QED
  BY <1>1, <1>2

\* The invariant covers what NPastCovers says in terms of the largest position.
LEMMA CoversLargest ==
  ASSUME Typed, Working, Covered
  PROVE  NPastCovers
<1> SUFFICES ASSUME setup = {} PROVE max_pos(pos) + 1 <= nPast + Decoded
  BY DEF NPastCovers
<1>1. /\ pos \in [Cells -> {-1} \cup Nat] /\ nPast \in Nat /\ count \in Nat
      /\ batch \in Seq(Tokens)
  BY DEF Typed, TypeOK
<1>2. PICK b \in Nat : \A c \in Cells : pos[c] < b
  BY DEF Typed, Below
<1>3. \A c \in Cells : pos[c] < nPast + Decoded
  BY DEF Covered, Below
<1>4. nPast + Decoded \in Nat
  BY <1>1 DEF Working, Decoded
<1> DEFINE m == max_pos(pos)
<1>5. m \in {-1} \cup Nat /\ (m # -1 => \E c \in Cells : pos[c] = m)
  BY <1>1, <1>2, MaxFacts
<1> HIDE DEF m
<1>6. m = -1 \/ m < nPast + Decoded
  BY <1>3, <1>5
<1>7. m + 1 <= nPast + Decoded
  BY <1>4, <1>5, <1>6
<1> QED
  BY <1>7 DEF m

\* The Swift code counts the tokens, llama.cpp numbers them for itself, and KVShift edits the
\* one by the other; yet in any window that can be shifted nPast never falls behind the cache,
\* no two tokens share a position (with images, or with failing evaluations), and text is
\* numbered without a gap, after any number of questions, shifts and refused batches.
THEOREM CountersAgreeCorrect == ASSUME Shiftable PROVE Spec => []CountersAgree
<1>1. Init => IInv
  BY InitFacts
<1>2. IInv /\ [Next]_vars => IInv'
  BY InvStep
<1>3. IInv => CountersAgree
  BY CoversLargest DEF IInv, CountersAgree, Typed
<1> QED
  BY <1>1, <1>2, <1>3, PTL DEF Spec

------------------------------------------------------------------------------
(* The memory *)

\* How many members of U come before c.
Rank(U, p, c) == Cardinality({d \in U : p[d] < p[c]})

Injective(U, p) == \A c, d \in U : p[c] = p[d] => c = d

\* Positions that differ number the members of a finite set from 0 on.
LEMMA RankFacts ==
  ASSUME NEW U, IsFiniteSet(U), NEW p, \A c \in U : p[c] \in Nat, Injective(U, p)
  PROVE  /\ Cardinality(U) \in Nat
         /\ \A c \in U : Rank(U, p, c) \in 0..Cardinality(U) - 1
         /\ \A c, d \in U : p[c] < p[d] => Rank(U, p, c) < Rank(U, p, d)
         /\ \A c, d \in U : Rank(U, p, c) = Rank(U, p, d) => c = d
         /\ \A i \in 0..Cardinality(U) - 1 : \E c \in U : Rank(U, p, c) = i
<1> DEFINE Ahead(c) == {d \in U : p[d] < p[c]}
<1>1. Cardinality(U) \in Nat
  BY FS_CardinalityType
<1>2. \A c \in U : IsFiniteSet(Ahead(c)) /\ Cardinality(Ahead(c)) \in Nat
  <2> SUFFICES ASSUME NEW c \in U PROVE IsFiniteSet(Ahead(c)) /\ Cardinality(Ahead(c)) \in Nat
    OBVIOUS
  <2>1. Ahead(c) \in SUBSET U
    OBVIOUS
  <2> HIDE DEF Ahead
  <2>2. IsFiniteSet(Ahead(c))
    BY <2>1, FS_Subset
  <2> QED
    BY <2>2, FS_CardinalityType
<1>3. \A c, d \in U : p[c] < p[d] => Cardinality(Ahead(c)) < Cardinality(Ahead(d))
  <2> SUFFICES ASSUME NEW c \in U, NEW d \in U, p[c] < p[d]
               PROVE  Cardinality(Ahead(c)) < Cardinality(Ahead(d))
    OBVIOUS
  <2>1. Ahead(c) \in SUBSET Ahead(d) /\ c \in Ahead(d) /\ c \notin Ahead(c)
    OBVIOUS
  <2> HIDE DEF Ahead
  <2>2. /\ Cardinality(Ahead(c)) <= Cardinality(Ahead(d))
        /\ Cardinality(Ahead(d)) = Cardinality(Ahead(c)) => Ahead(d) = Ahead(c)
    BY <1>2, <2>1, FS_Subset
  <2> QED
    BY <1>2, <2>1, <2>2
<1>4. \A c \in U : Cardinality(Ahead(c)) \in 0..Cardinality(U) - 1
  <2> SUFFICES ASSUME NEW c \in U PROVE Cardinality(Ahead(c)) \in 0..Cardinality(U) - 1
    OBVIOUS
  <2>1. Ahead(c) \in SUBSET U /\ c \notin Ahead(c)
    OBVIOUS
  <2> HIDE DEF Ahead
  <2>2. /\ Cardinality(Ahead(c)) <= Cardinality(U)
        /\ Cardinality(U) = Cardinality(Ahead(c)) => U = Ahead(c)
    BY <2>1, FS_Subset
  <2> QED
    BY <1>1, <1>2, <2>1, <2>2
<1>5. \A c, d \in U : Cardinality(Ahead(c)) = Cardinality(Ahead(d)) => c = d
  <2> SUFFICES ASSUME NEW c \in U, NEW d \in U, Cardinality(Ahead(c)) = Cardinality(Ahead(d))
               PROVE  c = d
    OBVIOUS
  <2> HIDE DEF Ahead
  <2>1. ~ (p[c] < p[d]) /\ ~ (p[d] < p[c])
    BY <1>2, <1>3
  <2> QED
    BY <2>1 DEF Injective
<1> DEFINE rank == [c \in U |-> Cardinality(Ahead(c))]
           n == Cardinality(U)
<1>6. rank \in Injection(U, 0..n - 1)
  <2> HIDE DEF Ahead, n
  <2> QED
    BY <1>4, <1>5 DEF Injection, IsInjective, n
<1>7. IsFiniteSet(0..n - 1) /\ Cardinality(0..n - 1) = n
  <2>1. n \in Nat /\ 0 \in Int /\ n - 1 \in Int
    BY <1>1
  <2> HIDE DEF n
  <2> QED
    BY <2>1, FS_Interval
<1>8. rank \in Surjection(U, 0..n - 1)
  <2> HIDE DEF rank
  <2> QED
    BY <1>6, <1>7, FS_Injection
<1>9. \A i \in 0..n - 1 : \E c \in U : rank[c] = i
  <2> HIDE DEF rank, n
  <2> QED
    BY <1>8 DEF Surjection
<1> HIDE DEF Ahead
<1>10. \A c \in U : Rank(U, p, c) = Cardinality(Ahead(c))
  BY DEF Rank, Ahead
<1> QED
  BY <1>1, <1>3, <1>4, <1>5, <1>9, <1>10

\* The contents t of the cells in the order of the positions p.
Recall(p, t) ==
    [i \in 1..Cardinality(Used(p)) |-> t[CHOOSE c \in Used(p) : Rank(Used(p), p, c) = i - 1]]

MemoryType(p, t) ==
    /\ p \in [Cells -> {-1} \cup Nat] /\ \A c \in Used(p) : t[c] \in Tokens
    /\ Injective(Used(p), p)

\* A cell's place in the memory is its rank.
LEMMA RecallFacts ==
  ASSUME NEW p, NEW t, MemoryType(p, t)
  PROVE  /\ IsFiniteSet(Used(p)) /\ Cardinality(Used(p)) \in Nat
         /\ Recall(p, t) \in Seq(Tokens) /\ Len(Recall(p, t)) = Cardinality(Used(p))
         /\ \A c \in Used(p) : /\ Rank(Used(p), p, c) \in 0..Cardinality(Used(p)) - 1
                               /\ Recall(p, t)[Rank(Used(p), p, c) + 1] = t[c]
         /\ \A i \in 1..Cardinality(Used(p)) : \E c \in Used(p) : Rank(Used(p), p, c) = i - 1
<1> DEFINE U == Used(p)
           n == Cardinality(U)
           At(i) == CHOOSE c \in U : Rank(U, p, c) = i - 1
<1>1. IsFiniteSet(U)
  <2>1. IsFiniteSet(Cells)
    BY ConstantFacts, FS_Interval DEF Cells
  <2>2. U \in SUBSET Cells
    BY DEF Used
  <2> QED
    BY <2>1, <2>2, FS_Subset
<1>2. \A c \in U : p[c] \in Nat
  BY DEF Used, MemoryType
<1>3. /\ n \in Nat
      /\ \A c \in U : Rank(U, p, c) \in 0..n - 1
      /\ \A c, d \in U : Rank(U, p, c) = Rank(U, p, d) => c = d
      /\ \A i \in 0..n - 1 : \E c \in U : Rank(U, p, c) = i
  <2> HIDE DEF U
  <2> QED
    BY <1>1, <1>2, RankFacts DEF MemoryType, U
<1>4. \A i \in 1..n : \E c \in U : Rank(U, p, c) = i - 1
  BY <1>3
<1>5. \A i \in 1..n : At(i) \in U /\ Rank(U, p, At(i)) = i - 1
  <2> HIDE DEF U, n
  <2> QED
    BY <1>4
<1>6. Recall(p, t) = [i \in 1..n |-> t[At(i)]]
  BY DEF Recall
<1> HIDE DEF U, n, At
<1>7. \A c \in U : t[c] \in Tokens
  BY DEF MemoryType, U
<1>8. Recall(p, t) \in Seq(Tokens) /\ Len(Recall(p, t)) = n
  BY <1>3, <1>5, <1>6, <1>7
<1>9. ASSUME NEW c \in U PROVE Recall(p, t)[Rank(U, p, c) + 1] = t[c]
  <2> DEFINE i == Rank(U, p, c) + 1
  <2>1. i \in 1..n /\ i - 1 = Rank(U, p, c)
    BY <1>3
  <2>2. At(i) = c
    BY <1>3, <1>5, <2>1
  <2> HIDE DEF i
  <2>3. Recall(p, t)[i] = t[c]
    BY <1>6, <2>1, <2>2
  <2> QED
    BY <2>3 DEF i
<1> QED
  BY <1>1, <1>3, <1>4, <1>8, <1>9 DEF U, n

\* Tokens behind all others are learned at the end.
LEMMA LearnedFacts ==
  ASSUME NEW p, NEW t, MemoryType(p, t), NEW q, NEW u, MemoryType(q, u),
         NEW New, New # {}, Used(q) = Used(p) \cup New, Used(p) \cap New = {},
         \A c \in Used(p) : q[c] = p[c] /\ u[c] = t[c],
         \A c \in Used(p), d \in New : p[c] < q[d]
  PROVE  /\ Len(Recall(q, u)) \in Len(Recall(p, t)) + 1..Size
         /\ SubSeq(Recall(q, u), 1, Len(Recall(p, t))) = Recall(p, t)
<1> DEFINE m == Recall(p, t)
           new == Recall(q, u)
           n == Cardinality(Used(p))
           k == Cardinality(Used(q))
<1>1. /\ IsFiniteSet(Used(p)) /\ n \in Nat /\ m \in Seq(Tokens) /\ Len(m) = n
      /\ \A c \in Used(p) : Rank(Used(p), p, c) \in 0..n - 1 /\ m[Rank(Used(p), p, c) + 1] = t[c]
      /\ \A i \in 1..n : \E c \in Used(p) : Rank(Used(p), p, c) = i - 1
  BY RecallFacts
<1>2. /\ IsFiniteSet(Used(q)) /\ k \in Nat /\ new \in Seq(Tokens) /\ Len(new) = k
      /\ \A c \in Used(q) : Rank(Used(q), q, c) \in 0..k - 1 /\ new[Rank(Used(q), q, c) + 1] = u[c]
  BY ONLY MemoryType(q, u), RecallFacts
<1>3. n < k
  <2>1. Used(p) \in SUBSET Used(q) /\ Used(q) # Used(p)
    OBVIOUS
  <2>2. n <= k /\ (k = n => Used(q) = Used(p))
    BY <1>2, <2>1, FS_Subset
  <2> HIDE DEF n, k
  <2> QED
    BY <1>1, <1>2, <2>1, <2>2
<1>4. k <= Size
  <2>1. IsFiniteSet(Cells) /\ Cardinality(Cells) = Size
    <3>1. 0 \in Int /\ Size - 1 \in Int /\ ~ (0 > Size - 1) /\ (Size - 1) - 0 + 1 = Size
      BY ConstantFacts
    <3> QED
      BY <3>1, FS_Interval DEF Cells
  <2>2. Used(q) \in SUBSET Cells
    BY DEF Used
  <2> QED
    BY <2>1, <2>2, FS_Subset
<1>5. \A c \in Used(p) : Rank(Used(q), q, c) = Rank(Used(p), p, c)
  <2> SUFFICES ASSUME NEW c \in Used(p) PROVE Rank(Used(q), q, c) = Rank(Used(p), p, c)
    OBVIOUS
  <2>1. \A d \in Used(q) : q[d] \in Nat
    BY DEF Used, MemoryType
  <2>2. p[c] = q[c] /\ c \in Used(q)
    OBVIOUS
  <2>3. \A d \in New : ~ (q[d] < q[c])
    BY <2>1, <2>2
  <2>4. {d \in Used(q) : q[d] < q[c]} = {d \in Used(p) : p[d] < p[c]}
    BY <2>2, <2>3
  <2> QED
    BY <2>4 DEF Rank
<1>6. ASSUME NEW i \in 1..n PROVE new[i] = m[i]
  <2>1. PICK c \in Used(p) : Rank(Used(p), p, c) = i - 1
    BY <1>1
  <2> DEFINE r == Rank(Used(p), p, c)
  <2>2. r + 1 = i
    BY <2>1
  <2>3. m[r + 1] = t[c] /\ new[r + 1] = u[c] /\ u[c] = t[c]
    BY <1>1, <1>2, <1>5
  <2> QED
    BY <2>2, <2>3
<1> HIDE DEF m, new, n, k
<1>7. SubSeq(new, 1, n) \in Seq(Tokens) /\ Len(SubSeq(new, 1, n)) = n
      /\ \A i \in 1..n : SubSeq(new, 1, n)[i] = new[i]
  <2>1. n \in 0..Len(new) /\ \A i \in 1..n : new[i] \in Tokens
    BY <1>1, <1>2, <1>3
  <2> QED
    BY <1>1, <1>2, <2>1
<1>8. SubSeq(new, 1, n) = m
  BY <1>1, <1>6, <1>7, SeqEqual
<1>9. Len(new) \in Len(m) + 1..Size /\ SubSeq(new, 1, Len(m)) = m
  BY <1>1, <1>2, <1>3, <1>4, <1>8, ConstantFacts
<1> QED
  BY <1>9 DEF m, new

\* The cells that hold the first numbers are as many.
LEMMA FirstFacts ==
  ASSUME NEW p, NEW t, MemoryType(p, t), NEW K \in Nat,
         \A i \in 0..K - 1 : \E c \in Cells : p[c] = i
  PROVE  Cardinality({c \in Used(p) : p[c] < K}) = K
<1> DEFINE F == {c \in Used(p) : p[c] < K}
           f == [c \in F |-> p[c]]
<1>1. \A c \in F : p[c] \in 0..K - 1
  BY DEF Used, MemoryType
<1>2. \A i \in 0..K - 1 : \E c \in F : p[c] = i
  <2> SUFFICES ASSUME NEW i \in 0..K - 1 PROVE \E c \in F : p[c] = i
    OBVIOUS
  <2>1. PICK c \in Cells : p[c] = i
    OBVIOUS
  <2>2. c \in F
    BY <2>1 DEF Used
  <2> QED
    BY <2>1, <2>2
<1>3. \A c, d \in F : f[c] = f[d] => c = d
  BY DEF Injective, MemoryType
<1>4. f \in Bijection(F, 0..K - 1)
  <2> HIDE DEF F
  <2> QED
    BY <1>1, <1>2, <1>3 DEF Bijection, Injection, Surjection, IsInjective
<1>5. IsFiniteSet(F)
  <2>1. F \in SUBSET Used(p)
    OBVIOUS
  <2> QED
    BY <2>1, RecallFacts, FS_Subset
<1>6. Cardinality(0..K - 1) = Cardinality(F)
  <2> HIDE DEF f, F
  <2>1. ExistsBijection(F, 0..K - 1)
    BY <1>4 DEF ExistsBijection
  <2> QED
    BY <1>5, <2>1, FS_Bijection
<1>7. Cardinality(0..K - 1) = K
  <2>1. 0 \in Int /\ K - 1 \in Int /\ (0 > K - 1 <=> K = 0) /\ (K - 1) - 0 + 1 = K
    OBVIOUS
  <2> QED
    BY <2>1, FS_Interval
<1> QED
  BY <1>6, <1>7

\* What a shift by n does to the memory: q and u are p and t without the positions from Keep
\* to Keep + n - 1, the later ones moved down by n.
ShiftedBy(n, p, t, q, u) ==
    /\ Used(q) = {c \in Used(p) : p[c] < Keep \/ p[c] >= Keep + n}
    /\ \A c \in Used(q) : u[c] = t[c] /\ q[c] = IF p[c] < Keep THEN p[c] ELSE p[c] - n

GoneFrom(n, p) == {c \in Used(p) : p[c] >= Keep /\ p[c] < Keep + n}

\* A token's rank stays the same before the block that goes and falls by its size behind.
LEMMA ShiftedRank ==
  ASSUME NEW p, NEW t, MemoryType(p, t), NEW q, NEW u, MemoryType(q, u),
         NEW n \in Nat, ShiftedBy(n, p, t, q, u), NEW c \in Used(q)
  PROVE  /\ c \in Used(p) /\ (p[c] < Keep \/ p[c] >= Keep + n)
         /\ p[c] < Keep => Rank(Used(q), q, c) = Rank(Used(p), p, c)
         /\ p[c] >= Keep + n =>
               Rank(Used(q), q, c) = Rank(Used(p), p, c) - Cardinality(GoneFrom(n, p))
<1> DEFINE P == {d \in Used(p) : p[d] < p[c]}
           Q == {d \in Used(q) : q[d] < q[c]}
           G == GoneFrom(n, p)
<1>1. /\ c \in Used(p) /\ (p[c] < Keep \/ p[c] >= Keep + n)
      /\ \A d \in Used(p) : p[d] \in Nat
      /\ \A d \in Used(q) : /\ d \in Used(p) /\ (p[d] < Keep \/ p[d] >= Keep + n)
                            /\ q[d] = IF p[d] < Keep THEN p[d] ELSE p[d] - n
      /\ \A d \in Used(p) : p[d] < Keep \/ p[d] >= Keep + n => d \in Used(q)
  BY DEF ShiftedBy, MemoryType, Used
<1>k. Keep \in Nat
  BY ConstantFacts
<1>2. ASSUME p[c] < Keep PROVE Q = P
  <2>1. ASSUME NEW d \in Q PROVE d \in P
    BY <1>1, <1>2, <1>k, <2>1
  <2>2. ASSUME NEW d \in P PROVE d \in Q
    BY <1>1, <1>2, <1>k, <2>2
  <2> QED
    BY <2>1, <2>2
<1>3. ASSUME p[c] >= Keep + n PROVE Q = P \ G /\ G \in SUBSET P
  <2>1. ASSUME NEW d \in Q PROVE d \in P /\ d \notin G
    BY <1>1, <1>3, <1>k, <2>1 DEF GoneFrom
  <2>2. ASSUME NEW d \in P, d \notin G PROVE d \in Q
    BY <1>1, <1>3, <1>k, <2>2 DEF GoneFrom
  <2>3. ASSUME NEW d \in G PROVE d \in P
    BY <1>1, <1>3, <1>k, <2>3 DEF GoneFrom
  <2> QED
    BY <2>1, <2>2, <2>3
<1>4. IsFiniteSet(P)
  <2>1. P \in SUBSET Used(p) /\ IsFiniteSet(Used(p))
    BY RecallFacts
  <2> QED
    BY <2>1, FS_Subset
<1>5. Rank(Used(p), p, c) = Cardinality(P) /\ Rank(Used(q), q, c) = Cardinality(Q)
  BY DEF Rank
<1> HIDE DEF P, Q
<1>6. ASSUME p[c] >= Keep + n PROVE Cardinality(Q) = Cardinality(P) - Cardinality(G)
  <2>1. P \cap G = G /\ Q = P \ G
    BY <1>3, <1>6
  <2>2. Cardinality(P \ G) = Cardinality(P) - Cardinality(P \cap G)
    BY <1>4, FS_Difference
  <2> QED
    BY <2>1, <2>2
<1> QED
  BY <1>1, <1>2, <1>5, <1>6

\* If what goes stands behind Keep tokens, the memory forgets one block there.
LEMMA ForgottenFacts ==
  ASSUME NEW p, NEW t, MemoryType(p, t), NEW q, NEW u, MemoryType(q, u),
         NEW n \in Nat, ShiftedBy(n, p, t, q, u),
         GoneFrom(n, p) # {} => \A i \in 0..Keep - 1 : \E c \in Cells : p[c] = i
  PROVE  \/ Recall(q, u) = Recall(p, t)
         \/ \E k \in 1..Len(Recall(p, t)) - Keep :
               Recall(q, u) = Window!Without(Recall(p, t), Keep, k)
<1> DEFINE m == Recall(p, t)
           new == Recall(q, u)
           G == GoneFrom(n, p)
           g == Cardinality(G)
           size == Cardinality(Used(p))
           F == {c \in Used(p) : p[c] < Keep}
<1>1. /\ IsFiniteSet(Used(p)) /\ size \in Nat /\ m \in Seq(Tokens) /\ Len(m) = size
      /\ \A c \in Used(p) : Rank(Used(p), p, c) \in 0..size - 1 /\ m[Rank(Used(p), p, c) + 1] = t[c]
  BY ONLY MemoryType(p, t), RecallFacts
<1>2. /\ Cardinality(Used(q)) \in Nat /\ new \in Seq(Tokens) /\ Len(new) = Cardinality(Used(q))
      /\ \A c \in Used(q) : new[Rank(Used(q), q, c) + 1] = u[c]
      /\ \A i \in 1..Cardinality(Used(q)) : \E c \in Used(q) : Rank(Used(q), q, c) = i - 1
  BY ONLY MemoryType(q, u), RecallFacts
<1>3. G \in SUBSET Used(p) /\ Used(q) = Used(p) \ G
  <2>1. \A c \in Used(p) : p[c] \in Nat
    BY DEF MemoryType, Used
  <2> QED
    BY <2>1, ConstantFacts DEF GoneFrom, ShiftedBy
<1>4. IsFiniteSet(G) /\ g \in Nat
  <2>1. IsFiniteSet(G)
    BY <1>1, <1>3, FS_Subset
  <2> QED
    BY <2>1, FS_CardinalityType
<1>5. Cardinality(Used(q)) = size - g
  <2>1. Used(p) \cap G = G
    BY <1>3
  <2>2. Cardinality(Used(p) \ G) = Cardinality(Used(p)) - Cardinality(Used(p) \cap G)
    BY <1>1, FS_Difference
  <2> QED
    BY <1>3, <2>1, <2>2
<1>6. \A c \in Used(q) :
         /\ c \in Used(p) /\ (p[c] < Keep \/ p[c] >= Keep + n) /\ u[c] = t[c]
         /\ p[c] < Keep => Rank(Used(q), q, c) = Rank(Used(p), p, c)
         /\ p[c] >= Keep + n => Rank(Used(q), q, c) = Rank(Used(p), p, c) - g
  <2> SUFFICES ASSUME NEW c \in Used(q)
               PROVE  /\ c \in Used(p) /\ (p[c] < Keep \/ p[c] >= Keep + n) /\ u[c] = t[c]
                      /\ p[c] < Keep => Rank(Used(q), q, c) = Rank(Used(p), p, c)
                      /\ p[c] >= Keep + n => Rank(Used(q), q, c) = Rank(Used(p), p, c) - g
    OBVIOUS
  <2>1. u[c] = t[c]
    BY DEF ShiftedBy
  <2> QED
    BY <2>1, ShiftedRank
<1> HIDE DEF m, new, G, g, size
<1>7. CASE G = {}
  <2>1. g = 0
    BY <1>7, FS_EmptySet DEF g
  <2>2. ASSUME NEW i \in 1..size PROVE new[i] = m[i]
    <3>0. Cardinality(Used(q)) = size
      BY <1>1, <1>5, <2>1
    <3>1. PICK c \in Used(q) : Rank(Used(q), q, c) = i - 1
      BY <1>2, <3>0
    <3> DEFINE r == Rank(Used(p), p, c)
    <3>2. r \in 0..size - 1 /\ c \in Used(p)
      BY <1>1, <1>6
    <3>3. r = i - 1
      BY <1>6, <2>1, <3>1, <3>2
    <3>4. m[r + 1] = t[c] /\ new[i - 1 + 1] = u[c] /\ u[c] = t[c]
      BY <1>1, <1>2, <1>6, <3>1, <3>2
    <3>5. r + 1 = i /\ i - 1 + 1 = i
      BY <3>3
    <3> QED
      BY <3>4, <3>5
  <2>3. Len(new) = size
    BY <1>1, <1>2, <1>5, <2>1
  <2>4. new = m
    BY <1>1, <1>2, <2>2, <2>3, SeqEqual
  <2> QED
    BY <2>4 DEF m, new
<1>8. CASE G # {}
  <2>1. Cardinality(F) = Keep
    BY <1>8, FirstFacts, ConstantFacts DEF G
  <2>2. IsFiniteSet(F) /\ F \in SUBSET Used(p)
    <3>1. F \in SUBSET Used(p)
      OBVIOUS
    <3> QED
      BY <1>1, <3>1, FS_Subset
  <2>3. \A c \in F : ~ (c \in G)
    BY ConstantFacts DEF G, GoneFrom, MemoryType, Used
  <2>4. IsFiniteSet(F \cup G) /\ Cardinality(F \cup G) = Keep + g
    <3>1. F \cap G = {}
      BY <2>3
    <3>2. /\ IsFiniteSet(F \cup G)
          /\ Cardinality(F \cup G) = Cardinality(F) + Cardinality(G) - Cardinality(F \cap G)
      BY <1>4, <2>2, FS_Union
    <3>3. Cardinality(F \cap G) = 0
      BY <3>1, FS_EmptySet
    <3> QED
      BY <1>4, <2>1, <3>2, <3>3, ConstantFacts DEF g
  <2>5. Keep + g <= size
    <3>1. F \cup G \in SUBSET Used(p)
      BY <1>3
    <3> QED
      BY <1>1, <2>4, <3>1, FS_Subset DEF size
  <2>6. g > 0
    <3>1. g # 0
      BY <1>4, <1>8, FS_EmptySet DEF g
    <3> QED
      BY <1>4, <3>1
  <2>7. ASSUME NEW c \in Used(p) PROVE p[c] < Keep => Rank(Used(p), p, c) < Keep
    <3> SUFFICES ASSUME p[c] < Keep PROVE Rank(Used(p), p, c) < Keep
      OBVIOUS
    <3> DEFINE A == {d \in Used(p) : p[d] < p[c]}
    <3>1. \A d \in Used(p) : p[d] \in Nat
      BY DEF MemoryType, Used
    <3>2. A \in SUBSET F /\ c \in F /\ c \notin A
      BY <3>1, ConstantFacts
    <3>3. Rank(Used(p), p, c) = Cardinality(A)
      BY DEF Rank
    <3> HIDE DEF A, F
    <3>4. /\ IsFiniteSet(A) /\ Cardinality(A) <= Cardinality(F)
          /\ Cardinality(F) = Cardinality(A) => F = A
      BY <2>2, <3>2, FS_Subset
    <3>5. Cardinality(A) \in Nat
      BY <3>4, FS_CardinalityType
    <3> QED
      BY <2>1, <3>2, <3>3, <3>4, <3>5, ConstantFacts
  <2>8. ASSUME NEW c \in Used(p) PROVE p[c] >= Keep + n => Rank(Used(p), p, c) >= Keep + g
    <3> SUFFICES ASSUME p[c] >= Keep + n PROVE Rank(Used(p), p, c) >= Keep + g
      OBVIOUS
    <3> DEFINE A == {d \in Used(p) : p[d] < p[c]}
    <3>1. \A d \in Used(p) : p[d] \in Nat
      BY DEF MemoryType, Used
    <3>2. F \cup G \in SUBSET A /\ A \in SUBSET Used(p)
      BY <3>1, ConstantFacts DEF G, GoneFrom
    <3>3. Rank(Used(p), p, c) = Cardinality(A)
      BY DEF Rank
    <3> HIDE DEF A, F
    <3>4. IsFiniteSet(A)
      BY <1>1, <3>2, FS_Subset
    <3>5. Cardinality(F \cup G) <= Cardinality(A) /\ Cardinality(A) \in Nat
      BY <3>2, <3>4, FS_Subset, FS_CardinalityType
    <3> QED
      BY <1>4, <2>4, <3>3, <3>5, ConstantFacts
  <2> DEFINE w == Window!Without(m, Keep, g)
             a == SubSeq(m, 1, Keep)
             b == SubSeq(m, Keep + g + 1, size)
  <2>9. a \in Seq(Tokens) /\ Len(a) = Keep /\ \A i \in 1..Keep : a[i] = m[i]
    <3>1. Keep \in 0..Len(m) /\ \A i \in 1..Keep : m[i] \in Tokens
      BY <1>1, <1>4, <2>5, ConstantFacts
    <3> QED
      BY <1>1, <3>1, ConstantFacts
  <2>10. /\ b \in Seq(Tokens) /\ Len(b) = size - Keep - g
         /\ \A i \in 1..size - Keep - g : b[i] = m[Keep + g + i]
    <3>1. Keep + g + 1 \in Int /\ size \in Int /\ \A i \in Keep + g + 1..size : m[i] \in Tokens
      BY <1>1, <1>4, <2>5, ConstantFacts
    <3>2. /\ b \in Seq(Tokens)
          /\ Len(b) = IF Keep + g + 1 <= size THEN size - (Keep + g + 1) + 1 ELSE 0
          /\ \A i \in 1..size - (Keep + g + 1) + 1 : b[i] = m[(Keep + g + 1) + i - 1]
      BY ONLY <3>1, SubSeqProperties
    <3>3. /\ size - (Keep + g + 1) + 1 = size - Keep - g
          /\ \A i \in 1..size - Keep - g : (Keep + g + 1) + i - 1 = Keep + g + i
      BY <1>1, <1>4, ConstantFacts
    <3>4. Len(b) = size - Keep - g
      BY <1>1, <1>4, <2>5, <3>2, ConstantFacts
    <3> QED
      BY <3>2, <3>3, <3>4
  <2>11. w = a \o b
    BY <1>1 DEF Window!Without
  <2> HIDE DEF a, b, w
  <2>12. /\ w \in Seq(Tokens) /\ Len(w) = size - g
         /\ \A i \in 1..size - g : w[i] = IF i <= Keep THEN m[i] ELSE m[i + g]
    <3>0. a \in Seq(Tokens) /\ b \in Seq(Tokens) /\ w = a \o b
      BY <2>9, <2>10, <2>11
    <3>1. /\ w \in Seq(Tokens) /\ Len(w) = Len(a) + Len(b)
          /\ \A i \in 1..Len(a) + Len(b) : w[i] = IF i <= Len(a) THEN a[i] ELSE b[i - Len(a)]
      BY ONLY <3>0, ConcatProperties
    <3>2. Len(a) + Len(b) = size - g
      BY <1>1, <1>4, <2>9, <2>10, ConstantFacts
    <3>3. ASSUME NEW i \in 1..size - g PROVE w[i] = IF i <= Keep THEN m[i] ELSE m[i + g]
      <4>1. w[i] = IF i <= Keep THEN a[i] ELSE b[i - Keep]
        BY <2>9, <3>1, <3>2
      <4>2. CASE i <= Keep
        BY <2>9, <4>1, <4>2, ConstantFacts
      <4>3. CASE ~ (i <= Keep)
        <5>1. i - Keep \in 1..size - Keep - g /\ Keep + g + (i - Keep) = i + g
          BY <1>1, <1>4, <4>3, ConstantFacts
        <5>2. b[i - Keep] = m[Keep + g + (i - Keep)]
          BY <2>10, <5>1
        <5> QED
          BY <4>1, <4>3, <5>1, <5>2
      <4> QED
        BY <4>2, <4>3
    <3> QED
      BY <3>1, <3>2, <3>3
  <2>13. ASSUME NEW i \in 1..size - g PROVE new[i] = w[i]
    <3>1. PICK c \in Used(q) : Rank(Used(q), q, c) = i - 1
      BY <1>2, <1>5
    <3> DEFINE r == Rank(Used(p), p, c)
    <3>2. r \in 0..size - 1 /\ c \in Used(p) /\ (p[c] < Keep \/ p[c] >= Keep + n)
      BY <1>1, <1>6
    <3>3. new[i - 1 + 1] = u[c] /\ u[c] = t[c] /\ i - 1 + 1 = i /\ m[r + 1] = t[c]
      BY <1>1, <1>2, <1>6, <3>1, <3>2
    <3>4. new[i] = m[r + 1]
      BY <3>3
    <3>5. CASE p[c] < Keep
      <4>1. r = i - 1 /\ r < Keep
        BY <1>6, <2>7, <3>1, <3>2, <3>5
      <4>2. r + 1 = i /\ i <= Keep
        BY <3>2, <4>1, ConstantFacts
      <4> QED
        BY <2>12, <3>4, <4>2
    <3>6. CASE p[c] >= Keep + n
      <4>1. i - 1 = r - g /\ r >= Keep + g
        BY <1>6, <2>8, <3>1, <3>2, <3>6
      <4>2. r + 1 = i + g /\ ~ (i <= Keep)
        BY <1>4, <3>2, <4>1, ConstantFacts
      <4> QED
        BY <2>12, <3>4, <4>2
    <3> QED
      BY <3>2, <3>5, <3>6
  <2>14. new = w
    BY <1>2, <1>5, <2>12, <2>13, SeqEqual
  <2>15. g \in 1..Len(m) - Keep
    BY <1>1, <1>4, <2>5, <2>6, ConstantFacts
  <2> QED
    BY <2>14, <2>15 DEF w, m, new
<1> QED
  BY <1>7, <1>8

\* What nPast counts of the first Keep positions is in the cache, up to the batch in
\* progress; a batch that begins among them continues what nPast counts.  (An empty window
\* that is too small for a shift to forget anything counts one token too many; it has Keep = 1.)
KeptHeld ==
    "faults" \notin setup =>
        /\ \A i \in 0..Keep - 1 :
              i < (IF batch = << >> THEN nPast ELSE at) => \E c \in Cells : pos[c] = i
        /\ batch # << >> => \/ at >= Keep \/ at = nPast + Decoded
                            \/ at = 0 /\ Keep = 1 /\ Len(batch) <= Size

\* No batch of a question or an image is longer than n_batch.
LEMMA CallLength ==
  ASSUME Typed, Working, Shiftable, PredictStep, pc' # "system", batch' # << >>
  PROVE  Len(batch') <= Batch
<1>0. /\ {image, input} \subseteq Seq(Tokens) /\ {Len(image), Len(input)} \subseteq Nat
      /\ batch = << >>
  <2>1. {image, input} \subseteq Seq(Tokens) /\ {Len(image), Len(input)} \subseteq Nat
    BY TypeParts DEF Typed, PredictType
  <2> QED
    BY <2>1, PredictKinds
<1>1. ASSUME NEW s \in Seq(Tokens), NEW n,
             n = IF Len(s) <= Batch THEN Len(s) ELSE Batch, batch' = SubSeq(s, 1, n)
      PROVE  Len(batch') <= Batch
  <2>1. n \in 0..Len(s) /\ n <= Batch
    BY <1>1, ConstantFacts
  <2> QED
    BY <1>1, <2>1, DropType
<1>2. CASE EvalInput
  BY <1>0, <1>1, <1>2 DEF EvalInput, CallText, Call
<1>3. CASE EvalSample
  <2>1. PICK t \in Tokens : batch' = <<t>>
    BY <1>3 DEF EvalSample, CallText, Call
  <2> QED
    BY <2>1, ConstantFacts
<1>4. CASE EvalImage
  BY <1>0, <1>1, <1>4 DEF EvalImage, EvalImageAt, Call, decodeVars
<1>5. CASE EvalSystem
  BY <1>0, <1>5 DEF EvalSystem, decodeVars
<1> QED
  BY <1>0, <1>2, <1>3, <1>4, <1>5 DEF PredictStep, Predict, Tokenize, InputDone, Stop, decodeVars

\* What stays in the cache keeps its content.
LEMMA TokensKept ==
  ASSUME Typed, Working, Shiftable, PredictStep, NEW c \in Cells, pos'[c] >= 0
  PROVE  token'[c] = token[c]
<1>1. ASSUME KVShift PROVE token'[c] = token[c]
  <2> DEFINE n == nPast \div 2
             left == seq_rm(pos, Keep, Keep + n)
  <2>1. pos' = seq_add(left, Keep + n, nPast, n) /\ token' = Clean(left)
    BY <1>1 DEF KVShift, ForgetAndMove
  <2>2. pos[c] \in {-1} \cup Nat /\ n \in Nat /\ Keep \in Nat
    BY ConstantFacts DEF Typed, TypeOK
  <2>3. left[c] \in {-1} \cup Nat
    BY <2>2 DEF seq_rm
  <2> HIDE DEF n, left
  <2>4. pos'[c] = IF c \in InRange(left, Keep + n, nPast) THEN left[c] - n ELSE left[c]
    BY <2>1 DEF seq_add
  <2>5. left[c] >= 0
    BY <2>2, <2>3, <2>4 DEF InRange
  <2> QED
    BY <2>1, <2>3, <2>5 DEF Clean
<1>2. token' = token \/ KVShift
  BY DEF PredictStep, Predict, EvalSystem, EvalImage, EvalImageAt, Tokenize, EvalInput, InputDone,
         EvalSample, Stop, cacheVars
<1> QED
  BY <1>1, <1>2

\* The positions of a call with text.
LEMMA KeptByText ==
  ASSUME Typed, Working, Shiftable, Covered, KeptHeld, "faults" \notin setup, batch = << >>,
         count = 0, Called, TextCall, Len(batch') <= Size \/ Keep # 1
  PROVE  /\ \A i \in 0..Keep - 1 : i < at' => \E c \in Cells : pos'[c] = i
         /\ at' >= Keep \/ at' = nPast' \/ (at' = 0 /\ Keep = 1 /\ Len(batch') <= Size)
<1>1. /\ \A c \in Cells : pos[c] \in {-1} \cup Nat
      /\ nPast \in Nat /\ Keep \in Nat /\ nPast' \in Nat
  BY ConstantFacts DEF Typed, TypeOK, Called
<1>2. \A c \in Cells : pos[c] < nPast
  <2>1. Len(batch) = 0 /\ nPast + (0 - 0) = nPast
    BY <1>1, EmptySeq
  <2> QED
    BY <2>1 DEF Covered, Below, Decoded
<1>3. \A i \in 0..Keep - 1 : i < nPast => \E c \in Cells : pos[c] = i
  BY DEF KeptHeld
<1>4. PICK n \in Nat : /\ Moved(n)
                      /\ ((n = 0 /\ nPast' = nPast /\ pos' = pos) \/ Shift(n))
  BY DEF Called
<1>5. \A c \in Cells : pos[c] \in 0..Keep - 1 => pos'[c] = pos[c]
  BY <1>1, <1>4 DEF Moved
<1>6. \A c \in Cells : pos'[c] <= pos[c]
  BY <1>1, <1>4 DEF Moved
<1>7. at' \in Nat /\ (\A c \in Cells : pos'[c] < at')
      /\ (at' > 0 => \E c \in Cells : pos'[c] = at' - 1)
  BY DEF TextCall
<1>8. at' <= nPast
  <2>1. CASE at' = 0
    BY <1>1, <2>1
  <2>2. CASE at' > 0
    <3>1. PICK c \in Cells : pos'[c] = at' - 1
      BY <1>7, <2>2
    <3>2. pos[c] \in {-1} \cup Nat /\ at' - 1 <= pos[c] /\ pos[c] < nPast
      BY <1>1, <1>2, <1>6, <3>1
    <3> QED
      BY <1>1, <1>7, <3>2
  <2> QED
    BY <1>7, <2>1, <2>2
<1>9. ASSUME NEW i \in 0..Keep - 1, i < nPast PROVE \E c \in Cells : pos'[c] = i
  <2>1. PICK c \in Cells : pos[c] = i
    BY <1>3, <1>9
  <2> QED
    BY <1>5, <2>1
<1>10. \A i \in 0..Keep - 1 : i < at' => \E c \in Cells : pos'[c] = i
  BY <1>1, <1>7, <1>8, <1>9
<1>11. ASSUME at' < Keep PROVE at' = nPast
  <2>1. ASSUME at' < nPast PROVE FALSE
    <3>1. at' \in 0..Keep - 1
      BY <1>1, <1>7, <1>11
    <3>2. PICK c \in Cells : pos'[c] = at'
      BY <1>9, <2>1, <3>1
    <3> QED
      BY <1>7, <3>2
  <2> QED
    BY <1>1, <1>7, <1>8, <2>1
<1>12. ASSUME at' < Keep, at' # nPast'
       PROVE  at' = 0 /\ Keep = 1
  <2>1. Shift(n) /\ nPast < Keep /\ at' = nPast
    BY <1>4, <1>11, <1>12
  <2>2. 2 * Keep <= nPast + 2 /\ nPast' = nPast - n + 1 /\ nPast <= 2 * n + 1 /\ 2 * n <= nPast
    BY <2>1 DEF Shift
  <2> QED
    BY <1>1, <2>1, <2>2
<1> QED
  BY <1>1, <1>7, <1>10, <1>12

\* A new call continues what is kept.
LEMMA KeptByCall ==
  ASSUME Typed, Working, Shiftable, Context <= Size, Covered, KeptHeld, "faults" \notin setup,
         PredictStep, batch = << >>, count = 0, Called
  PROVE  /\ \A i \in 0..Keep - 1 : i < at' => \E c \in Cells : pos'[c] = i
         /\ at' >= Keep \/ at' = nPast' \/ (at' = 0 /\ Keep = 1 /\ Len(batch') <= Size)
<1>1. CASE TextCall
  <2>1. Len(batch') <= Size \/ Keep # 1
    <3>1. batch' # << >> /\ Len(batch') \in Nat
      BY DEF Called
    <3>2. CASE pc' = "system"
      BY <3>2 DEF Called
    <3>3. CASE pc' # "system"
      <4>1. Len(batch') <= Batch
        BY <3>1, <3>3, CallLength
      <4> QED
        BY <3>1, <4>1, ConstantFacts DEF Shiftable
    <3> QED
      BY <3>2, <3>3
  <2> QED
    BY <1>1, <2>1, KeptByText
<1>2. CASE ImageCall
  BY <1>2 DEF ImageCall, KeptHeld
<1> QED
  BY <1>1, <1>2 DEF Called

\* A round of llama_decode adds to what is kept.
LEMMA KeptByRound ==
  ASSUME TypeOK, Working, KeptHeld, "faults" \notin setup, DecodeUBatch
  PROVE  /\ \A i \in 0..Keep - 1 :
              i < (IF batch' = << >> THEN nPast' ELSE at') => \E c \in Cells : pos'[c] = i
         /\ batch' # << >> => \/ at' >= Keep \/ at' = nPast' + (count' - Len(batch'))
                              \/ at' = 0 /\ Keep = 1 /\ Len(batch') <= Size
<1>1. /\ \A c \in Cells : pos[c] \in {-1} \cup Nat
      /\ nPast \in Nat /\ Keep \in Nat /\ at \in Nat /\ count \in Nat /\ Cells \subseteq Int
  BY ConstantFacts DEF TypeOK, Cells
<1>2. batch # << >> /\ Len(batch) \in Nat
  BY RoundFacts
<1>3. PICK n \in Nat, f \in Cells : Round(n, f)
  BY RoundFacts
<1>4. /\ \A i \in 0..Keep - 1 : i < at => \E c \in Cells : pos[c] = i
      /\ at >= Keep \/ at = nPast + (count - Len(batch)) \/ (at = 0 /\ Keep = 1)
  BY <1>2 DEF KeptHeld, Decoded
<1>5. n > 0 /\ n <= Len(batch) /\ f + n <= Size
  BY <1>3 DEF Round
<1>6. ASSUME NEW i \in 0..Keep - 1, i < at + n PROVE \E c \in Cells : pos'[c] = i
  <2>1. CASE i < at
    <3>1. PICK c \in Cells : pos[c] = i
      BY <1>4, <2>1
    <3>2. c \notin f..f + n - 1
      <4>1. pos[c] >= 0
        BY <1>1, <3>1
      <4>2. c \in f..f + n - 1 => pos[c] < 0
        BY <1>3 DEF Round
      <4> QED
        BY <1>1, <4>1, <4>2
    <3> QED
      BY <1>3, <3>1, <3>2 DEF Round
  <2>2. CASE i >= at
    <3> DEFINE c == f + (i - at)
    <3>1. c \in f..f + n - 1 /\ c \in Cells
      BY <1>1, <1>5, <1>6, <2>2, ConstantFacts DEF Cells
    <3>2. at + (c - f) = i
      BY <1>1
    <3> HIDE DEF c
    <3>3. pos'[c] = at + (c - f)
      BY <1>3, <3>1 DEF Round
    <3> QED
      BY <3>1, <3>2, <3>3
  <2> QED
    BY <1>1, <2>1, <2>2
<1>7. CASE batch' = << >>
  <2>1. n = Len(batch) /\ nPast' = nPast + count
    <3>1. Len(batch') = 0
      BY <1>7, EmptySeq
    <3> QED
      BY <1>2, <1>3, <1>7, <3>1 DEF Round
  <2>2. ASSUME NEW i \in 0..Keep - 1, i < nPast' PROVE i < at + n
    BY <1>1, <1>2, <1>4, <1>5, <2>1, <2>2
  <2> QED
    BY <1>6, <1>7, <2>2
<1>8. CASE batch' # << >>
  <2>1. at' = at + n /\ nPast' = nPast /\ count' = count /\ Len(batch') = Len(batch) - n
    BY <1>3, <1>8 DEF Round
  <2>2. at' >= Keep \/ at' = nPast' + (count' - Len(batch'))
    BY <1>1, <1>2, <1>4, <1>5, <2>1
  <2> QED
    BY <1>6, <1>8, <2>1, <2>2
<1> QED
  BY <1>7, <1>8

\* An empty cache has room for every batch that is not longer.
LEMMA EmptyHasRoom ==
  ASSUME NEW n \in Nat, n <= Size, \A c \in Cells : pos[c] < 0
  PROVE  FreeSlots(n) # {}
<1>1. 0 \in Cells /\ 0 + n <= Size
  BY ConstantFacts DEF Cells
<1>2. \A i \in 0..n - 1 : 0 + i \in Cells
  BY ConstantFacts DEF Cells
<1>3. 0 \in FreeSlots(n)
  BY <1>1, <1>2 DEF FreeSlots
<1> QED
  BY <1>3

\* No step takes away what is kept.
LEMMA KeptStep ==
  ASSUME IInv, Shiftable, Context <= Size, KeptHeld, [Next]_vars
  PROVE  KeptHeld'
<1>0. TypeOK /\ Typed /\ Working /\ Covered /\ AheadOfCache /\ nPast \in Nat /\ at \in Nat
  BY DEF IInv, Typed, TypeOK
<1>a. setup' = setup
  BY DEF Next, Predict, EvalSystem, EvalImage, EvalImageAt, Tokenize, EvalInput, InputDone,
         EvalSample, Stop, DecodeUBatch, DecodeInto, DecodeNoSlot, DecodeComputeFails, Failed,
         predictVars, vars
<1> SUFFICES ASSUME "faults" \notin setup
             PROVE  /\ \A i \in 0..Keep - 1 :
                          i < (IF batch' = << >> THEN nPast' ELSE at') =>
                             \E c \in Cells : pos'[c] = i
                    /\ batch' # << >> =>
                          \/ at' >= Keep \/ at' = nPast' + (count' - Len(batch'))
                          \/ at' = 0 /\ Keep = 1 /\ Len(batch') <= Size
  BY <1>a DEF KeptHeld, Decoded, Cells
<1>1. CASE UNCHANGED <<cacheVars, nPast, decodeVars>>
  BY <1>1 DEF KeptHeld, Decoded, cacheVars, decodeVars
<1>2. CASE PredictStep
  <2>1. batch = << >> /\ count = 0 /\ (Called \/ UNCHANGED <<cacheVars, nPast, decodeVars>>)
    BY <1>0, <1>2, PredictKinds
  <2>2. CASE Called
    <3>1. /\ \A i \in 0..Keep - 1 : i < at' => \E c \in Cells : pos'[c] = i
          /\ at' >= Keep \/ at' = nPast' \/ (at' = 0 /\ Keep = 1 /\ Len(batch') <= Size)
      BY <1>0, <1>2, <2>1, <2>2, KeptByCall
    <3>a. batch' # << >> /\ Len(batch') \in Nat /\ count' = Len(batch') /\ nPast' \in Nat
      BY <2>2 DEF Called
    <3>2. nPast' + (count' - Len(batch')) = nPast'
      <4>1. \A x, y \in Nat : x + (y - y) = x
        OBVIOUS
      <4> QED
        BY <3>a, <4>1
    <3> QED
      BY <3>a, <3>1, <3>2
  <2> QED
    BY <1>1, <2>1, <2>2
<1>3. CASE DecodeUBatch
  BY <1>0, <1>3, KeptByRound
<1>4. CASE DecodeNoSlot
  <2>1. pos' = pos /\ batch # << >> /\ FreeSlots(UBatchSize) = {}
    BY <1>0, <1>4, NoSlotFacts
  <2>2. batch' = << >> /\ nPast' = nPast
    BY <1>0, <1>4, FailedFacts, TypeParts DEF DecodeNoSlot
  <2>3. batch \in Seq(Tokens) /\ count \in Nat /\ Len(batch) \in Nat
    BY <1>0 DEF TypeOK
  <2>4. UBatchSize \in Nat /\ UBatchSize <= Len(batch)
    BY <2>1, <2>3, UBatchFacts
  <2>5. ASSUME at = 0, Len(batch) <= Size PROVE FALSE
    <3>1. \A c \in Cells : pos[c] < 0
      BY <1>0, <2>1, <2>5 DEF AheadOfCache, Below
    <3> QED
      BY <2>1, <2>3, <2>4, <2>5, <3>1, ConstantFacts, EmptyHasRoom
  <2>6. at >= Keep \/ at >= nPast
    BY <1>0, <2>1, <2>3, <2>5 DEF KeptHeld, Decoded, Working
  <2>7. \A i \in 0..Keep - 1 : i < at => \E c \in Cells : pos[c] = i
    BY <2>1 DEF KeptHeld
  <2>8. \A i \in 0..Keep - 1 : i < nPast => i < at
    BY <1>0, <2>6, ConstantFacts
  <2> QED
    BY <2>1, <2>2, <2>7, <2>8
<1>5. CASE DecodeComputeFails
  BY <1>5 DEF DecodeComputeFails
<1>6. CASE UNCHANGED vars
  BY <1>1, <1>6 DEF vars
<1> QED
  BY <1>2, <1>3, <1>4, <1>5, <1>6 DEF Next, PredictStep

\* The memory is what the cache recalls, before a step and after it.
LEMMA MemoryNow == Memory = Recall(pos, token) /\ Memory' = Recall(pos', token')
BY DEF Memory, Before, Recall, Rank, Used, Cells

\* Distinct positions make a cache a memory.
LEMMA MemoryTyped ==
  ASSUME NEW p, NEW t, NEW h, CacheType(p, t, h),
         \A c, d \in Used(p) : p[c] = p[d] => c = d
  PROVE  MemoryType(p, t)
<1>1. ASSUME NEW c \in Used(p) PROVE t[c] \in Tokens
  <2>1. c \in Cells /\ p[c] # -1
    BY <1>1 DEF Used
  <2> QED
    BY <2>1 DEF CacheType
<1> QED
  BY <1>1 DEF MemoryType, CacheType, Injective

\* A round of llama_decode writes only into free cells.
LEMMA RoundWrites ==
  ASSUME TypeOK, DecodeUBatch, NEW d \in Cells, pos[d] >= 0
  PROVE  token'[d] = token[d]
<1> DEFINE n == UBatchSize
           c == find_slot(n)
<1>1. batch # << >> /\ FreeSlots(n) # {} /\ token' = Written(c, n)
  BY DEF DecodeUBatch, DecodeInto
<1>2. n \in Nat /\ n > 0 /\ n <= Len(batch)
  BY <1>1, UBatchFacts DEF TypeOK
<1> HIDE DEF n
<1>3. c \in Cells /\ c + n <= Size /\ \A e \in c..c + n - 1 : pos[e] < 0
  BY <1>1, <1>2, SlotFacts
<1> HIDE DEF c
<1>4. d \notin c..c + n - 1
  <2>1. pos[d] \in {-1} \cup Nat
    BY DEF TypeOK
  <2> QED
    BY <1>3, <2>1
<1> QED
  BY <1>1, <1>2, <1>3, <1>4, PlacedFacts

\* A round of llama_decode is learning.
LEMMA RoundLearns ==
  ASSUME TypeOK, AheadOfCache, setup # {"images", "faults"}, DecodeUBatch,
         MemoryType(pos, token), MemoryType(pos', token')
  PROVE  Window!Learn
<1>1. /\ \A c \in Cells : pos[c] \in {-1} \cup Nat
      /\ at \in Nat /\ Cells \subseteq Int
  BY ConstantFacts DEF TypeOK, Cells
<1>2. PICK n \in Nat, f \in Cells : Round(n, f)
  BY RoundFacts
<1> DEFINE New == f..f + n - 1
<1>3. New \subseteq Cells /\ New # {}
  <2>1. n > 0 /\ f + n <= Size /\ f \in Nat
    BY <1>2 DEF Round, Cells
  <2>2. f \in New
    BY <2>1
  <2>3. \A c \in New : c \in 0..Size - 1
    BY <2>1, ConstantFacts
  <2> QED
    BY <2>2, <2>3 DEF Cells
<1>4. \A c \in Cells : /\ c \in New => pos[c] < 0 /\ pos'[c] = at + (c - f)
                       /\ c \notin New => pos'[c] = pos[c]
  BY <1>2 DEF Round
<1>5. ASSUME NEW c \in New PROVE c \in Cells /\ pos'[c] >= at
  BY <1>1, <1>3, <1>4
<1>6. \A c \in Cells : pos[c] < at
  BY RoundFacts DEF AheadOfCache, Below
<1> HIDE DEF New
<1>7. Used(pos') = Used(pos) \cup New
  <2>1. \A c \in Cells : pos'[c] >= 0 <=> pos[c] >= 0 \/ c \in New
    <3> SUFFICES ASSUME NEW c \in Cells PROVE pos'[c] >= 0 <=> pos[c] >= 0 \/ c \in New
      OBVIOUS
    <3>1. CASE c \in New
      <4>1. pos'[c] \in Nat
        <5>1. pos'[c] = at + (c - f) /\ pos'[c] >= at /\ c \in Int /\ f \in Int
          BY <1>1, <1>4, <1>5, <3>1
        <5> QED
          BY <1>1, <5>1
      <4> QED
        BY <3>1, <4>1
    <3>2. CASE c \notin New
      BY <1>4, <3>2
    <3> QED
      BY <3>1, <3>2
  <2> QED
    BY <1>3, <2>1 DEF Used
<1>8. Used(pos) \cap New = {} /\ Used(pos) \subseteq Cells
  <2>1. ASSUME NEW c \in Used(pos), c \in New PROVE FALSE
    <3>1. c \in Cells /\ pos[c] \in {-1} \cup Nat /\ pos[c] >= 0 /\ pos[c] < 0
      BY <1>1, <1>3, <1>4, <2>1 DEF Used
    <3> QED
      BY <3>1
  <2> QED
    BY <2>1 DEF Used
<1>9. ASSUME NEW c \in Used(pos) PROVE pos'[c] = pos[c] /\ token'[c] = token[c]
  <2>1. c \in Cells /\ c \notin New /\ pos[c] >= 0
    BY <1>8, <1>9 DEF Used
  <2> QED
    BY <1>4, <2>1, RoundWrites
<1>10. ASSUME NEW c \in Used(pos), NEW d \in New PROVE pos[c] < pos'[d]
  <2>1. d \in Cells /\ at <= pos'[d]
    BY <1>5
  <2>2. c \in Cells /\ pos[c] < at
    BY <1>6, <1>8
  <2>3. pos'[d] \in Int /\ pos[c] \in Int
    BY <2>1, <2>2 DEF MemoryType
  <2> QED
    BY <1>1, <2>1, <2>2, <2>3
<1>11. /\ Len(Recall(pos', token')) \in Len(Recall(pos, token)) + 1..Size
       /\ SubSeq(Recall(pos', token'), 1, Len(Recall(pos, token))) = Recall(pos, token)
  BY <1>3, <1>7, <1>8, <1>9, <1>10, LearnedFacts
<1> QED
  BY <1>11, MemoryNow DEF Window!Learn

\* Between two calls the memory stays, or a shift makes it forget.
LEMMA PredictForgets ==
  ASSUME Typed, Working, Shiftable, Covered, KeptHeld, "faults" \notin setup, PredictStep,
         MemoryType(pos, token), MemoryType(pos', token')
  PROVE  Memory' = Memory \/ Window!Forget
<1>1. batch = << >> /\ count = 0 /\ (Called \/ UNCHANGED <<cacheVars, nPast, decodeVars>>)
  BY PredictKinds
<1>2. CASE UNCHANGED <<cacheVars, nPast, decodeVars>>
  BY <1>2, MemoryNow DEF cacheVars
<1>3. CASE Called
  <2>1. /\ \A c \in Cells : pos[c] \in {-1} \cup Nat
        /\ nPast \in Nat /\ Keep \in Nat
    BY ConstantFacts DEF Typed, TypeOK
  <2>2. \A c \in Cells : pos[c] < nPast
    <3>1. Len(batch) = 0 /\ nPast + (0 - 0) = nPast
      BY <1>1, <2>1, EmptySeq
    <3> QED
      BY <1>1, <3>1 DEF Covered, Below, Decoded
  <2>3. PICK n \in Nat : Moved(n)
    BY <1>3 DEF Called
  <2>4. \A c \in Cells : \/ pos[c] = -1 /\ pos'[c] = -1
                         \/ pos[c] \in Keep..Keep + n - 1 /\ pos'[c] = -1
                         \/ pos[c] \in 0..Keep - 1 /\ pos'[c] = pos[c]
                         \/ pos[c] >= Keep + n /\ pos'[c] = pos[c] - n
    BY <2>1, <2>2, <2>3 DEF Moved
  <2>5. \A c \in Cells : /\ pos'[c] >= 0 <=> pos[c] >= 0 /\ (pos[c] < Keep \/ pos[c] >= Keep + n)
                         /\ pos'[c] >= 0 => pos'[c] = IF pos[c] < Keep THEN pos[c] ELSE pos[c] - n
    BY <2>1, <2>4
  <2>6. \A c \in Cells : pos'[c] >= 0 => token'[c] = token[c]
    BY TokensKept
  <2>7. ShiftedBy(n, pos, token, pos', token')
    BY <2>5, <2>6 DEF ShiftedBy, Used
  <2>8. ASSUME GoneFrom(n, pos) # {} PROVE \A i \in 0..Keep - 1 : \E c \in Cells : pos[c] = i
    <3>1. PICK c \in Cells : pos[c] >= Keep
      BY <2>8 DEF GoneFrom, Used
    <3>2. Keep < nPast
      BY <2>1, <2>2, <3>1
    <3>3. \A i \in 0..Keep - 1 : i < nPast
      BY <2>1, <3>2
    <3> QED
      BY <1>1, <3>3 DEF KeptHeld
  <2>9. \/ Recall(pos', token') = Recall(pos, token)
        \/ \E k \in 1..Len(Recall(pos, token)) - Keep :
              Recall(pos', token') = Window!Without(Recall(pos, token), Keep, k)
    BY <2>7, <2>8, ForgottenFacts
  <2> QED
    BY <2>9, MemoryNow DEF Window!Forget
<1> QED
  BY <1>1, <1>2, <1>3

\* A step of the program is a step of the memory.
LEMMA WindowStep ==
  ASSUME IInv, IInv', Shiftable, KeptHeld, [Next]_vars
  PROVE  [Window!Next]_Memory
<1>1. setup' = setup
  BY DEF Next, Predict, EvalSystem, EvalImage, EvalImageAt, Tokenize, EvalInput, InputDone,
         EvalSample, Stop, DecodeUBatch, DecodeInto, DecodeNoSlot, DecodeComputeFails, Failed,
         predictVars, vars
<1>2. CASE "faults" \in setup
  BY <1>2 DEF Window!Next
<1>3. CASE "faults" \notin setup
  <2>1. Typed /\ Working /\ Covered /\ AheadOfCache /\ TypeOK /\ setup # {"images", "faults"}
    BY <1>3 DEF IInv, Typed
  <2>2. CacheType(pos, token, head) /\ CacheType(pos', token', head')
    BY TypeParts, TypePartsNext DEF IInv, Typed
  <2>3. /\ \A c, d \in Used(pos) : pos[c] = pos[d] => c = d
        /\ \A c, d \in Used(pos') : pos'[c] = pos'[d] => c = d
    BY <1>1, <2>1 DEF IInv, PositionsDistinct, Used, Cells
  <2>4. MemoryType(pos, token) /\ MemoryType(pos', token')
    BY <2>2, <2>3, MemoryTyped
  <2>5. CASE PredictStep
    <3>1. Memory' = Memory \/ Window!Forget
      BY <1>3, <2>1, <2>4, <2>5, PredictForgets
    <3> QED
      BY <3>1 DEF Window!Next
  <2>6. CASE DecodeUBatch
    BY <2>1, <2>4, <2>6, RoundLearns DEF Window!Next
  <2>7. CASE DecodeNoSlot \/ UNCHANGED vars
    <3>1. pos' = pos /\ token' = token
      BY <2>7 DEF DecodeNoSlot, vars, cacheVars
    <3> QED
      BY <3>1, MemoryNow
  <2>8. CASE DecodeComputeFails
    BY <1>3, <2>8 DEF DecodeComputeFails
  <2> QED
    BY <2>5, <2>6, <2>7, <2>8 DEF Next, PredictStep
<1> QED
  BY <1>2, <1>3

\* The window behaves as a memory that learns at its end and forgets one block behind its
\* first Keep tokens: LlamaContext implements ContextMemory, in every window a shift can make
\* room in and whose cache has at least the cells asked for.  No shift reorders the tokens,
\* drops one of those kept, or loses one elsewhere, whichever cells the cache took for them.
THEOREM WindowSpecHolds == ASSUME Shiftable, Context <= Size PROVE Spec => WindowSpec
<1>1. ASSUME Init PROVE Window!Init /\ KeptHeld
  <2>1. /\ \A c \in Cells : pos[c] = -1
        /\ nPast = 0 /\ batch = << >>
    BY <1>1 DEF Init
  <2>2. Used(pos) = {}
    BY <2>1 DEF Used
  <2>3. Cardinality(Used(pos)) = 0
    BY <2>2, FS_EmptySet
  <2>4. Recall(pos, token) = << >>
    BY <2>3 DEF Recall
  <2>5. KeptHeld
    BY <2>1, ConstantFacts DEF KeptHeld
  <2> QED
    BY <2>4, <2>5, MemoryNow DEF Window!Init
<1>2. Init => IInv
  BY InitFacts
<1>3. IInv /\ [Next]_vars => IInv'
  BY InvStep
<1>4. IInv /\ KeptHeld /\ [Next]_vars => KeptHeld'
  BY KeptStep
<1>5. IInv /\ IInv' /\ KeptHeld /\ [Next]_vars => [Window!Next]_Memory
  BY WindowStep
<1> QED
  BY <1>1, <1>2, <1>3, <1>4, <1>5, PTL DEF Spec, WindowSpec, Window!Spec

------------------------------------------------------------------------------
(* Room for the next batch *)

\* Two batches fit into the cache, as with the documented defaults (512 of 1024): what half a
\* window leaves is enough for a batch.
TwoBatchesFit == Context <= Size /\ 2 * Batch <= Size

\* A text in progress ends inside the cache.
EndsInside == setup = {} /\ batch # << >> => at + Len(batch) <= Size

\* The window check never lets more tokens through than there are free cells; so a token that
\* is sampled finds its cell, and a longer batch that does not is stopped by fragmentation.
EnoughCells ==
    setup = {} /\ batch # << >> =>
        /\ Cardinality(Used(pos)) + Len(batch) <= Size
        /\ Len(batch) = 1 => FreeSlots(UBatchSize) # {}

\* Text in progress begins after as many positions as there are cells in use.
LEMMA UsedUpTo ==
  ASSUME NEW p, NEW t, MemoryType(p, t), NEW b \in Nat, \A c \in Cells : p[c] < b,
         \A i \in 0..b - 1 : \E c \in Cells : p[c] = i
  PROVE  Cardinality(Used(p)) = b
<1>1. Cardinality({c \in Used(p) : p[c] < b}) = b
  BY FirstFacts
<1>2. {c \in Used(p) : p[c] < b} = Used(p)
  BY DEF Used
<1> QED
  BY <1>1, <1>2

\* There are no more cells in use than cells.
LEMMA UsedAtMost ==
  /\ IsFiniteSet(Used(pos)) /\ Cardinality(Used(pos)) \in Nat /\ Cardinality(Used(pos)) <= Size
  /\ Cardinality(Used(pos)) < Size => \E c \in Cells : c \notin Used(pos)
<1>1. IsFiniteSet(Cells) /\ Cardinality(Cells) = Size
  <2>1. 0 <= Size - 1 /\ Size - 1 - 0 + 1 = Size
    BY ConstantFacts
  <2> QED
    BY <2>1, ConstantFacts, FS_Interval DEF Cells
<1>2. Used(pos) \subseteq Cells
  BY DEF Used
<1>3. IsFiniteSet(Used(pos)) /\ Cardinality(Used(pos)) <= Size
  BY <1>1, <1>2, FS_Subset
<1>4. Cardinality(Used(pos)) \in Nat
  BY <1>3, FS_CardinalityType
<1>5. Cardinality(Used(pos)) < Size => Used(pos) # Cells
  BY <1>1, <1>4, ConstantFacts
<1> QED
  BY <1>2, <1>3, <1>4, <1>5

\* Contiguous positions stay below the size of the cache.
LEMMA PositionsInside ==
  ASSUME MemoryType(pos, token), NEW c \in Used(pos),
         \A i \in 0..pos[c] : \E d \in Cells : pos[d] = i
  PROVE  pos[c] < Size
<1> DEFINE F == {d \in Used(pos) : pos[d] < pos[c] + 1}
<1>1. pos[c] \in Nat
  BY DEF Used, MemoryType
<1>2. Cardinality(F) = pos[c] + 1
  <2> DEFINE b == pos[c] + 1
  <2>1. b \in Nat
    BY <1>1
  <2>2. ASSUME NEW i \in 0..b - 1 PROVE \E d \in Cells : pos[d] = i
    <3>1. i \in 0..pos[c]
      BY <1>1
    <3> QED
      BY <3>1
  <2> HIDE DEF F, b
  <2>3. Cardinality({d \in Used(pos) : pos[d] < b}) = b
    BY <2>1, <2>2, FirstFacts
  <2> QED
    BY <2>3 DEF b, F
<1>3. F \subseteq Used(pos)
  OBVIOUS
<1>4. Cardinality(F) <= Cardinality(Used(pos))
  BY <1>3, UsedAtMost, FS_Subset
<1> QED
  BY <1>1, <1>2, <1>4, UsedAtMost, ConstantFacts

\* A call with text ends inside the cache: without a shift the window check has seen to it,
\* and a shift leaves half of the cache or what it keeps.
LEMMA CallEndsInside ==
  ASSUME TypeOK, Shiftable, TwoBatchesFit, NEW full \in BOOLEAN,
         IF full THEN KVShift ELSE UNCHANGED <<cacheVars, nPast>>,
         \A c \in Cells : pos[c] < nPast /\ pos[c] < Size,
         NEW tokens \in Seq(Tokens), CallText(tokens),
         full => Len(tokens) <= Batch, ~ full => nPast + Len(tokens) <= Size
  PROVE  at' + Len(batch') <= Size
<1>1. /\ \A c \in Cells : pos[c] \in {-1} \cup Nat
      /\ nPast \in Nat /\ Len(tokens) \in Nat
  BY DEF TypeOK
<1>2. CacheType(pos', token', head')
  BY RoomFacts
<1>3. PICK n \in Nat : /\ Moved(n) /\ (~ full => n = 0)
                       /\ full => 2 * n <= nPast /\ nPast <= 2 * n + 1
  BY RoomFacts
<1>b. PICK b \in Nat : b = nPast
  BY <1>1
<1>4. Below(b)'
  <2>1. Below(b)
    BY <1>b DEF Below
  <2> QED
    BY <1>3, <2>1, MovedDown
<1>5. /\ batch' = tokens /\ at' \in Nat
      /\ at' > 0 => \E c \in Cells : pos'[c] = at' - 1
  BY <1>1, <1>2, <1>4, CallTextFacts
<1>6. CASE at' = 0
  BY <1>1, <1>5, <1>6, ConstantFacts DEF TwoBatchesFit
<1>7. CASE at' > 0
  <2>1. PICK c \in Cells : pos'[c] = at' - 1
    BY <1>5, <1>7
  <2>2. /\ pos[c] \in {-1} \cup Nat /\ pos[c] < nPast /\ pos[c] < Size
        /\ pos'[c] >= 0
    <3>1. pos'[c] >= 0
      <4>1. \A x \in Nat : x > 0 => x - 1 >= 0
        OBVIOUS
      <4> QED
        BY <1>5, <1>7, <2>1, <4>1
    <3>2. pos[c] \in {-1} \cup Nat
      BY <1>1
    <3> QED
      BY <3>1, <3>2
  <2>3. \/ pos[c] < Keep /\ at' = pos[c] + 1
        \/ ~ full /\ at' = pos[c] + 1
        \/ full /\ at' = pos[c] - n + 1
    <3>1. \/ pos[c] \in 0..Keep - 1 /\ pos'[c] = pos[c]
          \/ pos[c] >= Keep + n /\ pos'[c] = pos[c] - n
      BY <1>1, <1>3, <2>2 DEF Moved
    <3>2. \A m \in Nat : m = (m - 1) + 1
      OBVIOUS
    <3>3. at' = pos'[c] + 1 /\ pos[c] \in Int
      BY <1>5, <2>1, <2>2, <3>2
    <3>4. CASE pos[c] \in 0..Keep - 1
      BY <2>2, <3>1, <3>3, <3>4, ConstantFacts
    <3>5. CASE pos'[c] = pos[c] - n
      BY <1>3, <3>3, <3>5
    <3> QED
      BY <3>1, <3>4, <3>5
  <2>4. Len(tokens) \in Nat /\ pos[c] \in Int /\ nPast \in Nat /\ batch' = tokens
    BY <1>1, <1>5, <2>2
  <2>5. CASE ~ full
    <3>1. nPast + Len(tokens) <= Size
      BY <2>5
    <3>2. at' = pos[c] + 1
      BY <2>3, <2>5
    <3> QED
      BY <2>2, <2>4, <3>1, <3>2, ConstantFacts
  <2>6. CASE full
    <3>1. Len(tokens) <= Batch /\ 2 * Batch <= Size /\ 2 * Keep <= Size /\ nPast <= 2 * n + 1
      BY <1>3, <2>6, ConstantFacts DEF TwoBatchesFit, Shiftable
    <3>2. CASE pos[c] < Keep /\ at' = pos[c] + 1
      BY <2>4, <3>1, <3>2, ConstantFacts
    <3>3. CASE at' = pos[c] - n + 1
      BY <2>2, <2>4, <3>1, <3>3, ConstantFacts
    <3> QED
      BY <2>3, <2>6, <3>2, <3>3
  <2> QED
    BY <2>5, <2>6
<1> QED
  BY <1>5, <1>6, <1>7

\* Every step keeps the text in progress inside the cache.
LEMMA EndsInsideStep ==
  ASSUME IInv, Shiftable, TwoBatchesFit, EndsInside, [Next]_vars
  PROVE  EndsInside'
<1>0. TypeOK /\ Typed /\ Working /\ Covered /\ AheadOfCache /\ nPast \in Nat /\ at \in Nat
      /\ {system, image, input, batch} \subseteq Seq(Tokens)
      /\ {Len(system), Len(input), Len(batch)} \subseteq Nat
  BY DEF IInv, Typed, TypeOK
<1>a. setup' = setup
  BY DEF Next, Predict, EvalSystem, EvalImage, EvalImageAt, Tokenize, EvalInput, InputDone,
         EvalSample, Stop, DecodeUBatch, DecodeInto, DecodeNoSlot, DecodeComputeFails, Failed,
         predictVars, vars
<1> SUFFICES ASSUME setup = {}, batch' # << >> PROVE at' + Len(batch') <= Size
  BY <1>a DEF EndsInside
<1>1. CASE UNCHANGED decodeVars
  BY <1>1 DEF EndsInside, decodeVars
<1>2. CASE DecodeUBatch
  <2>1. PICK n \in Nat, f \in Cells : Round(n, f)
    BY <1>0, <1>2, RoundFacts
  <2>2. batch # << >> /\ at' = at + n /\ Len(batch') = Len(batch) - n
    BY <1>0, <1>2, <2>1, RoundFacts DEF Round
  <2> QED
    BY <1>0, <2>2, ConstantFacts DEF EndsInside
<1>3. CASE DecodeNoSlot \/ DecodeComputeFails
  BY <1>3 DEF DecodeNoSlot, DecodeComputeFails, Failed, NoCall
<1>4. CASE EvalSystem \/ EvalInput \/ EvalSample
  <2>0. batch = << >>
    BY <1>4 DEF EvalSystem, EvalInput, EvalSample
  <2>1. \A c \in Cells : pos[c] < nPast
    <3>1. Len(batch) = 0 /\ count = 0 /\ nPast + (0 - 0) = nPast
      BY <1>0, <2>0, EmptySeq DEF Working
    <3> QED
      BY <1>0, <3>1 DEF Covered, Below, Decoded
  <2>2. \A c \in Cells : pos[c] < Size
    <3>1. MemoryType(pos, token)
      BY <1>0, MemoryTyped, TypeParts DEF IInv, PositionsDistinct
    <3> SUFFICES ASSUME NEW c \in Cells, pos[c] >= 0 PROVE pos[c] < Size
      BY <1>0, ConstantFacts DEF TypeOK
    <3>2. c \in Used(pos)
      BY DEF Used
    <3> QED
      BY <3>1, <3>2, PositionsInside DEF IInv, PositionsContiguous
  <2>3. ASSUME NEW s \in Seq(Tokens), NEW n, n = IF Len(s) <= Batch THEN Len(s) ELSE Batch
        PROVE  SubSeq(s, 1, n) \in Seq(Tokens) /\ Len(SubSeq(s, 1, n)) = n /\ n <= Batch
               /\ n \in Nat
    <3>1. n \in 0..Len(s) /\ n <= Batch /\ n \in Nat
      BY <2>3, ConstantFacts
    <3> QED
      BY <3>1, DropType
  <2>4. CASE EvalSystem
    <3>1. CallText(system) /\ nPast = 0 /\ UNCHANGED <<cacheVars, nPast>>
      BY <2>0, <2>4 DEF EvalSystem, decodeVars
    <3>2. system \in Seq(Tokens) /\ nPast + Len(system) <= Size
      BY <1>0, <3>1 DEF Working
    <3> QED
      BY <1>0, <2>1, <2>2, <3>1, <3>2, CallEndsInside
  <2>5. CASE EvalInput
    <3> DEFINE n == IF Len(input) <= Batch THEN Len(input) ELSE Batch
               tokens == SubSeq(input, 1, n)
    <3>1. /\ IF nPast + n >= Context THEN KVShift ELSE UNCHANGED <<cacheVars, nPast>>
          /\ CallText(tokens)
      BY <2>5 DEF EvalInput
    <3>2. tokens \in Seq(Tokens) /\ Len(tokens) = n /\ n <= Batch /\ n \in Nat
      BY <1>0, <2>3
    <3> HIDE DEF n, tokens
    <3>3. nPast + n < Context => nPast + Len(tokens) <= Size
      BY <1>0, <3>2, ConstantFacts DEF TwoBatchesFit
    <3>4. CASE nPast + n >= Context
      BY <1>0, <2>1, <2>2, <3>1, <3>2, <3>4, CallEndsInside
    <3>5. CASE ~ (nPast + n >= Context)
      <4>1. nPast + Len(tokens) <= Size
        BY <1>0, <3>2, <3>3, <3>5, ConstantFacts
      <4> QED
        BY <1>0, <2>1, <2>2, <3>1, <3>2, <3>5, <4>1, CallEndsInside
    <3> QED
      BY <3>4, <3>5
  <2>6. CASE EvalSample
    <3>1. IF nPast >= Context - 2 THEN KVShift ELSE UNCHANGED <<cacheVars, nPast>>
      BY <2>6 DEF EvalSample
    <3>2. PICK t \in Tokens : CallText(<<t>>)
      BY <2>6 DEF EvalSample
    <3>3. <<t>> \in Seq(Tokens) /\ Len(<<t>>) = 1 /\ Len(<<t>>) <= Batch
      BY ConstantFacts
    <3>4. CASE nPast >= Context - 2
      BY <1>0, <2>1, <2>2, <3>1, <3>2, <3>3, <3>4, CallEndsInside
    <3>5. CASE ~ (nPast >= Context - 2)
      <4>1. nPast + Len(<<t>>) <= Size
        BY <1>0, <3>3, <3>5, ConstantFacts DEF TwoBatchesFit
      <4> QED
        BY <1>0, <2>1, <2>2, <3>1, <3>2, <3>3, <3>5, <4>1, CallEndsInside
    <3> QED
      BY <3>4, <3>5
  <2> QED
    BY <1>4, <2>4, <2>5, <2>6
<1>5. CASE EvalImage
  <2>1. image = << >>
    BY <1>0 DEF Working
  <2> QED
    BY <1>1, <1>5, <2>1 DEF EvalImage, EvalImageAt
<1>6. CASE Predict \/ Tokenize \/ InputDone \/ Stop \/ UNCHANGED vars
  BY <1>1, <1>6 DEF Predict, Tokenize, InputDone, Stop, vars
<1> QED
  BY <1>2, <1>3, <1>4, <1>5, <1>6 DEF Next

\* In any window that can be shifted and that two batches fit into, the check of nPast before
\* each batch keeps within the free cells, and the next token of a reply always has a cell.
THEOREM EnoughCellsCorrect == ASSUME Shiftable, TwoBatchesFit PROVE Spec => []EnoughCells
<1>1. Init => IInv /\ EndsInside
  <2>1. Init => EndsInside
    BY DEF Init, EndsInside
  <2> QED
    BY <2>1, InitFacts
<1>2. IInv /\ EndsInside /\ [Next]_vars => IInv' /\ EndsInside'
  BY InvStep, EndsInsideStep
<1>3. IInv /\ EndsInside => EnoughCells
  <2> SUFFICES ASSUME IInv, EndsInside, setup = {}, batch # << >>
               PROVE  /\ Cardinality(Used(pos)) + Len(batch) <= Size
                      /\ Len(batch) = 1 => FreeSlots(UBatchSize) # {}
    BY DEF EnoughCells
  <2>0. TypeOK /\ at \in Nat /\ batch \in Seq(Tokens) /\ Len(batch) \in Nat
    BY DEF IInv, Typed, TypeOK
  <2>1. MemoryType(pos, token)
    BY <2>0, MemoryTyped, TypeParts DEF IInv, PositionsDistinct
  <2>a. PICK b \in Nat : b = at
    BY <2>0
  <2>2. /\ \A c \in Cells : pos[c] < b
        /\ \A i \in 0..b - 1 : \E c \in Cells : pos[c] = i
    BY <2>a DEF IInv, AheadOfCache, Continues, Below
  <2>3. Cardinality(Used(pos)) = at
    BY <2>1, <2>2, <2>a, UsedUpTo
  <2>4. at + Len(batch) <= Size
    BY DEF EndsInside
  <2>5. ASSUME Len(batch) = 1 PROVE FreeSlots(UBatchSize) # {}
    <3>1. UBatchSize = 1
      <4>1. UBatchSize \in Nat /\ UBatchSize > 0 /\ UBatchSize <= 1
        BY <2>0, <2>5, UBatchFacts
      <4> QED
        BY <4>1
    <3>2. PICK c \in Cells : c \notin Used(pos)
      BY <2>0, <2>3, <2>4, <2>5, UsedAtMost, ConstantFacts
    <3>3. c + 1 <= Size /\ \A i \in 0..1 - 1 : pos[c + i] < 0
      <4>1. c + 1 <= Size /\ pos[c] < 0 /\ c \in Int
        BY <2>0, <3>2, ConstantFacts DEF Used, Cells, TypeOK
      <4>2. \A i \in 0..1 - 1 : c + i = c
        BY <4>1
      <4> QED
        BY <4>1, <4>2
    <3>4. c \in FreeSlots(1)
      BY <3>3 DEF FreeSlots
    <3> QED
      BY <3>1, <3>4
  <2> QED
    BY <2>3, <2>4, <2>5
<1> QED
  BY <1>1, <1>2, <1>3, PTL DEF Spec
==============================================================================
