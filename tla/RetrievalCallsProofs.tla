------------------------ MODULE RetrievalCallsProofs ------------------------
(***************************************************************************)
(* Proofs about RetrievalCalls: what addItems, the three splitters and     *)
(* topK compute, for any texts, sizes, overlaps, scores and threads.       *)
(***************************************************************************)
EXTENDS RetrievalCalls, FiniteSetTheorems, SequenceTheorems, NaturalsInduction, TLAPS

\* The sizes are numbers, and the mark for no item is not an item.
LEMMA ConstantFacts ==
  /\ ChunkSizes \subseteq Nat /\ WordCounts \subseteq Nat /\ Overlaps \subseteq Nat
  /\ MaxWords \in Nat \ {0} /\ MaxTokens \in Nat \ {0} /\ MaxGrowth \in Nat
  /\ Pools \subseteq Nat \ {0} /\ IsFiniteSet(ItemTexts) /\ None \notin ItemTexts
  BY RetrievalCallsAssumption

------------------------------------------------------------------------------
(* addItems *)

Buffers == [slots : Seq(ItemTexts \cup {None}), count : Nat]

Newest == memory[indexItems]
Inside == {"reserve", "replace", "count", "write"}

\* Types; a child that has made a larger buffer has one.
InsertType ==
    /\ threads \in Pools /\ at \in [ItemTexts -> Insertion!Stages] /\ raced \in BOOLEAN
    /\ memory \in Seq(Buffers) /\ indexItems \in 1..Len(memory)
    /\ buffer \in [ItemTexts -> 0..Len(memory)] /\ oldCount \in [ItemTexts -> Nat]
    /\ \A i \in ItemTexts : at[i] = "replace" => buffer[i] \in 1..Len(memory)
    /\ pc \in {"next", "drain", "returned", "trapped"}
    /\ pc = "returned" => \A i \in ItemTexts : at[i] = "done"

\* One thread takes one child at a time to its end, so that its appends never overlap.
OneByOne ==
    threads = 1 =>
        /\ ~raced
        /\ \A i, j \in ItemTexts : at[i] \notin {"new", "done"} /\ at[j] \notin {"new", "done"} => i = j

\* While no appends have overlapped: at most one child is inside append, and the array is as
\* it has found it, but for the parts it has done.
OneAppends == \A i, j \in ItemTexts : at[i] \in Inside /\ at[j] \in Inside => i = j

Progress ==
    \A i \in ItemTexts :
        /\ at[i] \in {"reserve", "replace", "count"} => oldCount[i] = Newest.count
        /\ at[i] = "replace" =>
              /\ memory[buffer[i]].count = Newest.count
              /\ Newest.count < Len(memory[buffer[i]].slots)
              /\ \A p \in 1..Newest.count : memory[buffer[i]].slots[p] = Newest.slots[p]
        /\ at[i] = "count" => Newest.count < Len(Newest.slots)
        /\ at[i] = "write" => Newest.count = oldCount[i] + 1

\* Slot p is counted, and nobody is about to initialise it.
Filled(p) == p \in 1..Newest.count /\ \A i \in ItemTexts : at[i] = "write" => p <= oldCount[i]

\* The filled slots hold the items of the children that are done, each once.
HoldsDone ==
    /\ \A p \in Nat : Filled(p) => Newest.slots[p] \in ItemTexts /\ at[Newest.slots[p]] = "done"
    /\ \A p, q \in Nat : Filled(p) /\ Filled(q) /\ Newest.slots[p] = Newest.slots[q] => p = q
    /\ \A i \in ItemTexts : at[i] = "done" => \E p \in Nat : Filled(p) /\ Newest.slots[p] = i

Unraced ==
    ~raced => pc # "trapped" /\ Newest.count <= Len(Newest.slots) /\ OneAppends /\ Progress /\ HoldsDone

InsertInv == InsertType /\ OneByOne /\ Unraced

\* The library's cardinality, whatever module it is taken through.
LEMMA SameCardinality ==
  ASSUME NEW S
  PROVE  Insertion!Cardinality(S) = Cardinality(S)
  BY DEF Insertion!Cardinality, Cardinality

\* On one thread nothing else is under way when a child starts.
LEMMA ThreadFree ==
  ASSUME InsertInv, threads = 1, Cardinality(Insertion!OnThread) < threads
  PROVE  \A j \in ItemTexts : at[j] \in {"new", "done"}
<1>1. Insertion!OnThread \subseteq ItemTexts
  BY DEF Insertion!OnThread
<1>2. IsFiniteSet(Insertion!OnThread)
  BY <1>1, ConstantFacts, FS_Subset
<1>3. Cardinality(Insertion!OnThread) \in Nat
  BY <1>2, FS_CardinalityType
<1>4. Cardinality(Insertion!OnThread) = 0
  BY <1>3
<1>5. Insertion!OnThread = {}
  BY <1>2, <1>4, FS_EmptySet
<1> QED
  BY <1>5 DEF Insertion!OnThread

\* What the newest buffer is.
LEMMA NewestType ==
  ASSUME InsertType
  PROVE  /\ Newest \in Buffers /\ Newest.slots \in Seq(ItemTexts \cup {None}) /\ Newest.count \in Nat
         /\ Len(Newest.slots) \in Nat /\ DOMAIN Newest.slots = 1..Len(Newest.slots)
         /\ Insertion!Array = Newest
<1>1. Newest \in Buffers
  BY DEF InsertType, Newest
<1> QED
  BY <1>1 DEF Buffers, Insertion!Array, Newest

\* A child that starts or encodes its text does not touch the array.
LEMMA BeginStep ==
  ASSUME InsertInv, NEW i \in ItemTexts, Insertion!StartChild(i) \/ Insertion!Encode(i)
  PROVE  InsertInv'
<1>1. /\ UNCHANGED <<threads, oldCount, buffer, memory, indexItems, raced, pc>>
      /\ \E s \in {"encode", "append"} : at' = [at EXCEPT ![i] = s]
      /\ at[i] \in {"new", "encode"} /\ (at[i] = "new" => Cardinality(Insertion!OnThread) < threads)
  <2>1. CASE Insertion!StartChild(i)
    <3>1. at' = [at EXCEPT ![i] = "encode"] /\ at[i] = "new"
          /\ Cardinality(Insertion!OnThread) < threads
      BY <2>1, SameCardinality DEF Insertion!StartChild
    <3>2. UNCHANGED <<threads, oldCount, buffer, memory, indexItems, raced, pc>>
      BY <2>1 DEF Insertion!StartChild
    <3> QED
      BY <3>1, <3>2
  <2>2. CASE Insertion!Encode(i)
    BY <2>2 DEF Insertion!Encode
  <2> QED
    BY <2>1, <2>2
<1>2. /\ at \in [ItemTexts -> Insertion!Stages] /\ at' \in [ItemTexts -> Insertion!Stages]
      /\ at'[i] \in {"encode", "append"} /\ \A j \in ItemTexts : j # i => at'[j] = at[j]
  BY <1>1 DEF InsertInv, InsertType, Insertion!Stages
<1>3. InsertType'
  BY <1>1, <1>2 DEF InsertInv, InsertType
<1>4. OneByOne'
  <2> SUFFICES ASSUME threads = 1
               PROVE  ~raced /\ \A j, k \in ItemTexts :
                        at'[j] \notin {"new", "done"} /\ at'[k] \notin {"new", "done"} => j = k
    BY <1>1 DEF OneByOne
  <2>1. \A j \in ItemTexts : j # i => at[j] \in {"new", "done"}
    <3>1. CASE at[i] = "new"
      BY <1>1, <3>1, ThreadFree
    <3>2. CASE at[i] = "encode"
      BY <3>2 DEF InsertInv, OneByOne
    <3> QED
      BY <1>1, <3>1, <3>2
  <2> QED
    BY <1>2, <2>1 DEF InsertInv, OneByOne
<1>5. Newest' = Newest /\ \A p : Filled(p)' <=> Filled(p)
  BY <1>1, <1>2 DEF Newest, Filled
<1>6. Unraced'
  <2> SUFFICES ASSUME ~raced
               PROVE  pc # "trapped" /\ Newest.count <= Len(Newest.slots) /\ OneAppends' /\ Progress' /\ HoldsDone'
    BY <1>1, <1>5 DEF Unraced
  <2>1. pc # "trapped" /\ Newest.count <= Len(Newest.slots) /\ OneAppends /\ Progress /\ HoldsDone
    BY DEF InsertInv, Unraced
  <2>2. OneAppends'
    BY <1>2, <2>1 DEF OneAppends, Inside
  <2>3. Progress'
    BY <1>1, <1>2, <1>5, <2>1 DEF Progress
  <2>4. HoldsDone'
    BY <1>1, <1>2, <1>5, <2>1 DEF HoldsDone
  <2> QED
    BY <2>1, <2>2, <2>3, <2>4
<1> QED
  BY <1>3, <1>4, <1>6 DEF InsertInv

\* A child that comes into append while another is inside makes a race of it.
LEMMA ReadCountStep ==
  ASSUME InsertInv, NEW i \in ItemTexts, Insertion!ReadCount(i)
  PROVE  InsertInv'
<1>1. /\ UNCHANGED <<threads, buffer, memory, indexItems, pc>> /\ at[i] = "append"
      /\ at' = [at EXCEPT ![i] = "reserve"] /\ oldCount' = [oldCount EXCEPT ![i] = Newest.count]
      /\ raced' = (raced \/ Insertion!Appending # {})
  BY NewestType DEF InsertInv, Insertion!ReadCount
<1>2. /\ at \in [ItemTexts -> Insertion!Stages] /\ at' \in [ItemTexts -> Insertion!Stages]
      /\ at'[i] = "reserve" /\ \A j \in ItemTexts : j # i => at'[j] = at[j]
      /\ oldCount' \in [ItemTexts -> Nat] /\ oldCount'[i] = Newest.count
      /\ \A j \in ItemTexts : j # i => oldCount'[j] = oldCount[j]
  BY <1>1, NewestType DEF InsertInv, InsertType, Insertion!Stages
<1>3. InsertType'
  BY <1>1, <1>2 DEF InsertInv, InsertType
<1>4. Insertion!Appending = {j \in ItemTexts : at[j] \in Inside}
  BY DEF Insertion!Appending, Inside
<1>5. OneByOne'
  <2> SUFFICES ASSUME threads = 1
               PROVE  ~raced' /\ \A j, k \in ItemTexts :
                        at'[j] \notin {"new", "done"} /\ at'[k] \notin {"new", "done"} => j = k
    BY <1>1 DEF OneByOne
  <2>1. ~raced /\ \A j \in ItemTexts : j # i => at[j] \in {"new", "done"}
    BY <1>1 DEF InsertInv, OneByOne
  <2>2. Insertion!Appending = {}
    BY <1>1, <1>4, <2>1 DEF Inside
  <2> QED
    BY <1>1, <1>2, <2>1, <2>2
<1>6. Newest' = Newest
  BY <1>1 DEF Newest
<1>7. Unraced'
  <2> SUFFICES ASSUME ~raced'
               PROVE  pc # "trapped" /\ Newest.count <= Len(Newest.slots) /\ OneAppends' /\ Progress' /\ HoldsDone'
    BY <1>1, <1>6 DEF Unraced
  <2>1. /\ ~raced /\ \A j \in ItemTexts : at[j] \notin Inside
    BY <1>1, <1>4
  <2>2. pc # "trapped" /\ Newest.count <= Len(Newest.slots) /\ OneAppends /\ Progress /\ HoldsDone
    BY <2>1 DEF InsertInv, Unraced
  <2>3. OneAppends'
    BY <1>2, <2>1 DEF OneAppends
  <2>4. Progress'
    BY <1>1, <1>2, <1>6, <2>1 DEF Progress, Inside
  <2>5. \A p : Filled(p)' <=> Filled(p)
    BY <1>2, <1>6, <2>1 DEF Filled, Inside
  <2>6. HoldsDone'
    BY <1>1, <1>2, <1>6, <2>2, <2>5 DEF HoldsDone
  <2> QED
    BY <2>2, <2>3, <2>4, <2>6
<1> QED
  BY <1>3, <1>5, <1>7 DEF InsertInv

\* What is true of every child inside append, and of the others, when it takes its next part.
LEMMA InsideStep ==
  ASSUME InsertInv, NEW i \in ItemTexts, at[i] \in Inside, ~raced
  PROVE  /\ \A j \in ItemTexts : j # i => at[j] \notin Inside
         /\ pc # "trapped" /\ Newest.count <= Len(Newest.slots) /\ OneAppends /\ Progress /\ HoldsDone
  BY DEF InsertInv, Unraced, OneAppends

\* A step inside append that leaves the newest buffer, or puts in its place one with the same
\* elements and room for one more.
LEMMA RoomStep ==
  ASSUME InsertInv, NEW i \in ItemTexts,
         Insertion!HasRoom(i) \/ Insertion!Replace(i)
  PROVE  InsertInv'
<1>1. /\ UNCHANGED <<threads, oldCount, buffer, memory, raced, pc>>
      /\ at[i] \in {"reserve", "replace"} /\ at' = [at EXCEPT ![i] = "count"]
      /\ at[i] = "reserve" => indexItems' = indexItems /\ oldCount[i] < Len(Newest.slots)
      /\ at[i] = "replace" => indexItems' = buffer[i]
  BY NewestType DEF InsertInv, Insertion!HasRoom, Insertion!Replace
<1>2. /\ at \in [ItemTexts -> Insertion!Stages] /\ at' \in [ItemTexts -> Insertion!Stages]
      /\ at'[i] = "count" /\ \A j \in ItemTexts : j # i => at'[j] = at[j]
  BY <1>1 DEF InsertInv, InsertType, Insertion!Stages
<1>3. InsertType'
  BY <1>1, <1>2 DEF InsertInv, InsertType
<1>4. OneByOne'
  BY <1>1, <1>2 DEF InsertInv, OneByOne
<1>5. Unraced'
  <2> SUFFICES ASSUME ~raced
               PROVE  pc # "trapped" /\ Newest'.count <= Len(Newest'.slots) /\ OneAppends' /\ Progress' /\ HoldsDone'
    BY <1>1 DEF Unraced
  <2>1. /\ \A j \in ItemTexts : j # i => at[j] \notin Inside
        /\ pc # "trapped" /\ Newest.count <= Len(Newest.slots) /\ OneAppends /\ Progress /\ HoldsDone
    BY <1>1, InsideStep DEF Inside
  <2>2. Newest \in Buffers /\ Newest' \in Buffers /\ Newest.count \in Nat /\ Len(Newest'.slots) \in Nat
    <3>1. memory' \in Seq(Buffers) /\ indexItems' \in 1..Len(memory')
      BY <1>3 DEF InsertType
    <3>2. Newest' \in Buffers
      BY <3>1 DEF Newest
    <3> QED
      BY <3>2, NewestType DEF InsertInv, Buffers
  <2>3. /\ Newest'.count = Newest.count /\ Newest.count < Len(Newest'.slots)
        /\ \A p \in 1..Newest.count : Newest'.slots[p] = Newest.slots[p]
    <3>1. CASE at[i] = "reserve"
      BY <1>1, <2>1, <3>1 DEF Newest, Progress
    <3>2. CASE at[i] = "replace"
      <4>1. Newest' = memory[buffer[i]]
        BY <1>1, <3>2 DEF Newest
      <4> QED
        BY <2>1, <3>2, <4>1 DEF Progress
    <3> QED
      BY <1>1, <3>1, <3>2
  <2>4. OneAppends'
    BY <1>2, <2>1 DEF OneAppends
  <2>5. Progress'
    BY <1>1, <1>2, <2>1, <2>3 DEF Progress, Inside
  <2>6. \A p : (Filled(p)' <=> Filled(p)) /\ (Filled(p) => Newest'.slots[p] = Newest.slots[p])
    BY <1>1, <1>2, <2>1, <2>3 DEF Filled, Inside
  <2>7. HoldsDone'
    BY <1>1, <1>2, <2>1, <2>6 DEF HoldsDone
  <2> QED
    BY <2>1, <2>2, <2>3, <2>4, <2>5, <2>7
<1> QED
  BY <1>3, <1>4, <1>5 DEF InsertInv

\* A larger buffer has the elements of the old one.
LEMMA GrownFacts ==
  ASSUME NEW a \in Buffers, NEW n \in Nat
  PROVE  /\ Insertion!Grown(a, n) \in Buffers /\ Insertion!Grown(a, n).count = a.count
         /\ Len(Insertion!Grown(a, n).slots) >= n
         /\ a.count <= Len(a.slots) /\ a.count <= n =>
              \A p \in 1..a.count : Insertion!Grown(a, n).slots[p] = a.slots[p]
<1> DEFINE m == Insertion!Larger(2 * Len(a.slots), n)
           s == [p \in 1..m |-> IF p <= a.count /\ p <= Len(a.slots) THEN a.slots[p] ELSE None]
<1>1. a.slots \in Seq(ItemTexts \cup {None}) /\ a.count \in Nat /\ Len(a.slots) \in Nat
  BY DEF Buffers
<1>2. m \in Nat /\ m >= n
  BY <1>1 DEF Insertion!Larger
<1> HIDE DEF m
<1>3. \A p \in 1..m : p <= a.count /\ p <= Len(a.slots) => a.slots[p] \in ItemTexts \cup {None}
  BY <1>1, <1>2
<1>4. s \in Seq(ItemTexts \cup {None}) /\ Len(s) = m
  BY <1>2, <1>3
<1>5. Insertion!Grown(a, n) = [slots |-> s, count |-> a.count]
  BY DEF Insertion!Grown, m
<1>6. \A p \in 1..m : s[p] = IF p <= a.count /\ p <= Len(a.slots) THEN a.slots[p] ELSE None
  OBVIOUS
<1> HIDE DEF s
<1>7. Insertion!Grown(a, n) \in Buffers
  BY <1>1, <1>4, <1>5 DEF Buffers
<1> QED
  BY <1>1, <1>2, <1>4, <1>5, <1>6, <1>7

\* A larger buffer is made beside the array's.
LEMMA GrowStep ==
  ASSUME InsertInv, NEW i \in ItemTexts, Insertion!Grow(i)
  PROVE  InsertInv'
<1> DEFINE g == Insertion!Grown(Newest, oldCount[i] + 1)
<1>1. /\ UNCHANGED <<threads, oldCount, indexItems, raced, pc>> /\ at[i] = "reserve"
      /\ at' = [at EXCEPT ![i] = "replace"] /\ memory' = Append(memory, g)
      /\ buffer' = [buffer EXCEPT ![i] = Len(memory')]
  BY NewestType DEF InsertInv, Insertion!Grow
<1>2. Newest \in Buffers /\ Newest.count \in Nat /\ oldCount[i] + 1 \in Nat /\ oldCount[i] \in Nat
  BY NewestType DEF InsertInv, InsertType
<1>3. /\ g \in Buffers /\ g.count = Newest.count /\ Len(g.slots) >= oldCount[i] + 1
      /\ Newest.count <= Len(Newest.slots) /\ Newest.count <= oldCount[i] + 1 =>
           \A p \in 1..Newest.count : g.slots[p] = Newest.slots[p]
  BY <1>2, GrownFacts
<1> HIDE DEF g
<1>4. /\ memory' \in Seq(Buffers) /\ Len(memory') = Len(memory) + 1 /\ Len(memory) \in Nat
      /\ memory'[Len(memory')] = g /\ \A b \in 1..Len(memory) : memory'[b] = memory[b]
  BY <1>1, <1>3 DEF InsertInv, InsertType
<1>5. /\ at \in [ItemTexts -> Insertion!Stages] /\ at' \in [ItemTexts -> Insertion!Stages]
      /\ at'[i] = "replace" /\ \A j \in ItemTexts : j # i => at'[j] = at[j]
      /\ buffer' \in [ItemTexts -> 0..Len(memory')] /\ buffer'[i] = Len(memory')
      /\ \A j \in ItemTexts : j # i => buffer'[j] = buffer[j]
  BY <1>1, <1>4 DEF InsertInv, InsertType, Insertion!Stages
<1>6. InsertType'
  BY <1>1, <1>4, <1>5 DEF InsertInv, InsertType
<1>7. OneByOne'
  BY <1>1, <1>5 DEF InsertInv, OneByOne
<1>8. Newest' = Newest
  BY <1>1, <1>4 DEF Newest, InsertInv, InsertType
<1>9. Unraced'
  <2> SUFFICES ASSUME ~raced
               PROVE  pc # "trapped" /\ Newest.count <= Len(Newest.slots) /\ OneAppends' /\ Progress' /\ HoldsDone'
    BY <1>1, <1>8 DEF Unraced
  <2>1. /\ \A j \in ItemTexts : j # i => at[j] \notin Inside
        /\ pc # "trapped" /\ Newest.count <= Len(Newest.slots) /\ OneAppends /\ Progress /\ HoldsDone
    BY <1>1, InsideStep DEF Inside
  <2>2. OneAppends'
    BY <1>5, <2>1 DEF OneAppends
  <2>3. Progress'
    <3>1. oldCount[i] = Newest.count
      BY <1>1, <2>1 DEF Progress
    <3>2. memory'[buffer'[i]] = g
      BY <1>4, <1>5
    <3>3. Len(g.slots) \in Nat
      BY <1>3 DEF Buffers
    <3>4. /\ g.count = Newest.count /\ Newest.count < Len(g.slots)
          /\ \A p \in 1..Newest.count : g.slots[p] = Newest.slots[p]
      BY <1>2, <1>3, <2>1, <3>1, <3>3
    <3>5. \A j \in ItemTexts : j # i => at'[j] \notin {"reserve", "replace", "count", "write"}
      BY <1>5, <2>1 DEF Inside
    <3> QED
      BY <1>1, <1>5, <1>8, <3>1, <3>2, <3>4, <3>5 DEF Progress
  <2>4. \A p : Filled(p)' <=> Filled(p)
    BY <1>1, <1>5, <1>8 DEF Filled
  <2>5. HoldsDone'
    BY <1>1, <1>5, <1>8, <2>1, <2>4 DEF HoldsDone
  <2> QED
    BY <2>1, <2>2, <2>3, <2>5
<1> QED
  BY <1>6, <1>7, <1>9 DEF InsertInv

\* The count goes up by one; the new slot is not filled yet.
LEMMA StoreStep ==
  ASSUME InsertInv, NEW i \in ItemTexts, Insertion!StoreCount(i)
  PROVE  InsertInv'
<1>1. /\ UNCHANGED <<threads, oldCount, buffer, indexItems, raced, pc>> /\ at[i] = "count"
      /\ at' = [at EXCEPT ![i] = "write"]
      /\ memory' = [memory EXCEPT ![indexItems] = [Newest EXCEPT !.count = oldCount[i] + 1]]
  BY DEF Insertion!StoreCount, Newest
<1>2. /\ Newest \in Buffers /\ Newest.count \in Nat /\ oldCount[i] \in Nat /\ oldCount[i] + 1 \in Nat
      /\ memory \in Seq(Buffers) /\ indexItems \in 1..Len(memory) /\ Len(Newest.slots) \in Nat
  BY NewestType DEF InsertInv, InsertType
<1>3. [Newest EXCEPT !.count = oldCount[i] + 1] \in Buffers
  BY <1>2 DEF Buffers
<1>4. /\ memory' \in Seq(Buffers) /\ Len(memory') = Len(memory)
      /\ memory'[indexItems] = [Newest EXCEPT !.count = oldCount[i] + 1]
  BY <1>1, <1>2, <1>3
<1>5. /\ at \in [ItemTexts -> Insertion!Stages] /\ at' \in [ItemTexts -> Insertion!Stages]
      /\ at'[i] = "write" /\ \A j \in ItemTexts : j # i => at'[j] = at[j]
  BY <1>1 DEF InsertInv, InsertType, Insertion!Stages
<1>6. InsertType'
  BY <1>1, <1>2, <1>4, <1>5 DEF InsertInv, InsertType
<1>7. OneByOne'
  BY <1>1, <1>5 DEF InsertInv, OneByOne
<1>8. Newest'.count = oldCount[i] + 1 /\ Newest'.slots = Newest.slots
  BY <1>1, <1>2, <1>4 DEF Newest, Buffers
<1>9. Unraced'
  <2> SUFFICES ASSUME ~raced
               PROVE  pc # "trapped" /\ Newest'.count <= Len(Newest.slots) /\ OneAppends' /\ Progress' /\ HoldsDone'
    BY <1>1, <1>8 DEF Unraced
  <2>1. /\ \A j \in ItemTexts : j # i => at[j] \notin Inside
        /\ pc # "trapped" /\ Newest.count <= Len(Newest.slots) /\ OneAppends /\ Progress /\ HoldsDone
    BY <1>1, InsideStep DEF Inside
  <2>2. oldCount[i] = Newest.count /\ Newest.count < Len(Newest.slots)
    BY <1>1, <2>1 DEF Progress
  <2>3. OneAppends'
    BY <1>5, <2>1 DEF OneAppends
  <2>4. Progress'
    BY <1>1, <1>5, <1>8, <2>1 DEF Progress, Inside
  <2>5. \A p \in Nat : Filled(p)' <=> Filled(p)
    <3> SUFFICES ASSUME NEW p \in Nat
                 PROVE  Filled(p)' <=> Filled(p)
      OBVIOUS
    <3>1. Filled(p) <=> p \in 1..Newest.count
      BY <1>1, <2>1 DEF Filled, Inside
    <3>2. Filled(p)' <=> p \in 1..(oldCount[i] + 1) /\ p <= oldCount[i]
      BY <1>1, <1>5, <1>8, <2>1 DEF Filled, Inside
    <3> QED
      BY <1>2, <2>2, <3>1, <3>2
  <2>6. HoldsDone'
    <3>1. \A j \in ItemTexts : at'[j] = "done" <=> at[j] = "done"
      BY <1>1, <1>5
    <3> QED
      BY <1>8, <2>1, <2>5, <3>1 DEF HoldsDone
  <2> QED
    BY <1>2, <1>8, <2>1, <2>2, <2>3, <2>4, <2>6
<1> QED
  BY <1>6, <1>7, <1>9 DEF InsertInv

\* The slot is initialised, and with it the child's item is in the array.
LEMMA WriteStep ==
  ASSUME InsertInv, NEW i \in ItemTexts, Insertion!Write(i)
  PROVE  InsertInv'
<1>0. PICK n \in Nat : n = oldCount[i] + 1
  BY DEF InsertInv, InsertType
<1> DEFINE s == [Newest.slots EXCEPT ![n] = i]
<1>1. /\ UNCHANGED <<threads, oldCount, buffer, indexItems, raced, pc>> /\ at[i] = "write"
      /\ at' = [at EXCEPT ![i] = "done"] /\ oldCount[i] < Len(Newest.slots)
      /\ memory' = [memory EXCEPT ![indexItems] = [Newest EXCEPT !.slots = s]]
  BY <1>0, NewestType DEF InsertInv, Insertion!Write, Newest
<1>2. /\ Newest \in Buffers /\ Newest.count \in Nat /\ oldCount[i] \in Nat /\ n \in Nat
      /\ memory \in Seq(Buffers) /\ indexItems \in 1..Len(memory) /\ Len(Newest.slots) \in Nat
      /\ Newest.slots \in Seq(ItemTexts \cup {None})
  BY <1>0, NewestType DEF InsertInv, InsertType
<1>3. n \in 1..Len(Newest.slots)
  BY <1>0, <1>1, <1>2
<1>4. /\ s \in Seq(ItemTexts \cup {None}) /\ Len(s) = Len(Newest.slots)
      /\ s[n] = i /\ \A p \in 1..Len(Newest.slots) : p # n => s[p] = Newest.slots[p]
  BY <1>2, <1>3
<1> HIDE DEF s
<1>5. [Newest EXCEPT !.slots = s] \in Buffers
  BY <1>2, <1>4 DEF Buffers
<1>6. /\ memory' \in Seq(Buffers) /\ Len(memory') = Len(memory)
      /\ memory'[indexItems] = [Newest EXCEPT !.slots = s]
  BY <1>1, <1>2, <1>5
<1>7. /\ at \in [ItemTexts -> Insertion!Stages] /\ at' \in [ItemTexts -> Insertion!Stages]
      /\ at'[i] = "done" /\ \A j \in ItemTexts : j # i => at'[j] = at[j]
  BY <1>1 DEF InsertInv, InsertType, Insertion!Stages
<1>8. InsertType'
  BY <1>1, <1>2, <1>6, <1>7 DEF InsertInv, InsertType
<1>9. OneByOne'
  BY <1>1, <1>7 DEF InsertInv, OneByOne
<1>10. Newest'.count = Newest.count /\ Newest'.slots = s
  BY <1>1, <1>2, <1>6 DEF Newest, Buffers
<1>11. Unraced'
  <2> SUFFICES ASSUME ~raced
               PROVE  pc # "trapped" /\ Newest.count <= Len(s) /\ OneAppends' /\ Progress' /\ HoldsDone'
    BY <1>1, <1>10 DEF Unraced
  <2>1. /\ \A j \in ItemTexts : j # i => at[j] \notin Inside
        /\ pc # "trapped" /\ Newest.count <= Len(Newest.slots) /\ OneAppends /\ Progress /\ HoldsDone
    BY <1>1, InsideStep DEF Inside
  <2>2. Newest.count = n
    BY <1>0, <1>1, <2>1 DEF Progress
  <2>3. OneAppends'
    BY <1>7, <2>1 DEF OneAppends, Inside
  <2>4. Progress'
    BY <1>7, <2>1 DEF Progress, Inside
  <2>5. \A p \in Nat : /\ Filled(p) <=> p \in 1..oldCount[i]
                       /\ Filled(p)' <=> p \in 1..n
    <3> SUFFICES ASSUME NEW p \in Nat
                 PROVE  (Filled(p) <=> p \in 1..oldCount[i]) /\ (Filled(p)' <=> p \in 1..n)
      OBVIOUS
    <3>1. Filled(p) <=> p \in 1..n /\ p <= oldCount[i]
      BY <1>1, <2>1, <2>2 DEF Filled, Inside
    <3>2. Filled(p)' <=> p \in 1..n
      BY <1>7, <1>10, <2>1, <2>2 DEF Filled, Inside
    <3> QED
      BY <1>0, <1>2, <3>1, <3>2
  <2>6. \A p \in 1..oldCount[i] : s[p] = Newest.slots[p] /\ Filled(p)
    <3> SUFFICES ASSUME NEW p \in 1..oldCount[i]
                 PROVE  s[p] = Newest.slots[p] /\ Filled(p)
      OBVIOUS
    <3>1. p \in Nat /\ p # n /\ p \in 1..Len(Newest.slots)
      BY <1>0, <1>2, <1>3
    <3> QED
      BY <1>4, <2>5, <3>1
  <2>7. \A p \in Nat : Filled(p)' => p = n \/ p \in 1..oldCount[i]
    BY <1>0, <1>2, <2>5
  <2>8. n \in Nat /\ Filled(n)' /\ s[n] = i /\ (\A p \in 1..oldCount[i] : p \in Nat /\ Filled(p)')
    BY <1>0, <1>2, <1>4, <2>5
  <2>9. \A p \in 1..oldCount[i] : s[p] \in ItemTexts /\ at[s[p]] = "done" /\ s[p] # i
    BY <1>1, <2>1, <2>6 DEF HoldsDone
  <2>10. \A p \in Nat : Filled(p)' => s[p] \in ItemTexts /\ at'[s[p]] = "done"
    BY <1>7, <2>7, <2>8, <2>9
  <2>11. \A p, q \in Nat : Filled(p)' /\ Filled(q)' /\ s[p] = s[q] => p = q
    <3> SUFFICES ASSUME NEW p \in Nat, NEW q \in Nat, Filled(p)', Filled(q)', s[p] = s[q]
                 PROVE  p = q
      OBVIOUS
    <3>1. CASE p = n \/ q = n
      BY <2>7, <2>8, <2>9, <3>1
    <3>2. CASE p \in 1..oldCount[i] /\ q \in 1..oldCount[i]
      BY <2>1, <2>6, <3>2 DEF HoldsDone
    <3> QED
      BY <2>7, <3>1, <3>2
  <2>12. \A j \in ItemTexts : at'[j] = "done" => \E p \in Nat : Filled(p)' /\ s[p] = j
    <3> SUFFICES ASSUME NEW j \in ItemTexts, at'[j] = "done"
                 PROVE  \E p \in Nat : Filled(p)' /\ s[p] = j
      OBVIOUS
    <3>1. CASE j = i
      BY <2>8, <3>1
    <3>2. CASE j # i
      <4>1. PICK p \in Nat : Filled(p) /\ Newest.slots[p] = j
        BY <1>7, <2>1, <3>2 DEF HoldsDone
      <4> QED
        BY <2>5, <2>6, <2>8, <4>1
    <3> QED
      BY <3>1, <3>2
  <2>13. HoldsDone'
    BY <1>10, <2>10, <2>11, <2>12 DEF HoldsDone
  <2> QED
    BY <1>4, <2>1, <2>3, <2>4, <2>13
<1> QED
  BY <1>8, <1>9, <1>11 DEF InsertInv

\* The rest moves addItems itself, and the array stays.
LEMMA AddItemsStep ==
  ASSUME InsertInv, Insertion!Next
  PROVE  InsertInv'
<1>1. CASE \E i \in ItemTexts : Insertion!Child(i)
  BY <1>1, BeginStep, ReadCountStep, RoomStep, GrowStep, StoreStep, WriteStep DEF Insertion!Child
<1>2. CASE (\E i \in ItemTexts : Insertion!Trap(i)) \/ Insertion!Resume
  <2>1. /\ UNCHANGED <<threads, at, oldCount, buffer, memory, indexItems, raced>>
        /\ pc' \in {"trapped", "drain", "returned"} /\ (pc' = "trapped" => raced)
        /\ pc' = "returned" => \A j \in ItemTexts : at[j] = "done"
    BY <1>2 DEF Insertion!Trap, Insertion!Resume, Insertion!FirstDone, Insertion!Return
  <2>2. InsertType'
    BY <2>1 DEF InsertInv, InsertType
  <2>3. OneByOne'
    BY <2>1 DEF InsertInv, OneByOne
  <2>4. Newest' = Newest /\ OneAppends' = OneAppends /\ Progress' = Progress
    BY <2>1 DEF Newest, OneAppends, Progress
  <2>5. HoldsDone' = HoldsDone
    BY <2>1 DEF Newest, HoldsDone, Filled
  <2>6. Unraced'
    BY <2>1, <2>4, <2>5 DEF InsertInv, Unraced
  <2> QED
    BY <2>2, <2>3, <2>6 DEF InsertInv
<1> QED
  BY <1>1, <1>2 DEF Insertion!Next, Insertion!RunChild

\* The array is empty at the start.
LEMMA InsertInit ==
  ASSUME Insertion!Init
  PROVE  InsertInv
<1> DEFINE s == <<None>>
           r == [slots |-> s, count |-> 0]
<1>1. s \in Seq(ItemTexts \cup {None}) /\ Len(s) = 1
  OBVIOUS
<1> HIDE DEF s
<1>2. r \in Buffers /\ Len(r.slots) = 1 /\ r.count = 0
  BY <1>1 DEF Buffers
<1> HIDE DEF r
<1>3. memory = <<r>>
  BY DEF Insertion!Init, r, s
<1>4. memory \in Seq(Buffers) /\ Len(memory) = 1 /\ memory[1] = r
  BY <1>2, <1>3
<1>5. /\ threads \in Pools /\ at = [i \in ItemTexts |-> "new"] /\ pc = "next" /\ indexItems = 1
      /\ buffer = [i \in ItemTexts |-> 0] /\ oldCount = [i \in ItemTexts |-> 0] /\ raced = FALSE
  BY DEF Insertion!Init, Insertion!Free
<1>6. InsertType
  <2>1. at \in [ItemTexts -> Insertion!Stages] /\ \A i \in ItemTexts : at[i] = "new"
    BY <1>5 DEF Insertion!Stages
  <2>2. /\ buffer \in [ItemTexts -> 0..Len(memory)] /\ oldCount \in [ItemTexts -> Nat]
        /\ indexItems \in 1..Len(memory)
    BY <1>4, <1>5
  <2> QED
    BY <1>4, <1>5, <2>1, <2>2 DEF InsertType
<1>7. OneByOne /\ OneAppends /\ Progress
  BY <1>5 DEF OneByOne, OneAppends, Progress, Inside
<1>8. Newest = r
  BY <1>4, <1>5 DEF Newest
<1>9. \A p : ~Filled(p)
  BY <1>2, <1>8 DEF Filled
<1>10. HoldsDone
  BY <1>5, <1>9 DEF HoldsDone
<1> QED
  BY <1>2, <1>5, <1>6, <1>7, <1>8, <1>10 DEF InsertInv, Unraced

\* When every child is done no slot is left to be filled, and the array's items are the texts.
LEMMA ItemsCorrect ==
  ASSUME InsertInv
  PROVE  Insertion!Correct
<1> DEFINE items == SubSeq(Newest.slots, 1, Newest.count)
<1>1. /\ Newest \in Buffers /\ Newest.slots \in Seq(ItemTexts \cup {None}) /\ Newest.count \in Nat
      /\ Len(Newest.slots) \in Nat /\ Insertion!Array = Newest
  BY NewestType DEF InsertInv
<1>2. Insertion!Items = items
  BY <1>1 DEF Insertion!Items
<1>3. Insertion!TypeOK
  <2>1. \A i \in ItemTexts : buffer[i] \in 0..Len(memory)
    BY DEF InsertInv, InsertType
  <2>2. ~raced => Newest.count <= Len(Newest.slots)
    BY DEF InsertInv, Unraced
  <2>3. DOMAIN memory = 1..Len(memory)
    BY DEF InsertInv, InsertType
  <2> QED
    BY <1>1, <2>2, <2>3 DEF InsertInv, InsertType, Insertion!TypeOK, Insertion!Free, Buffers
<1>4. ASSUME ~raced, pc = "returned"
      PROVE  Insertion!IsInjective(items) /\ Insertion!ToSet(items) = ItemTexts
  <2>1. Newest.count <= Len(Newest.slots) /\ HoldsDone
    BY <1>4 DEF InsertInv, Unraced
  <2>2. \A i \in ItemTexts : at[i] = "done"
    BY <1>4 DEF InsertInv, InsertType
  <2>3. \A p \in Nat : Filled(p) <=> p \in 1..Newest.count
    BY <2>2 DEF Filled
  <2>4. Len(items) = Newest.count /\ \A p \in 1..Newest.count : items[p] = Newest.slots[p]
    BY <1>1, <2>1, SubSeqProperties
  <2>5. items \in Seq(ItemTexts \cup {None})
    <3>1. items = [p \in 1..Newest.count |-> Newest.slots[p]]
      BY <1>1, <2>1
    <3> QED
      BY <1>1, <2>1, <3>1
  <2> HIDE DEF items
  <2>6. DOMAIN items = 1..Newest.count
    BY <1>1, <2>4, <2>5
  <2>7. \A p \in 1..Newest.count : p \in Nat /\ Filled(p)
    BY <1>1, <2>3
  <2>8. Insertion!IsInjective(items)
    <3> SUFFICES ASSUME NEW p \in 1..Newest.count, NEW q \in 1..Newest.count, items[p] = items[q]
                 PROVE  p = q
      BY <2>6 DEF Insertion!IsInjective
    <3> QED
      BY <2>1, <2>4, <2>7 DEF HoldsDone
  <2>9. \A p \in 1..Newest.count : items[p] \in ItemTexts
    BY <2>1, <2>4, <2>7 DEF HoldsDone
  <2>10. \A i \in ItemTexts : \E p \in 1..Newest.count : items[p] = i
    <3> SUFFICES ASSUME NEW i \in ItemTexts
                 PROVE  \E p \in 1..Newest.count : items[p] = i
      OBVIOUS
    <3>1. PICK p \in Nat : Filled(p) /\ Newest.slots[p] = i
      BY <2>1, <2>2 DEF HoldsDone
    <3> QED
      BY <2>3, <2>4, <3>1
  <2> QED
    BY <2>6, <2>8, <2>9, <2>10 DEF Insertion!ToSet
<1>5. Insertion!EachAddedOnce
  BY <1>2, <1>4 DEF InsertInv, Unraced, Insertion!EachAddedOnce
<1>6. Insertion!OneThreadNoRace
  BY DEF InsertInv, OneByOne, Insertion!OneThreadNoRace
<1> QED
  BY <1>3, <1>5, <1>6 DEF Insertion!Correct

------------------------------------------------------------------------------
(* CharacterSplitter *)

CharacterType ==
    /\ chunkSize \in WordCounts /\ overlapSize \in Overlaps
    /\ components \in 1..MaxWords /\ read \in 0..components
    /\ currentChunk \in Seq(1..components) /\ currentCount = Len(currentChunk)
    /\ chunks \in Seq(Seq(1..components))
    /\ pc \in {"loop", "done"}
    /\ read > 0 => currentChunk # << >>

\* The word chunk k starts with.
Start(k) == (k - 1) * (chunkSize - overlapSize) + 1

\* Below the size, the chunk being collected starts where the next window does, and those
\* before it are whole windows with a word behind them.
Sliding ==
    pc = "loop" /\ overlapSize < chunkSize =>
        LET s == Start(Len(chunks) + 1) IN
        /\ Len(currentChunk) <= chunkSize /\ read = s + Len(currentChunk) - 1
        /\ \A i \in 1..Len(currentChunk) : currentChunk[i] = s + i - 1
        /\ \A k \in 1..Len(chunks) : /\ chunks[k] = [i \in 1..chunkSize |-> Start(k) + i - 1]
                                     /\ Start(k) + chunkSize - 1 < read

CharacterInv == CharacterType /\ Characters!NoWordLost /\ Sliding /\ (pc = "done" => Characters!ChunksAreWindows)

\* The words of all chunks.
Words(c) == UNION {Characters!ToSet(c[k]) : k \in DOMAIN c}

\* One more chunk brings its words.
LEMMA AppendWords ==
  ASSUME NEW S, NEW c \in Seq(Seq(S)), NEW s \in Seq(S)
  PROVE  Words(Append(c, s)) = Words(c) \cup Characters!ToSet(s)
<1>1. /\ DOMAIN Append(c, s) = 1..(Len(c) + 1) /\ DOMAIN c = 1..Len(c) /\ Len(c) \in Nat
      /\ \A k \in 1..Len(c) : Append(c, s)[k] = c[k]
      /\ Append(c, s)[Len(c) + 1] = s
  OBVIOUS
<1>2. 1..(Len(c) + 1) = (1..Len(c)) \cup {Len(c) + 1}
  BY <1>1
<1> QED
  BY <1>1, <1>2, Zenon DEF Words

\* One more word is in the chunk.
LEMMA AppendSet ==
  ASSUME NEW S, NEW s \in Seq(S), NEW w \in S
  PROVE  Characters!ToSet(Append(s, w)) = Characters!ToSet(s) \cup {w}
<1>1. /\ DOMAIN Append(s, w) = 1..(Len(s) + 1) /\ DOMAIN s = 1..Len(s) /\ Len(s) \in Nat
      /\ \A k \in 1..Len(s) : Append(s, w)[k] = s[k]
      /\ Append(s, w)[Len(s) + 1] = w
  OBVIOUS
<1>2. 1..(Len(s) + 1) = (1..Len(s)) \cup {Len(s) + 1}
  BY <1>1
<1> QED
  BY <1>1, <1>2, Zenon DEF Characters!ToSet

\* A full chunk hands on its last words: as many as the overlap says, or all it has.
LEMMA HandedOnFacts ==
  ASSUME NEW S, NEW s \in Seq(S), overlapSize \in Nat
  PROVE  LET h == Characters!HandedOn(s) IN
         /\ h \in Seq(S) /\ Characters!ToSet(h) \subseteq Characters!ToSet(s)
         /\ overlapSize <= Len(s) => Len(h) = overlapSize
         /\ overlapSize <= Len(s) =>
               \A i \in 1..overlapSize : h[i] = s[Len(s) - overlapSize + i]
<1> DEFINE m == Characters!Greater(0, Len(s) - overlapSize) + 1
           h == Characters!HandedOn(s)
<1>1. Len(s) \in Nat
  OBVIOUS
<1>2. m \in 1..(Len(s) + 1) /\ (overlapSize <= Len(s) => m = Len(s) - overlapSize + 1)
  BY <1>1 DEF Characters!Greater
<1>3. h = SubSeq(s, m, Len(s))
  BY DEF Characters!HandedOn
<1> HIDE DEF m, h
<1>4. h = [i \in 1..(Len(s) - m + 1) |-> s[i + m - 1]]
  BY <1>1, <1>2, <1>3
<1>5. Len(s) - m + 1 \in Nat /\ \A i \in 1..(Len(s) - m + 1) : i + m - 1 \in 1..Len(s)
  BY <1>1, <1>2
<1>6. h \in Seq(S) /\ Len(h) = Len(s) - m + 1
  BY <1>4, <1>5
<1>7. Characters!ToSet(h) \subseteq Characters!ToSet(s)
  <2>1. DOMAIN h = 1..(Len(s) - m + 1) /\ DOMAIN s = 1..Len(s)
    BY <1>4
  <2> QED
    BY <1>4, <1>5, <2>1 DEF Characters!ToSet
<1>8. ASSUME overlapSize <= Len(s)
      PROVE  /\ Len(h) = overlapSize
             /\ \A i \in 1..overlapSize : h[i] = s[Len(s) - overlapSize + i]
  <2>1. Len(s) - m + 1 = overlapSize
    BY <1>1, <1>2, <1>8
  <2>2. \A i \in 1..overlapSize : i + m - 1 = Len(s) - overlapSize + i
    BY <1>1, <1>2, <1>8
  <2> QED
    BY <1>4, <1>6, <2>1, <2>2
<1> QED
  BY <1>6, <1>7, <1>8 DEF h

\* Sizes are numbers, and each window starts size less overlap behind the last.
LEMMA CharacterConstants ==
  ASSUME CharacterType
  PROVE  /\ chunkSize \in Nat /\ overlapSize \in Nat /\ components \in Nat /\ read \in Nat
         /\ Len(currentChunk) \in Nat /\ Len(chunks) \in Nat
         /\ \A k \in Int : Start(k) \in Int /\ Start(k + 1) = Start(k) + chunkSize - overlapSize
<1>1. chunkSize \in Nat /\ overlapSize \in Nat /\ components \in Nat /\ read \in Nat
  BY ConstantFacts DEF CharacterType
<1>2. Len(currentChunk) \in Nat /\ Len(chunks) \in Nat
  BY DEF CharacterType
<1>3. \A d, k \in Int : (k + 1 - 1) * d + 1 = (k - 1) * d + 1 + d /\ (k - 1) * d + 1 \in Int
  OBVIOUS
<1>4. chunkSize - overlapSize \in Int
  BY <1>1
<1>5. \A k \in Int : Start(k) \in Int /\ Start(k + 1) = Start(k) + chunkSize - overlapSize
  <2> DEFINE d == chunkSize - overlapSize
  <2>1. ASSUME NEW k \in Int
        PROVE  Start(k) \in Int /\ Start(k + 1) = Start(k) + d
    BY <1>3, <1>4 DEF Start
  <2> QED
    BY <1>1, <2>1
<1> QED
  BY <1>1, <1>2, <1>5

\* A word that has room continues the window.
LEMMA CollectStep ==
  ASSUME CharacterInv, Characters!Collect
  PROVE  CharacterInv'
<1>1. /\ UNCHANGED <<chunkSize, overlapSize, components, chunks, pc>>
      /\ pc = "loop" /\ read < components /\ currentCount < chunkSize
      /\ currentChunk' = Append(currentChunk, read + 1)
      /\ currentCount' = currentCount + 1 /\ read' = read + 1
  BY DEF Characters!Collect
<1>2. CharacterType
  BY DEF CharacterInv
<1>3. /\ chunkSize \in Nat /\ overlapSize \in Nat /\ components \in Nat /\ read \in Nat
      /\ Len(currentChunk) \in Nat /\ Len(chunks) \in Nat
  BY <1>2, CharacterConstants
<1>s. \A k \in Int : Start(k) \in Int
  BY <1>2, CharacterConstants
<1>4. read + 1 \in 1..components /\ currentChunk \in Seq(1..components)
  BY <1>1, <1>2, <1>3 DEF CharacterType
<1>5. /\ currentChunk' \in Seq(1..components) /\ Len(currentChunk') = Len(currentChunk) + 1
      /\ \A i \in 1..Len(currentChunk) : currentChunk'[i] = currentChunk[i]
      /\ currentChunk'[Len(currentChunk) + 1] = read + 1
  BY <1>1, <1>4
<1>6. CharacterType'
  <2>1. currentChunk' # << >>
    BY <1>3, <1>5
  <2>2. read' \in 0..components /\ currentCount' = Len(currentChunk')
    BY <1>1, <1>2, <1>3, <1>5 DEF CharacterType
  <2> QED
    BY <1>1, <1>2, <1>5, <2>1, <2>2 DEF CharacterType
<1>7. Characters!NoWordLost'
  <2>1. Characters!ToSet(currentChunk') = Characters!ToSet(currentChunk) \cup {read + 1}
    <3>1. Characters!ToSet(Append(currentChunk, read + 1)) = Characters!ToSet(currentChunk) \cup {read + 1}
      <4> DEFINE W == 1..components
      <4>1. currentChunk \in Seq(W) /\ read + 1 \in W
        BY <1>4
      <4> HIDE DEF W
      <4> QED
        BY <4>1, AppendSet
    <3> QED
      BY <1>1, <3>1
  <2>2. Characters!ToSet(currentChunk) \cup Words(chunks) = 1..read
    BY DEF CharacterInv, Characters!NoWordLost, Words
  <2>3. 1..(read + 1) = (1..read) \cup {read + 1}
    BY <1>3
  <2>4. Characters!ToSet(currentChunk') \cup Words(chunks) = 1..read'
    BY <1>1, <2>1, <2>2, <2>3
  <2> QED
    BY <1>1, <2>4 DEF Characters!NoWordLost, Words
<1>8. Sliding'
  <2> SUFFICES ASSUME overlapSize < chunkSize
               PROVE  LET s == Start(Len(chunks) + 1) IN
                      /\ Len(currentChunk') <= chunkSize /\ read' = s + Len(currentChunk') - 1
                      /\ \A i \in 1..Len(currentChunk') : currentChunk'[i] = s + i - 1
                      /\ \A k \in 1..Len(chunks) :
                            /\ chunks[k] = [i \in 1..chunkSize |-> Start(k) + i - 1]
                            /\ Start(k) + chunkSize - 1 < read'
    BY <1>1 DEF Sliding, Start
  <2> DEFINE s == Start(Len(chunks) + 1)
  <2>1. /\ Len(currentChunk) <= chunkSize /\ read = s + Len(currentChunk) - 1
        /\ \A i \in 1..Len(currentChunk) : currentChunk[i] = s + i - 1
        /\ \A k \in 1..Len(chunks) : /\ chunks[k] = [i \in 1..chunkSize |-> Start(k) + i - 1]
                                     /\ Start(k) + chunkSize - 1 < read
    BY <1>1 DEF CharacterInv, Sliding
  <2>a. /\ Len(currentChunk) <= chunkSize /\ read = s + Len(currentChunk) - 1
        /\ \A i \in 1..Len(currentChunk) : currentChunk[i] = s + i - 1
    BY <2>1
  <2>b. \A k \in 1..Len(chunks) : Start(k) + chunkSize - 1 < read
    BY <2>1
  <2>2. s \in Int
    BY <1>3, <1>s
  <2> HIDE DEF s
  <2>3. Len(currentChunk') <= chunkSize /\ read' = s + Len(currentChunk') - 1
    BY <1>1, <1>2, <1>3, <1>5, <2>1, <2>2 DEF CharacterType
  <2>4. \A i \in 1..Len(currentChunk') : currentChunk'[i] = s + i - 1
    <3>1. ASSUME NEW i \in 1..Len(currentChunk')
          PROVE  currentChunk'[i] = s + i - 1
      <4>1. CASE i \in 1..Len(currentChunk)
        BY <1>5, <2>a, <4>1
      <4>2. CASE i = Len(currentChunk) + 1
        BY <1>3, <1>5, <2>a, <2>2, <4>2
      <4> QED
        BY <1>3, <1>5, <4>1, <4>2
    <3> QED
      BY <3>1
  <2>5. \A k \in 1..Len(chunks) : Start(k) + chunkSize - 1 < read'
    <3>1. \A k \in 1..Len(chunks) : Start(k) \in Int
      BY <1>3, <1>s
    <3> QED
      BY <1>1, <1>3, <2>b, <3>1
  <2> QED
    BY <2>1, <2>3, <2>4, <2>5 DEF s
<1> QED
  BY <1>1, <1>6, <1>7, <1>8 DEF CharacterInv

\* A full chunk is a window, and its tail with the next word begins the next one.
LEMMA FlushStep ==
  ASSUME CharacterInv, Characters!Flush
  PROVE  CharacterInv'
<1> DEFINE h == Characters!HandedOn(currentChunk)
<1>1. /\ UNCHANGED <<chunkSize, overlapSize, components, pc>>
      /\ pc = "loop" /\ read < components /\ currentCount >= chunkSize
      /\ chunks' = Append(chunks, currentChunk)
      /\ currentChunk' = Append(h, read + 1)
      /\ currentCount' = Len(currentChunk') /\ read' = read + 1
  BY DEF Characters!Flush
<1>2. CharacterType
  BY DEF CharacterInv
<1>3. /\ chunkSize \in Nat /\ overlapSize \in Nat /\ components \in Nat /\ read \in Nat
      /\ Len(currentChunk) \in Nat /\ Len(chunks) \in Nat
  BY <1>2, CharacterConstants
<1>s. \A k \in Int : Start(k) \in Int /\ Start(k + 1) = Start(k) + chunkSize - overlapSize
  BY <1>2, CharacterConstants
<1>4. read + 1 \in 1..components /\ currentChunk \in Seq(1..components)
      /\ chunks \in Seq(Seq(1..components))
  BY <1>1, <1>2, <1>3 DEF CharacterType
<1>5. /\ h \in Seq(1..components) /\ Characters!ToSet(h) \subseteq Characters!ToSet(currentChunk)
      /\ overlapSize <= Len(currentChunk) => Len(h) = overlapSize
      /\ overlapSize <= Len(currentChunk) =>
            \A i \in 1..overlapSize : h[i] = currentChunk[Len(currentChunk) - overlapSize + i]
  BY <1>3, <1>4, HandedOnFacts
<1> HIDE DEF h
<1>6. /\ currentChunk' \in Seq(1..components) /\ Len(currentChunk') = Len(h) + 1 /\ Len(h) \in Nat
      /\ \A i \in 1..Len(h) : currentChunk'[i] = h[i]
      /\ currentChunk'[Len(h) + 1] = read + 1
  BY <1>1, <1>4, <1>5
<1>7. /\ chunks' \in Seq(Seq(1..components)) /\ Len(chunks') = Len(chunks) + 1
      /\ \A k \in 1..Len(chunks) : chunks'[k] = chunks[k]
      /\ chunks'[Len(chunks) + 1] = currentChunk
  BY <1>1, <1>4
<1>8. CharacterType'
  <2>1. currentChunk' # << >>
    BY <1>6
  <2>2. read' \in 0..components
    BY <1>1, <1>3
  <2> QED
    BY <1>1, <1>2, <1>6, <1>7, <2>1, <2>2 DEF CharacterType
<1>9. Characters!NoWordLost'
  <2>1. Characters!ToSet(currentChunk') = Characters!ToSet(h) \cup {read + 1}
    <3>1. Characters!ToSet(Append(h, read + 1)) = Characters!ToSet(h) \cup {read + 1}
      <4> DEFINE W == 1..components
      <4>1. h \in Seq(W) /\ read + 1 \in W
        BY <1>4, <1>5
      <4> HIDE DEF W
      <4> QED
        BY <4>1, AppendSet
    <3> QED
      BY <1>1, <3>1
  <2>2. Characters!ToSet(currentChunk) \cup Words(chunks) = 1..read
    BY DEF CharacterInv, Characters!NoWordLost, Words
  <2>3. 1..(read + 1) = (1..read) \cup {read + 1}
    BY <1>3
  <2>4. Words(chunks') = Words(chunks) \cup Characters!ToSet(currentChunk)
    BY <1>1, <1>4, AppendWords
  <2>5. Characters!ToSet(currentChunk') \cup Words(chunks') = 1..read'
    BY <1>1, <1>5, <2>1, <2>2, <2>3, <2>4
  <2> QED
    BY <2>5 DEF Characters!NoWordLost, Words
<1>10. Sliding'
  <2> DEFINE s == Start(Len(chunks) + 1)
             t == Start(Len(chunks) + 1 + 1)
  <2> SUFFICES ASSUME overlapSize < chunkSize
               PROVE  /\ Len(currentChunk') <= chunkSize /\ read' = t + Len(currentChunk') - 1
                      /\ \A i \in 1..Len(currentChunk') : currentChunk'[i] = t + i - 1
                      /\ \A k \in 1..(Len(chunks) + 1) :
                            /\ chunks'[k] = [i \in 1..chunkSize |-> Start(k) + i - 1]
                            /\ Start(k) + chunkSize - 1 < read'
    BY <1>1, <1>7 DEF Sliding, Start
  <2>1. /\ Len(currentChunk) <= chunkSize /\ read = s + Len(currentChunk) - 1
        /\ \A i \in 1..Len(currentChunk) : currentChunk[i] = s + i - 1
        /\ \A k \in 1..Len(chunks) : /\ chunks[k] = [i \in 1..chunkSize |-> Start(k) + i - 1]
                                     /\ Start(k) + chunkSize - 1 < read
    BY <1>1 DEF CharacterInv, Sliding
  <2>a. /\ Len(currentChunk) <= chunkSize /\ read = s + Len(currentChunk) - 1
        /\ \A i \in 1..Len(currentChunk) : currentChunk[i] = s + i - 1
    BY <2>1
  <2>b. \A k \in 1..Len(chunks) : Start(k) + chunkSize - 1 < read
    BY <2>1
  <2>2. s \in Int /\ t \in Int /\ t = s + chunkSize - overlapSize
    BY <1>3, <1>s
  <2>3. currentChunk = [i \in 1..chunkSize |-> s + i - 1]
    <3>1. Len(currentChunk) = chunkSize
      BY <1>1, <1>2, <1>3, <2>1 DEF CharacterType
    <3> QED
      BY <1>4, <2>1, <3>1
  <2>4. Len(currentChunk) = chunkSize /\ Len(h) = overlapSize
    BY <1>1, <1>2, <1>3, <1>5, <2>1 DEF CharacterType
  <2>5. \A k \in 1..Len(chunks) : Start(k) + chunkSize - 1 < read'
    <3>1. \A k \in 1..Len(chunks) : Start(k) \in Int
      BY <1>3, <1>s
    <3> QED
      BY <1>1, <1>3, <2>b, <3>1
  <2>6. \A k \in 1..(Len(chunks) + 1) : k \in 1..Len(chunks) \/ k = Len(chunks) + 1
    BY <1>3
  <2>7. /\ chunks'[Len(chunks) + 1] = [i \in 1..chunkSize |-> s + i - 1]
        /\ s + chunkSize - 1 < read'
    <3> HIDE DEF s, t
    <3>1. chunks'[Len(chunks) + 1] = [i \in 1..chunkSize |-> s + i - 1]
      BY <1>7, <2>3
    <3> QED
      BY <1>1, <1>3, <2>1, <2>2, <2>4, <3>1
  <2>8. \A k \in 1..(Len(chunks) + 1) : /\ chunks'[k] = [i \in 1..chunkSize |-> Start(k) + i - 1]
                                        /\ Start(k) + chunkSize - 1 < read'
    BY <1>7, <2>1, <2>5, <2>6, <2>7
  <2> HIDE DEF s, t
  <2>9. Len(currentChunk') <= chunkSize /\ read' = t + Len(currentChunk') - 1
    <3>1. Len(currentChunk') = overlapSize + 1 /\ read' = read + 1
      BY <1>1, <1>6, <2>4
    <3>2. read = s + chunkSize - 1
      BY <2>a, <2>4
    <3> QED
      BY <1>3, <2>2, <3>1, <3>2
  <2>10. ASSUME NEW i \in 1..Len(currentChunk')
         PROVE  currentChunk'[i] = t + i - 1
    <3>1. CASE i \in 1..overlapSize
      <4>1. currentChunk'[i] = currentChunk[chunkSize - overlapSize + i]
        BY <1>3, <1>5, <1>6, <2>4, <3>1
      <4>2. chunkSize - overlapSize + i \in 1..chunkSize
        BY <1>3, <3>1
      <4>3. currentChunk'[i] = s + (chunkSize - overlapSize + i) - 1
        BY <2>3, <4>1, <4>2
      <4> QED
        BY <1>3, <2>2, <3>1, <4>3
    <3>2. CASE i = overlapSize + 1
      BY <1>3, <1>6, <2>a, <2>2, <2>4, <3>2
    <3> QED
      BY <1>3, <1>6, <2>4, <3>1, <3>2
  <2> QED
    BY <2>8, <2>9, <2>10
<1> QED
  BY <1>1, <1>8, <1>9, <1>10 DEF CharacterInv

\* A window that has room is as long as the chunk size; the last one ends with the text.
LEMMA WindowFacts ==
  ASSUME CharacterType, NEW k \in Int
  PROVE  /\ Start(k) + chunkSize - 1 <= components =>
               Characters!Window(k) = [i \in 1..chunkSize |-> Start(k) + i - 1]
         /\ components <= Start(k) + chunkSize - 1 =>
               Characters!Window(k) = [i \in 1..(components - Start(k) + 1) |-> Start(k) + i - 1]
<1> DEFINE f == Start(k)
<1>1. f \in Int /\ chunkSize \in Nat /\ components \in Nat
  BY CharacterConstants
<1>2. Characters!Window(k) =
        [i \in 1..(Characters!Lesser(components, f + chunkSize - 1) - f + 1) |-> f + i - 1]
  BY DEF Characters!Window, Start
<1> HIDE DEF f
<1>3. /\ f + chunkSize - 1 <= components =>
           Characters!Lesser(components, f + chunkSize - 1) - f + 1 = chunkSize
      /\ components <= f + chunkSize - 1 =>
           Characters!Lesser(components, f + chunkSize - 1) = components
  BY <1>1 DEF Characters!Lesser
<1> QED
  BY <1>2, <1>3 DEF f

\* The last chunk is the window that ends with the text.
LEMMA FinishStep ==
  ASSUME CharacterInv, Characters!Finish
  PROVE  CharacterInv'
<1>1. /\ UNCHANGED <<chunkSize, overlapSize, components, read, currentChunk, currentCount>>
      /\ pc = "loop" /\ read = components /\ pc' = "done"
      /\ chunks' = IF currentChunk = << >> THEN chunks ELSE Append(chunks, currentChunk)
  BY DEF Characters!Finish
<1>2. CharacterType
  BY DEF CharacterInv
<1>3. /\ chunkSize \in Nat /\ overlapSize \in Nat /\ components \in Nat /\ read \in Nat
      /\ Len(currentChunk) \in Nat /\ Len(chunks) \in Nat
  BY <1>2, CharacterConstants
<1>s. \A k \in Int : Start(k) \in Int /\ Start(k + 1) = Start(k) + chunkSize - overlapSize
  BY <1>2, CharacterConstants
<1>4. /\ currentChunk \in Seq(1..components) /\ currentChunk # << >>
      /\ chunks \in Seq(Seq(1..components))
  BY <1>1, <1>2, <1>3 DEF CharacterType
<1>5. /\ chunks' = Append(chunks, currentChunk)
      /\ chunks' \in Seq(Seq(1..components)) /\ Len(chunks') = Len(chunks) + 1
      /\ \A k \in 1..Len(chunks) : chunks'[k] = chunks[k]
      /\ chunks'[Len(chunks) + 1] = currentChunk
  BY <1>1, <1>4
<1>6. CharacterType'
  BY <1>1, <1>2, <1>5 DEF CharacterType
<1>7. Characters!NoWordLost'
  <2>1. Words(chunks') = Words(chunks) \cup Characters!ToSet(currentChunk)
    BY <1>4, <1>5, AppendWords
  <2>2. Characters!ToSet(currentChunk) \cup Words(chunks) = 1..read
    BY DEF CharacterInv, Characters!NoWordLost, Words
  <2>3. Characters!ToSet(currentChunk) \cup Words(chunks') = 1..read
    BY <2>1, <2>2
  <2> QED
    BY <1>1, <2>3 DEF Characters!NoWordLost, Words
<1>8. Sliding'
  BY <1>1 DEF Sliding
<1>9. ASSUME overlapSize < chunkSize
      PROVE  \A k \in 1..(Len(chunks) + 1) :
                /\ chunks'[k] = Characters!Window(k)
                /\ Characters!Last(chunks'[k]) = components <=> k = Len(chunks) + 1
  <2> DEFINE s == Start(Len(chunks) + 1)
             z == Len(currentChunk)
  <2>1. /\ z <= chunkSize /\ read = s + z - 1
        /\ \A i \in 1..z : currentChunk[i] = s + i - 1
        /\ \A k \in 1..Len(chunks) : /\ chunks[k] = [i \in 1..chunkSize |-> Start(k) + i - 1]
                                     /\ Start(k) + chunkSize - 1 < read
    BY <1>1, <1>9 DEF CharacterInv, Sliding
  <2>2. s \in Int
    BY <1>3, <1>s
  <2>3. ASSUME NEW k \in 1..Len(chunks)
        PROVE  chunks'[k] = Characters!Window(k) /\ Characters!Last(chunks'[k]) # components
    <3>1. Start(k) \in Int /\ Start(k) + chunkSize - 1 < components
      <4>1. Start(k) + chunkSize - 1 < read
        BY <2>1
      <4>2. Start(k) \in Int
        BY <1>s
      <4> QED
        BY <1>1, <4>1, <4>2
    <3>2. chunks'[k] = [i \in 1..chunkSize |-> Start(k) + i - 1]
      BY <1>5, <2>1
    <3>3. Characters!Window(k) = [i \in 1..chunkSize |-> Start(k) + i - 1]
      BY <1>2, <1>3, <3>1, WindowFacts
    <3>4. Len(chunks'[k]) = chunkSize /\ chunkSize \in 1..chunkSize
      <4>1. chunkSize \in 1..chunkSize
        BY <1>3, <1>9
      <4>2. chunks'[k] \in Seq(1..components) /\ DOMAIN chunks'[k] = 1..chunkSize
        BY <1>5, <3>2
      <4> QED
        BY <1>3, <4>1, <4>2, LenProperties
    <3>5. Characters!Last(chunks'[k]) = Start(k) + chunkSize - 1
      BY <3>2, <3>4 DEF Characters!Last
    <3> QED
      BY <1>3, <3>1, <3>2, <3>3, <3>5
  <2>4. currentChunk = Characters!Window(Len(chunks) + 1) /\ Characters!Last(currentChunk) = components
    <3>1. z \in 1..z
      BY <1>3, <1>4
    <3>2. components - s + 1 = z /\ components <= s + chunkSize - 1
      BY <1>1, <1>3, <2>1, <2>2
    <3>3. currentChunk = [i \in 1..z |-> s + i - 1]
      BY <1>4, <2>1
    <3>4. Characters!Window(Len(chunks) + 1) = [i \in 1..z |-> s + i - 1]
      BY <1>2, <1>3, <3>2, WindowFacts
    <3>5. Characters!Last(currentChunk) = s + z - 1
      BY <2>1, <3>1 DEF Characters!Last
    <3> QED
      BY <1>1, <2>1, <3>3, <3>4, <3>5
  <2>5. \A k \in 1..(Len(chunks) + 1) : k = Len(chunks) + 1 \/ (k \in 1..Len(chunks) /\ k # Len(chunks) + 1)
    BY <1>3
  <2> QED
    BY <1>5, <2>3, <2>4, <2>5
<1>10. Characters!ChunksAreWindows'
  <2> SUFFICES ASSUME overlapSize < chunkSize
               PROVE  \A k \in 1..(Len(chunks) + 1) :
                        /\ chunks'[k] = Characters!Window(k)'
                        /\ Characters!Last(chunks'[k]) = components <=> k = Len(chunks) + 1
    BY <1>1, <1>5 DEF Characters!ChunksAreWindows
  <2>1. \A k : Characters!Window(k)' = Characters!Window(k)
    BY <1>1 DEF Characters!Window
  <2> QED
    BY <1>9, <2>1
<1> QED
  BY <1>6, <1>7, <1>8, <1>10 DEF CharacterInv

\* Every round keeps the words and the windows.
LEMMA CharactersStep ==
  ASSUME CharacterInv, Characters!Next
  PROVE  CharacterInv'
  BY CollectStep, FlushStep, FinishStep DEF Characters!Next

\* At the start no word is read.
LEMMA CharactersInit ==
  ASSUME Characters!Init
  PROVE  CharacterInv
<1>1. /\ chunkSize \in WordCounts /\ overlapSize \in Overlaps /\ components \in 1..MaxWords
      /\ read = 0 /\ currentChunk = << >> /\ currentCount = 0 /\ chunks = << >> /\ pc = "loop"
  BY DEF Characters!Init
<1>2. components \in Nat /\ chunkSize \in Nat /\ overlapSize \in Nat
  BY <1>1, ConstantFacts
<1>3. CharacterType
  BY <1>1, <1>2 DEF CharacterType
<1>4. Characters!NoWordLost
  <2>1. Characters!ToSet(currentChunk) = {} /\ DOMAIN chunks = {} /\ 1..read = {}
    BY <1>1 DEF Characters!ToSet
  <2> QED
    BY <2>1 DEF Characters!NoWordLost
<1>5. Sliding
  <2>1. Len(chunks) = 0 /\ Len(currentChunk) = 0
    BY <1>1
  <2>2. (1 - 1) * (chunkSize - overlapSize) + 1 = 1
    BY <1>2
  <2>3. Start(Len(chunks) + 1) = 1
    BY <2>1, <2>2 DEF Start
  <2> QED
    BY <1>1, <1>2, <2>1, <2>3 DEF Sliding
<1> QED
  BY <1>1, <1>3, <1>4, <1>5 DEF CharacterInv

\* The invariant gives what is asked of CharacterSplitter.
LEMMA CharactersDone ==
  ASSUME CharacterInv
  PROVE  Characters!Correct
<1>1. CharacterType /\ Characters!NoWordLost
  BY DEF CharacterInv
<1>2. Characters!TypeOK
  BY <1>1 DEF CharacterType, Characters!TypeOK
<1>3. Characters!ChunksAreWindows
  <2>1. CASE pc = "done"
    BY <2>1 DEF CharacterInv
  <2>2. CASE pc = "loop"
    <3> SUFFICES ASSUME overlapSize < chunkSize, NEW k \in 1..Len(chunks)
                 PROVE  chunks[k] = Characters!Window(k)
      BY <1>1, <2>2 DEF Characters!ChunksAreWindows, CharacterType
    <3>1. /\ chunks[k] = [i \in 1..chunkSize |-> Start(k) + i - 1]
          /\ Start(k) + chunkSize - 1 < read
      BY <2>2 DEF CharacterInv, Sliding
    <3>2. chunkSize \in Nat /\ read \in 0..components /\ components \in Nat /\ k \in Int /\ Start(k) \in Int
      BY <1>1, CharacterConstants DEF CharacterType
    <3>3. Start(k) + chunkSize - 1 <= components
      BY <3>1, <3>2
    <3> QED
      BY <1>1, <3>1, <3>2, <3>3, WindowFacts
  <2> QED
    BY <1>1, <2>1, <2>2 DEF CharacterType
<1> QED
  BY <1>1, <1>2, <1>3 DEF Characters!Correct

------------------------------------------------------------------------------
(* TokenSplitter *)

\* Where words are single tokens or sentences short, chunks and rest make up the text, and the
\* rest begins a word or is a stop.
Spared == Tokens!WholeWords \/ Tokens!ShortSentences

RestBeginsWord == remainingTokens # << >> => remainingTokens[1] # "piece"

\* The chunk being cut is the beginning of the rest.
TokenInv ==
    /\ Tokens!TypeOK /\ Tokens!EachTokenOnce
    /\ Spared => RestBeginsWord
    /\ pc = "cut" => /\ Len(chunk) = Tokens!Lesser(chunkSize, Len(remainingTokens))
                     /\ chunk = SubSeq(remainingTokens, 1, Len(chunk)) /\ chunk # << >>

\* A set of numbers has a smallest one, and below a bound a largest.
LEMMA SmallestOf ==
  ASSUME NEW S \in SUBSET Nat, S # {}
  PROVE  \E x \in S : \A y \in S : x <= y
<1> DEFINE Less == {ss \in Nat \X Nat : ss[1] < ss[2]}
<1>1. OpToRel(<, Nat) = Less
  BY Zenon DEF OpToRel
<1>2. IsWellFoundedOn(Less, Nat)
  BY ONLY <1>1, NatLessThanWellFounded, Zenon
<1>3. PICK x \in S : \A y \in S : ~ (<<y, x>> \in Less)
  BY ONLY <1>2, WFMin, S \in SUBSET Nat, S # {}
<1>4. \A z, y \in S : y < z => <<y, z>> \in Less
  OBVIOUS
<1> HIDE DEF Less
<1>5. x \in S /\ \A y \in S : ~ (y < x)
  BY <1>3, <1>4
<1>6. \A y \in S : x <= y
  BY <1>5
<1> QED
  BY <1>5, <1>6

\* Below a bound a set of numbers has a largest one.
LEMMA LargestOf ==
  ASSUME NEW n \in Nat, NEW S \in SUBSET (1..n), S # {}
  PROVE  \E x \in S : \A y \in S : x >= y
<1> DEFINE R == {n - y : y \in S}
<1>1. R \in SUBSET Nat /\ R # {}
  <2>1. \A y \in S : n - y \in Nat
    OBVIOUS
  <2> QED
    BY <2>1
<1> HIDE DEF R
<1>2. PICK r \in R : \A y \in R : r <= y
  BY <1>1, SmallestOf
<1>3. PICK x \in S : r = n - x
  BY DEF R
<1>4. \A y \in S : n - y \in R
  BY DEF R
<1>5. \A y \in S : n - x <= n - y
  BY <1>2, <1>3, <1>4
<1>6. \A y \in S : x >= y
  BY <1>5
<1> QED
  BY <1>6

\* Cutting a chunk leaves a beginning of it, all of it if it has no stop; otherwise the cut
\* is in front of a stop or behind one.
LEMMA CutFacts ==
  ASSUME NEW c \in Seq(Tokens!Token)
  PROVE  \E q \in 0..Len(c) :
           /\ Tokens!Cut(c) = SubSeq(c, 1, q)
           /\ \A i \in 1..Len(c) : c[i] = "stop" =>
                 q < Len(c) /\ (c[q + 1] = "stop" \/ (q > 0 /\ c[q] = "stop"))
           /\ (\A i \in 1..Len(c) : c[i] # "stop") => q = Len(c)
<1> DEFINE I == {i \in 1..Len(c) : c[i] = "stop"}
           last == Tokens!SelectLastInSeq(c, LAMBDA t : t = "stop")
<1>1. last = IF I # {} THEN Tokens!Max(I) ELSE 0
  BY DEF Tokens!SelectLastInSeq
<1>2. Tokens!Cut(c) = IF last = 0 THEN c ELSE SubSeq(c, 1, Tokens!Lesser(Len(c) - 1, last))
  BY DEF Tokens!Cut
<1>3. Len(c) \in Nat
  OBVIOUS
<1>4. CASE I = {}
  <2>1. Tokens!Cut(c) = SubSeq(c, 1, Len(c))
    BY <1>1, <1>2, <1>4
  <2>2. \A i \in 1..Len(c) : c[i] # "stop"
    BY <1>4
  <2>3. Len(c) \in 0..Len(c)
    BY <1>3
  <2> HIDE DEF I, last
  <2> QED
    BY <2>1, <2>2, <2>3
<1>5. CASE I # {}
  <2>1. \E x \in I : \A y \in I : x >= y
    BY <1>3, <1>5, LargestOf
  <2>2. Tokens!Max(I) \in I
    BY <2>1 DEF Tokens!Max
  <2>3. last \in 1..Len(c) /\ c[last] = "stop"
    BY <1>1, <1>5, <2>2
  <2> HIDE DEF last, I
  <2>4. PICK q \in 0..Len(c) : q = Tokens!Lesser(Len(c) - 1, last)
    BY <1>3, <2>3 DEF Tokens!Lesser
  <2>5. Tokens!Cut(c) = SubSeq(c, 1, q)
    <3>1. last # 0
      BY <1>3, <2>3
    <3>2. Tokens!Cut(c) = IF last = 0 THEN c ELSE SubSeq(c, 1, Tokens!Lesser(Len(c) - 1, last))
      BY <1>2
    <3> QED
      BY <2>4, <3>1, <3>2
  <2>6. q < Len(c) /\ (q = last \/ q + 1 = last)
    BY <1>3, <2>3, <2>4 DEF Tokens!Lesser
  <2>7. q < Len(c) /\ (c[q + 1] = "stop" \/ (q > 0 /\ c[q] = "stop"))
    BY <2>3, <2>6
  <2>8. \E i \in 1..Len(c) : c[i] = "stop"
    BY <2>3
  <2> QED
    BY <2>5, <2>7, <2>8
<1> QED
  BY <1>4, <1>5

\* A chunk that begins a word encodes to the tokens it has, and any other to some number.
LEMMA ReencodedFacts ==
  ASSUME NEW c \in Seq(Tokens!Token)
  PROVE  /\ Tokens!Reencoded(c) \subseteq Nat
         /\ c = << >> \/ c[1] # "piece" => Tokens!Reencoded(c) = {Len(c)}
<1> DEFINE I == {i \in 1..Len(c) : c[i] # "piece"}
           next == Tokens!SelectInSeq(c, LAMBDA t : t # "piece")
<1>1. next = IF I # {} THEN Tokens!Min(I) ELSE 0
  BY DEF Tokens!SelectInSeq
<1>2. Len(c) \in Nat
  OBVIOUS
<1>3. next \in 0..Len(c)
  <2>1. CASE I = {}
    BY <1>1, <1>2, <2>1
  <2>2. CASE I # {}
    <3>1. \E x \in I : \A y \in I : x <= y
      <4>1. I \in SUBSET Nat
        OBVIOUS
      <4> HIDE DEF I
      <4> QED
        BY <2>2, <4>1, SmallestOf
    <3>2. Tokens!Min(I) \in I
      BY <3>1 DEF Tokens!Min
    <3>3. next = Tokens!Min(I)
      BY <1>1, <2>2
    <3> QED
      BY <1>2, <3>2, <3>3
  <2> QED
    BY <2>1, <2>2
<1>4. Tokens!EndOfWord(c) = IF next = 0 THEN Len(c) ELSE next - 1
  BY DEF Tokens!EndOfWord
<1> HIDE DEF I, next
<1>5. Tokens!EndOfWord(c) \in 0..Len(c)
  BY <1>2, <1>3, <1>4
<1> DEFINE e == Tokens!EndOfWord(c)
<1>6. Tokens!Reencoded(c) = IF c = << >> \/ c[1] # "piece" THEN {Len(c)}
                            ELSE {Len(c) - e + n : n \in 1..(e + MaxGrowth)}
  BY DEF Tokens!Reencoded
<1> HIDE DEF e
<1>7. \A n \in 1..(e + MaxGrowth) : Len(c) - e + n \in Nat
  <2>1. e \in 0..Len(c) /\ MaxGrowth \in Nat
    BY <1>5, ConstantFacts DEF e
  <2> QED
    BY <1>2, <2>1
<1> QED
  BY <1>2, <1>6, <1>7

\* A beginning of a beginning, and what is left of a sequence behind it.
LEMMA SplitFacts ==
  ASSUME NEW S, NEW r \in Seq(S), NEW k \in 0..Len(r), NEW q \in 0..k
  PROVE  /\ SubSeq(SubSeq(r, 1, k), 1, q) = SubSeq(r, 1, q)
         /\ SubSeq(r, 1, q) \in Seq(S) /\ Len(SubSeq(r, 1, q)) = q
         /\ SubSeq(r, q + 1, Len(r)) \in Seq(S)
         /\ SubSeq(r, 1, q) \o SubSeq(r, q + 1, Len(r)) = r
<1>1. Len(r) \in Nat /\ k \in Nat /\ q \in Nat /\ q <= k /\ k <= Len(r)
  OBVIOUS
<1> DEFINE a == SubSeq(r, 1, q)
           b == SubSeq(r, q + 1, Len(r))
           d == SubSeq(r, 1, k)
<1>2. d = [i \in 1..k |-> r[i]] /\ d \in Seq(S) /\ Len(d) = k
  BY <1>1
<1>3. a = [i \in 1..q |-> r[i]] /\ a \in Seq(S) /\ Len(a) = q
  BY <1>1
<1>4. /\ b \in Seq(S) /\ Len(b) = Len(r) - q
      /\ \A i \in 1..(Len(r) - q) : b[i] = r[q + i]
  BY <1>1, SubSeqProperties
<1>5. SubSeq(d, 1, q) = a
  <2> HIDE DEF d, a
  <2>1. SubSeq(d, 1, q) = [i \in 1..q |-> d[i]]
    BY <1>1, <1>2
  <2>2. \A i \in 1..q : d[i] = r[i]
    BY <1>1, <1>2
  <2> QED
    BY <1>3, <2>1, <2>2
<1>6. a \o b = r
  <2> HIDE DEF a, b
  <2>1. /\ a \o b \in Seq(S) /\ Len(a \o b) = Len(r)
        /\ \A i \in 1..Len(r) : (a \o b)[i] = IF i <= q THEN a[i] ELSE b[i - q]
    BY <1>1, <1>3, <1>4, ConcatProperties
  <2>2. \A i \in 1..Len(r) : (a \o b)[i] = r[i]
    <3>1. \A i \in 1..Len(r) : i <= q => a[i] = r[i]
      BY <1>1, <1>3
    <3>2. \A i \in 1..Len(r) : ~(i <= q) => b[i - q] = r[i]
      <4>1. \A i \in 1..Len(r) : ~(i <= q) => i - q \in 1..(Len(r) - q) /\ q + (i - q) = i
        BY <1>1
      <4> QED
        BY <1>4, <4>1
    <3> QED
      BY <2>1, <3>1, <3>2
  <2> QED
    BY <2>1, <2>2, SeqEqual
<1> QED
  BY <1>3, <1>4, <1>5, <1>6

\* A chunk is the beginning of what remains.
LEMMA TakeStep ==
  ASSUME TokenInv, Tokens!TakeChunk
  PROVE  TokenInv'
<1> DEFINE k == Tokens!Lesser(chunkSize, Len(remainingTokens))
<1>1. /\ UNCHANGED <<tokens, chunkSize, remainingTokens, emitted>>
      /\ chunk' = SubSeq(remainingTokens, 1, k)
      /\ pc' = (IF chunk' = << >> THEN "loop" ELSE "cut") /\ pc = "loop"
  BY DEF Tokens!TakeChunk
<1>2. /\ remainingTokens \in Seq(Tokens!Token) /\ Len(remainingTokens) \in Nat /\ chunkSize \in Nat
  BY ConstantFacts DEF TokenInv, Tokens!TypeOK
<1>3. k \in 0..Len(remainingTokens) /\ k <= chunkSize
  BY <1>2 DEF Tokens!Lesser
<1>k. k' = k
  BY <1>1
<1> HIDE DEF k
<1>4. chunk' \in Seq(Tokens!Token) /\ Len(chunk') = k
  BY <1>1, <1>2, <1>3, SubSeqProperties
<1>5. Tokens!TypeOK'
  BY <1>1, <1>3, <1>4 DEF TokenInv, Tokens!TypeOK
<1>6. Tokens!EachTokenOnce' /\ (Spared => RestBeginsWord)'
  <2>1. Spared' = Spared /\ pc' # "trapped"
    BY <1>1 DEF Spared, Tokens!WholeWords, Tokens!ShortSentences
  <2> QED
    BY <1>1, <2>1 DEF TokenInv, Tokens!EachTokenOnce, Spared, RestBeginsWord
<1>7. Len(chunk') = k /\ chunk' = SubSeq(remainingTokens', 1, Len(chunk'))
  BY <1>1, <1>4
<1> QED
  BY <1>1, <1>5, <1>6, <1>7, <1>k DEF TokenInv, k

\* The first element of a beginning, and those of the rest.
LEMMA PartFacts ==
  ASSUME NEW S, NEW r \in Seq(S), NEW q \in 0..Len(r)
  PROVE  /\ q > 0 => SubSeq(r, 1, q)[1] = r[1]
         /\ Len(SubSeq(r, q + 1, Len(r))) = Len(r) - q
         /\ q < Len(r) => SubSeq(r, q + 1, Len(r))[1] = r[q + 1]
<1>1. Len(r) \in Nat /\ q \in Nat /\ q <= Len(r)
  OBVIOUS
<1>2. SubSeq(r, 1, q) = [i \in 1..q |-> r[i]]
  BY <1>1
<1>3. /\ Len(SubSeq(r, q + 1, Len(r))) = Len(r) - q
      /\ \A i \in 1..(Len(r) - q) : SubSeq(r, q + 1, Len(r))[i] = r[q + i]
  BY <1>1, SubSeqProperties
<1>4. q < Len(r) => 1 \in 1..(Len(r) - q)
  BY <1>1
<1>5. q > 0 => 1 \in 1..q
  BY <1>1
<1> QED
  BY <1>1, <1>2, <1>3, <1>4, <1>5

\* Where words and sentences spare the cut, what it leaves begins a word: what is behind a stop
\* does, and so does a stop; a chunk without one is the whole rest.
LEMMA CutSpares ==
  ASSUME TokenInv, pc = "cut", Spared, NEW q \in 0..Len(chunk), q < Len(remainingTokens),
         \A i \in 1..Len(chunk) : chunk[i] = "stop" =>
            q < Len(chunk) /\ (chunk[q + 1] = "stop" \/ (q > 0 /\ chunk[q] = "stop")),
         (\A i \in 1..Len(chunk) : chunk[i] # "stop") => q = Len(chunk)
  PROVE  remainingTokens[q + 1] # "piece"
<1> DEFINE m == Len(emitted)
           r == Len(remainingTokens)
<1>1. /\ remainingTokens \in Seq(Tokens!Token) /\ emitted \in Seq(Tokens!Token) /\ r \in Nat /\ m \in Nat
      /\ chunk \in Seq(Tokens!Token) /\ Len(chunk) \in Nat /\ chunkSize \in Nat
      /\ tokens \in Tokens!Texts
  BY ConstantFacts DEF TokenInv, Tokens!TypeOK
<1>2. emitted \o remainingTokens = tokens
  BY DEF TokenInv, Tokens!EachTokenOnce, Spared
<1>3. Len(tokens) = m + r /\ \A j \in 1..r : tokens[m + j] = remainingTokens[j]
  <2>1. Len(emitted \o remainingTokens) = m + r
    BY <1>1
  <2>2. \A j \in 1..r : (emitted \o remainingTokens)[m + j] = remainingTokens[j]
    BY <1>1
  <2> QED
    BY <1>2, <2>1, <2>2
<1>4. DOMAIN tokens = 1..Len(tokens) /\ Len(tokens) \in Nat
  <2>1. emitted \o remainingTokens \in Seq(Tokens!Token)
    BY <1>1, ConcatProperties
  <2>2. tokens \in Seq(Tokens!Token)
    BY <1>2, <2>1
  <2> QED
    BY <2>2
<1>5. \A i \in DOMAIN tokens : tokens[i] = "piece" => i > 1 /\ tokens[i - 1] # "stop"
  BY <1>1 DEF Tokens!Texts
<1>6. /\ Len(chunk) = Tokens!Lesser(chunkSize, r)
      /\ Len(chunk) <= r /\ \A j \in 1..Len(chunk) : chunk[j] = remainingTokens[j]
  <2>1. Len(chunk) = Tokens!Lesser(chunkSize, r) /\ chunk = SubSeq(remainingTokens, 1, Len(chunk))
    BY DEF TokenInv
  <2>2. Len(chunk) <= r
    BY <1>1, <2>1 DEF Tokens!Lesser
  <2> DEFINE l == Len(chunk)
  <2>3. l \in Nat /\ l <= r /\ chunk = SubSeq(remainingTokens, 1, l)
    BY <1>1, <2>1, <2>2
  <2> HIDE DEF l
  <2>4. SubSeq(remainingTokens, 1, l) = [j \in 1..l |-> remainingTokens[j]]
    BY <1>1, <2>3
  <2>5. \A j \in 1..l : chunk[j] = remainingTokens[j]
    BY <2>3, <2>4
  <2> QED
    BY <2>1, <2>2, <2>5 DEF l
<1>7. remainingTokens[q + 1] = tokens[m + q + 1] /\ m + q + 1 \in DOMAIN tokens /\ q \in Nat
  BY <1>1, <1>3, <1>4
<1> HIDE DEF m, r
<1>8. CASE \E i \in 1..Len(chunk) : chunk[i] = "stop"
  <2>1. q < Len(chunk) /\ (chunk[q + 1] = "stop" \/ (q > 0 /\ chunk[q] = "stop"))
    BY <1>8
  <2>2. CASE chunk[q + 1] = "stop"
    <3>1. q + 1 \in 1..Len(chunk)
      BY <1>1, <1>7, <2>1
    <3> QED
      BY <1>6, <2>2, <3>1
  <2>3. CASE q > 0 /\ chunk[q] = "stop"
    <3>1. q \in 1..Len(chunk) /\ q \in 1..r
      BY <1>1, <1>6, <1>7, <2>1, <2>3
    <3>2. tokens[m + q] = "stop"
      BY <1>3, <1>6, <2>3, <3>1
    <3>3. (m + q + 1) - 1 = m + q
      BY <1>1, <1>7
    <3> QED
      BY <1>5, <1>7, <3>2, <3>3
  <2> QED
    BY <2>1, <2>2, <2>3
<1>9. CASE \A i \in 1..Len(chunk) : chunk[i] # "stop"
  <2>1. q = Len(chunk) /\ q < r
    BY <1>9 DEF r
  <2>2. q = chunkSize
    BY <1>1, <1>6, <2>1 DEF Tokens!Lesser
  <2>3. CASE Tokens!WholeWords
    BY <1>7, <2>3 DEF Tokens!WholeWords
  <2>4. CASE Tokens!ShortSentences
    <3>1. m \in 0..(Len(tokens) - chunkSize)
      BY <1>1, <1>3, <2>1, <2>2
    <3>2. PICK j \in (m + 1)..(m + chunkSize) : tokens[j] = "stop"
      BY <2>4, <3>1 DEF Tokens!ShortSentences
    <3>3. j - m \in 1..Len(chunk) /\ j - m \in 1..r /\ m + (j - m) = j
      BY <1>1, <2>1, <2>2, <3>2
    <3> QED
      BY <1>3, <1>6, <1>9, <3>2, <3>3
  <2> QED
    BY <2>3, <2>4 DEF Spared
<1> QED
  BY <1>8, <1>9

\* What is cut off the chunk is what leaves the rest, where encoding finds it again.
LEMMA EmitStep ==
  ASSUME TokenInv, Tokens!EmitChunk
  PROVE  TokenInv'
<1>1. /\ UNCHANGED <<tokens, chunkSize, chunk>> /\ pc = "cut"
      /\ emitted' = emitted \o Tokens!Cut(chunk)
  BY DEF Tokens!EmitChunk
<1>2. /\ remainingTokens \in Seq(Tokens!Token) /\ emitted \in Seq(Tokens!Token)
      /\ chunk \in Seq(Tokens!Token) /\ chunk = SubSeq(remainingTokens, 1, Len(chunk))
      /\ Len(chunk) <= Len(remainingTokens) /\ Len(chunk) > 0
      /\ Len(chunk) \in Nat /\ Len(remainingTokens) \in Nat
  <2>1. /\ remainingTokens \in Seq(Tokens!Token) /\ emitted \in Seq(Tokens!Token)
        /\ chunk \in Seq(Tokens!Token) /\ chunk = SubSeq(remainingTokens, 1, Len(chunk))
        /\ chunk # << >> /\ chunkSize \in Nat
        /\ Len(chunk) = Tokens!Lesser(chunkSize, Len(remainingTokens))
    BY <1>1, ConstantFacts DEF TokenInv, Tokens!TypeOK
  <2>2. Len(chunk) \in Nat /\ Len(remainingTokens) \in Nat
    BY <2>1
  <2>3. Len(chunk) > 0
    BY <2>1, EmptySeq
  <2>4. Len(chunk) <= Len(remainingTokens)
    BY <2>1, <2>2 DEF Tokens!Lesser
  <2> QED
    BY <2>1, <2>2, <2>3, <2>4
<1>3. PICK q \in 0..Len(chunk) :
        /\ Tokens!Cut(chunk) = SubSeq(chunk, 1, q)
        /\ \A i \in 1..Len(chunk) : chunk[i] = "stop" =>
              q < Len(chunk) /\ (chunk[q + 1] = "stop" \/ (q > 0 /\ chunk[q] = "stop"))
        /\ (\A i \in 1..Len(chunk) : chunk[i] # "stop") => q = Len(chunk)
  BY <1>2, CutFacts
<1>n. Len(chunk) \in Nat /\ Len(remainingTokens) \in Nat /\ Len(chunk) <= Len(remainingTokens)
  BY <1>2
<1>a. Len(chunk) \in 0..Len(remainingTokens) /\ q \in Nat /\ q \in 0..Len(remainingTokens)
  BY ONLY <1>n, q \in 0..Len(chunk)
<1>4. /\ SubSeq(SubSeq(remainingTokens, 1, Len(chunk)), 1, q) = SubSeq(remainingTokens, 1, q)
      /\ SubSeq(remainingTokens, 1, q) \in Seq(Tokens!Token)
      /\ Len(SubSeq(remainingTokens, 1, q)) = q
      /\ SubSeq(remainingTokens, q + 1, Len(remainingTokens)) \in Seq(Tokens!Token)
      /\ SubSeq(remainingTokens, 1, q) \o SubSeq(remainingTokens, q + 1, Len(remainingTokens))
            = remainingTokens
  BY <1>2, <1>a, SplitFacts
<1>5. Tokens!Cut(chunk) = SubSeq(remainingTokens, 1, q)
  BY <1>2, <1>3, <1>4
<1> DEFINE cut == Tokens!Cut(chunk)
<1>6. Len(cut) = q /\ cut \in Seq(Tokens!Token)
  BY <1>4, <1>5
<1>7. PICK n \in Tokens!Reencoded(cut) :
        /\ remainingTokens' = SubSeq(remainingTokens, n + 1, Len(remainingTokens))
        /\ pc' = IF n > Len(remainingTokens) THEN "trapped" ELSE "loop"
  BY DEF Tokens!EmitChunk
<1> HIDE DEF cut
<1>8. n \in Nat
  BY <1>6, <1>7, ReencodedFacts
<1>9. remainingTokens' \in Seq(Tokens!Token) /\ emitted' \in Seq(Tokens!Token)
  <2>1. emitted' \in Seq(Tokens!Token)
    BY <1>1, <1>2, <1>6 DEF cut
  <2>2. \A i \in (n + 1)..Len(remainingTokens) : i \in 1..Len(remainingTokens)
    BY <1>2, <1>8
  <2>3. \A i \in (n + 1)..Len(remainingTokens) : remainingTokens[i] \in Tokens!Token
    BY <1>2, <2>2
  <2>4. remainingTokens' \in Seq(Tokens!Token)
    BY <1>2, <1>7, <1>8, <2>3
  <2> QED
    BY <2>1, <2>4
<1>10. pc' \in {"loop", "trapped"}
  BY <1>7
<1>11. Tokens!TypeOK'
  BY <1>1, <1>9, <1>10 DEF TokenInv, Tokens!TypeOK
<1>12. Spared' = Spared
  BY <1>1 DEF Spared, Tokens!WholeWords, Tokens!ShortSentences
<1>13. ASSUME Spared
       PROVE  emitted' \o remainingTokens' = tokens /\ pc' # "trapped" /\ RestBeginsWord'
  <2> DEFINE a == SubSeq(remainingTokens, 1, q)
             b == SubSeq(remainingTokens, q + 1, Len(remainingTokens))
  <2>1. n = q
    <3>1. CASE q = 0
      <4>1. cut = << >>
        BY <1>6, <3>1
      <4> QED
        BY <1>6, <1>7, <4>1, ReencodedFacts
    <3>2. CASE q > 0
      <4>1. a[1] = remainingTokens[1]
        BY <1>2, <1>a, <3>2, PartFacts
      <4>2. cut[1] = remainingTokens[1]
        BY <1>5, <4>1 DEF cut
      <4>3. remainingTokens[1] # "piece"
        BY <1>2, <1>13 DEF TokenInv, RestBeginsWord
      <4> QED
        BY <1>6, <1>7, <4>2, <4>3, ReencodedFacts
    <3> QED
      BY <1>a, <3>1, <3>2
  <2>2. remainingTokens' = b /\ emitted' = emitted \o a
    BY <1>1, <1>5, <1>7, <2>1
  <2>3. a \in Seq(Tokens!Token) /\ b \in Seq(Tokens!Token) /\ a \o b = remainingTokens
    BY <1>4
  <2>4. emitted \o remainingTokens = tokens
    BY <1>13 DEF TokenInv, Tokens!EachTokenOnce, Spared
  <2>5. pc' # "trapped"
    <3>1. ~ (n > Len(remainingTokens))
      BY ONLY <2>1, <1>a, <1>n
    <3> QED
      BY <1>7, <3>1
  <2>6. b # << >> => b[1] # "piece"
    <3> SUFFICES ASSUME b # << >>
                 PROVE  b[1] # "piece"
      OBVIOUS
    <3>1. /\ Len(b) = Len(remainingTokens) - q
          /\ q < Len(remainingTokens) => b[1] = remainingTokens[q + 1]
      BY <1>2, <1>a, PartFacts
    <3>2. q < Len(remainingTokens)
      <4>1. b \in Seq(Tokens!Token)
        BY <2>3
      <4> HIDE DEF b
      <4>2. Len(b) \in Nat /\ Len(b) # 0
        BY <4>1
      <4> QED
        BY <1>n, <1>a, <3>1, <4>2
    <3>3. remainingTokens[q + 1] # "piece"
      BY <1>1, <1>3, <1>13, <3>2, CutSpares
    <3> QED
      BY <3>1, <3>2, <3>3
  <2> HIDE DEF a, b
  <2>7. (emitted \o a) \o b = emitted \o (a \o b)
    <3> DEFINE W == Tokens!Token
    <3>1. emitted \in Seq(W) /\ a \in Seq(W) /\ b \in Seq(W)
      BY <1>2, <2>3
    <3> HIDE DEF W
    <3> QED
      BY ONLY <3>1, ConcatAssociative
  <2>8. RestBeginsWord'
    BY <2>2, <2>6 DEF RestBeginsWord
  <2> QED
    BY <2>2, <2>3, <2>4, <2>5, <2>7, <2>8
<1> QED
  BY <1>1, <1>10, <1>11, <1>12, <1>13 DEF TokenInv, Tokens!EachTokenOnce, Spared

\* Every round keeps the text together.
LEMMA TokensStep ==
  ASSUME TokenInv, Tokens!Next
  PROVE  TokenInv'
<1>1. CASE Tokens!Return
  <2>1. UNCHANGED <<tokens, chunkSize, remainingTokens, chunk, emitted>> /\ pc' = "done"
    BY <1>1 DEF Tokens!Return
  <2>2. Tokens!TypeOK' /\ Spared' = Spared
    BY <2>1 DEF TokenInv, Tokens!TypeOK, Spared, Tokens!WholeWords, Tokens!ShortSentences
  <2> QED
    BY <2>1, <2>2 DEF TokenInv, Tokens!EachTokenOnce, Spared, RestBeginsWord
<1> QED
  BY <1>1, TakeStep, EmitStep DEF Tokens!Next

\* At the start all tokens remain, and a text begins with a word.
LEMMA TokensInit ==
  ASSUME Tokens!Init
  PROVE  TokenInv
<1>1. /\ tokens \in Tokens!Texts /\ chunkSize \in ChunkSizes
      /\ remainingTokens = tokens /\ chunk = << >> /\ emitted = << >> /\ pc = "loop"
  BY DEF Tokens!Init
<1>2. tokens \in Seq(Tokens!Token) /\ tokens[1] # "piece"
  <2>1. PICK n \in 1..MaxTokens : tokens \in [1..n -> Tokens!Token]
    BY <1>1 DEF Tokens!Texts
  <2>2. n \in Nat /\ 1 \in 1..n
    BY <2>1, ConstantFacts
  <2>3. \A i \in DOMAIN tokens : tokens[i] = "piece" => i > 1
    BY <1>1 DEF Tokens!Texts
  <2>4. 1 \in DOMAIN tokens
    BY <2>1, <2>2
  <2> QED
    BY <2>1, <2>2, <2>3, <2>4, SeqDef
<1>3. chunk \in Seq(Tokens!Token) /\ emitted \in Seq(Tokens!Token) /\ Len(chunk) <= chunkSize
  BY <1>1, ConstantFacts
<1>4. << >> \o tokens = tokens
  BY <1>2
<1> QED
  BY <1>1, <1>2, <1>3, <1>4 DEF TokenInv, Tokens!TypeOK, Tokens!EachTokenOnce, RestBeginsWord

------------------------------------------------------------------------------
(* topK *)

Copies(bag, S) == Ranking!Copies(bag, S)
Reach(bag, x) == Ranking!reach(bag, x)

\* The instance counts as this module does.
LEMMA RankingCardinality ==
  ASSUME NEW S
  PROVE  Ranking!Cardinality(S) = Cardinality(S)
  BY DEF Ranking!Cardinality, Cardinality

\* A score is reached by the copies of those that are no smaller.
LEMMA ReachIs ==
  ASSUME NEW bag, NEW x
  PROVE  Reach(bag, x) = Cardinality(Copies(bag, {y \in Scores : y >= x}))
  BY RankingCardinality DEF Reach, Ranking!reach, Copies

\* Scores are ordered as numbers.
LEMMA ScoreOrder ==
  ASSUME NEW x \in Scores, NEW y \in Scores
  PROVE  /\ x \in Int /\ y \in Int /\ x >= x /\ (~ (x >= y) <=> y > x)
         /\ y > x <=> y >= x /\ y # x
         /\ \A z \in Scores : (z >= x /\ x >= y => z >= y) /\ (z >= x /\ x > y => z > y)
<1>1. \A z \in Scores : z \in Int
  BY RetrievalCallsAssumption
<1> QED
  BY <1>1

\* Scores are finitely many numbers; NaN is none.
LEMMA ScoreFacts ==
  /\ Scores \subseteq Int /\ IsFiniteSet(Scores) /\ NaN \notin Scores
  /\ IsFiniteSet(Ranking!Elements) /\ Scores \subseteq Ranking!Elements
  /\ NaN \in Ranking!Elements /\ Counts \subseteq Nat /\ Lengths \subseteq Nat
<1>1. Scores \subseteq Int /\ IsFiniteSet(Scores) /\ NaN \notin Scores /\ Counts \cup Lengths \subseteq Nat
  BY RetrievalCallsAssumption
<1>2. IsFiniteSet(Scores \cup {NaN})
  BY <1>1, FS_Singleton, FS_Union
<1> QED
  BY <1>1, <1>2 DEF Ranking!Elements

\* The copies of the elements of one part and of one more score.
LEMMA CopiesParts ==
  ASSUME NEW bag \in [Ranking!Elements -> Nat], NEW S \in SUBSET Ranking!Elements, NEW x \in Ranking!Elements, x \notin S
  PROVE  /\ Copies(bag, S \cup {x}) = Copies(bag, S) \cup ({x} \X (1..bag[x]))
         /\ Copies(bag, S) \cap ({x} \X (1..bag[x])) = {}
<1>1. \A c : c \in Copies(bag, S) => \E y \in S : c \in {y} \X (1..bag[y])
  BY DEF Copies, Ranking!Copies
<1> QED
  BY <1>1 DEF Copies, Ranking!Copies

\* There are as many copies of a score as the bag holds.
LEMMA CopiesOfOne ==
  ASSUME NEW n \in Nat, NEW x
  PROVE  IsFiniteSet({x} \X (1..n)) /\ Cardinality({x} \X (1..n)) = n
<1>1. IsFiniteSet({x}) /\ Cardinality({x}) = 1
  BY FS_Singleton
<1>2. IsFiniteSet(1..n) /\ Cardinality(1..n) = n
  BY FS_Interval
<1> QED
  <2>1. /\ IsFiniteSet({x} \X (1..n))
        /\ Cardinality({x} \X (1..n)) = Cardinality({x}) * Cardinality(1..n)
    BY <1>1, <1>2, FS_Product
  <2>2. 1 * n = n
    OBVIOUS
  <2> QED
    BY <1>1, <1>2, <2>1, <2>2

\* A bag has finitely many copies of a finite number of scores.
LEMMA CopiesFinite ==
  ASSUME NEW bag \in [Ranking!Elements -> Nat], NEW S \in SUBSET Ranking!Elements
  PROVE  IsFiniteSet(Copies(bag, S)) /\ Cardinality(Copies(bag, S)) \in Nat
<1> DEFINE T == {{e} \X (1..bag[e]) : e \in S}
<1>1. IsFiniteSet(S)
  BY ScoreFacts, FS_Subset
<1>2. IsFiniteSet(T)
  <2> DEFINE f == [e \in S |-> {e} \X (1..bag[e])]
  <2>1. f \in Surjection(S, T)
    BY DEF Surjection
  <2> QED
    BY <1>1, <2>1, FS_Surjection
<1>3. \A t \in T : IsFiniteSet(t)
  BY CopiesOfOne
<1>4. IsFiniteSet(UNION T)
  BY <1>2, <1>3, FS_UNION
<1> QED
  BY <1>4, FS_CardinalityType DEF Copies, Ranking!Copies

\* A non-empty finite set of numbers has a largest member.
LEMMA LargestMember ==
  ASSUME NEW S \in SUBSET Int, IsFiniteSet(S), S # {}
  PROVE  \E x \in S : \A y \in S : y <= x
<1> DEFINE Above(x) == {y \in S : y > x}
           N == {Cardinality(Above(x)) : x \in S}
<1>1. \A x \in S : IsFiniteSet(Above(x)) /\ Cardinality(Above(x)) \in Nat
  BY FS_Subset, FS_CardinalityType
<1>2. N \in SUBSET Nat /\ N # {}
  BY <1>1
<1>3. PICK n \in N : \A m \in N : n <= m
  BY <1>2, SmallestOf
<1>4. PICK x \in S : Cardinality(Above(x)) = n
  BY <1>3
<1>5. ASSUME NEW y \in S, y > x PROVE FALSE
  <2>a. \A z \in S : z \in Int
    OBVIOUS
  <2>b. ASSUME NEW z \in Above(y) PROVE z \in Above(x)
    <3>1. z \in Int /\ y \in Int /\ x \in Int /\ z > y
      BY <2>a
    <3> QED
      BY <1>5, <3>1
  <2>1. Above(y) \subseteq Above(x) /\ y \in Above(x) /\ y \notin Above(y)
    <3>1. y \in Int /\ y \in Above(x) /\ y \notin Above(y)
      BY <1>5, <2>a
    <3> QED
      BY <2>b, <3>1
  <2>2. Cardinality(Above(y)) <= Cardinality(Above(x)) /\ Cardinality(Above(x)) # Cardinality(Above(y))
    BY <1>1, <2>1, FS_Subset
  <2>3. Cardinality(Above(x)) <= Cardinality(Above(y))
    BY <1>3, <1>4
  <2> QED
    BY <1>1, <2>2, <2>3
<1> QED
  BY <1>4, <1>5

\* And a smallest one.
LEMMA SmallestMember ==
  ASSUME NEW S \in SUBSET Int, IsFiniteSet(S), S # {}
  PROVE  \E x \in S : \A y \in S : x <= y
<1> DEFINE T == {-x : x \in S}
           f == [x \in S |-> -x]
<1>1. f \in Surjection(S, T)
  BY DEF Surjection
<1>2. T \in SUBSET Int /\ IsFiniteSet(T) /\ T # {}
  <2>1. IsFiniteSet(T)
    BY <1>1, FS_Surjection
  <2>2. \A x \in S : x \in Int /\ -x \in Int
    OBVIOUS
  <2> QED
    BY <2>1, <2>2
<1>3. PICK t \in T : \A u \in T : u <= t
  BY <1>2, LargestMember
<1>4. PICK x \in S : t = -x
  OBVIOUS
<1>5. \A y \in S : -y <= -x
  BY <1>3, <1>4
<1> QED
  BY <1>4, <1>5

\* More scores have more copies; the copies of x and of what is above x make up those x reaches.
LEMMA ReachFacts ==
  ASSUME NEW bag \in [Ranking!Elements -> Nat], NEW x \in Scores
  PROVE  /\ Reach(bag, x) \in Nat /\ Reach(bag, x) <= Cardinality(Copies(bag, Scores))
         /\ Reach(bag, x) = Cardinality(Copies(bag, {y \in Scores : y > x})) + bag[x]
         /\ \A y \in Scores : y >= x => Reach(bag, y) <= Reach(bag, x)
<1> DEFINE From(z) == {y \in Scores : y >= z}
           Above == {y \in Scores : y > x}
<1>1. \A S, T \in SUBSET Ranking!Elements :
        S \subseteq T => Cardinality(Copies(bag, S)) <= Cardinality(Copies(bag, T))
  <2> SUFFICES ASSUME NEW S \in SUBSET Ranking!Elements, NEW T \in SUBSET Ranking!Elements, S \subseteq T
               PROVE  Cardinality(Copies(bag, S)) <= Cardinality(Copies(bag, T))
    OBVIOUS
  <2>1. Copies(bag, S) \subseteq Copies(bag, T)
    BY DEF Copies, Ranking!Copies
  <2> QED
    BY <2>1, CopiesFinite, FS_Subset
<1>2. \A z \in Scores : Reach(bag, z) = Cardinality(Copies(bag, From(z)))
  BY ReachIs
<1>3. x \in Int /\ x \in Ranking!Elements /\ \A z \in Scores : From(z) \in SUBSET Ranking!Elements
  BY ScoreFacts
<1>4. Reach(bag, x) \in Nat /\ Reach(bag, x) <= Cardinality(Copies(bag, Scores))
  BY <1>1, <1>2, <1>3, CopiesFinite, ScoreFacts
<1>5. ASSUME NEW y \in Scores, y >= x PROVE Reach(bag, y) <= Reach(bag, x)
  <2>1. From(y) \subseteq From(x)
    BY <1>5, ScoreOrder
  <2> QED
    BY <1>1, <1>2, <1>3, <2>1
<1>6. Reach(bag, x) = Cardinality(Copies(bag, Above)) + bag[x]
  <2>1. From(x) = Above \cup {x} /\ x \notin Above /\ Above \in SUBSET Ranking!Elements
    BY ScoreFacts, ScoreOrder
  <2> HIDE DEF From, Above
  <2>2. /\ Copies(bag, From(x)) = Copies(bag, Above) \cup ({x} \X (1..bag[x]))
        /\ Copies(bag, Above) \cap ({x} \X (1..bag[x])) = {}
    BY <1>3, <2>1, CopiesParts
  <2>3. /\ IsFiniteSet(Copies(bag, Above)) /\ Cardinality(Copies(bag, Above)) \in Nat
        /\ IsFiniteSet({x} \X (1..bag[x])) /\ Cardinality({x} \X (1..bag[x])) = bag[x] /\ bag[x] \in Nat
    BY <1>3, <2>1, CopiesFinite, CopiesOfOne
  <2>4. Cardinality(Copies(bag, From(x))) = Cardinality(Copies(bag, Above)) + bag[x] - 0
    BY <2>2, <2>3, FS_Union, FS_EmptySet
  <2> QED
    BY <1>2, <2>3, <2>4
<1> QED
  BY <1>4, <1>5, <1>6

\* What sorting gives: the i-th place holds at least x just when i elements reach x.
LEMMA SortedFacts ==
  ASSUME NEW bag \in [Ranking!Elements -> Nat]
  PROVE  LET s == Ranking!sorted(bag)
             total == Cardinality(Copies(bag, Scores))
         IN  /\ s \in Seq(Scores) /\ Len(s) = total /\ total \in Nat
             /\ \A i \in 1..total : \A x \in Scores : s[i] >= x <=> i <= Reach(bag, x)
<1> DEFINE s == Ranking!sorted(bag)
           total == Cardinality(Copies(bag, Scores))
           At(i) == CHOOSE x \in Scores : Reach(bag, x) >= i /\ Reach(bag, x) - bag[x] < i
<1>1. total \in Nat
  BY CopiesFinite, ScoreFacts
<1>2. s = [i \in 1..total |-> At(i)]
  <2>1. Ranking!Cardinality(Copies(bag, Scores)) = total
    BY RankingCardinality
  <2> HIDE DEF total
  <2> QED
    BY <2>1 DEF Ranking!sorted, Copies, Reach
<1>3. ASSUME NEW i \in 1..total
      PROVE  \E x \in Scores : Reach(bag, x) >= i /\ Reach(bag, x) - bag[x] < i
  <2> DEFINE R == {x \in Scores : Reach(bag, x) >= i}
  <2>1. R # {}
    <3>1. Scores # {}
      <4>1. ASSUME Scores = {} PROVE total = 0
        BY <4>1, FS_EmptySet DEF Copies, Ranking!Copies
      <4> QED
        BY <1>1, <4>1
    <3>2. PICK x \in Scores : \A y \in Scores : x <= y
      BY <3>1, ScoreFacts, SmallestMember
    <3>3. {y \in Scores : y >= x} = Scores
      BY <3>2, ScoreFacts
    <3>4. Reach(bag, x) = total
      BY <3>3, ReachIs
    <3> QED
      BY <1>1, <3>4
  <2>2. R \in SUBSET Int /\ IsFiniteSet(R)
    BY ScoreFacts, FS_Subset
  <2>3. PICK x \in R : \A y \in R : y <= x
    BY <2>1, <2>2, LargestMember
  <2> DEFINE Above == {y \in Scores : y > x}
  <2>4. x \in Scores /\ Reach(bag, x) >= i /\ x \in Int
    BY <2>3, ScoreFacts
  <2>5. Reach(bag, x) = Cardinality(Copies(bag, Above)) + bag[x] /\ bag[x] \in Nat
    BY <2>4, ReachFacts, ScoreFacts
  <2>6. Cardinality(Copies(bag, Above)) < i
    <3>1. CASE Above = {}
      <4>1. Copies(bag, Above) = {}
        BY <3>1 DEF Copies, Ranking!Copies
      <4> QED
        BY <4>1, FS_EmptySet
    <3>2. CASE Above # {}
      <4>1. Above \in SUBSET Int /\ IsFiniteSet(Above)
        BY ScoreFacts, FS_Subset
      <4>2. PICK z \in Above : \A y \in Above : z <= y
        BY <3>2, <4>1, SmallestMember
      <4>3. Above = {y \in Scores : y >= z}
        <5>1. z \in Scores /\ z > x
          BY <4>2
        <5>2. ASSUME NEW y \in Scores, y >= z PROVE y > x
          BY <2>4, <5>1, <5>2, ScoreOrder
        <5> QED
          BY <4>2, <5>1, <5>2, ScoreOrder
      <4>4. Cardinality(Copies(bag, Above)) = Reach(bag, z) /\ z \in Scores /\ Reach(bag, z) \in Nat
        BY <4>3, ReachFacts, ReachIs
      <4>5. z \notin R
        BY <2>3, <2>4, <4>2, ScoreFacts
      <4> QED
        BY <4>4, <4>5
    <3> QED
      BY <3>1, <3>2
  <2>7. Cardinality(Copies(bag, Above)) \in Nat
    BY CopiesFinite, ScoreFacts
  <2> QED
    BY <2>4, <2>5, <2>6, <2>7
<1>4. ASSUME NEW i \in 1..total
      PROVE  At(i) \in Scores /\ Reach(bag, At(i)) >= i /\ Reach(bag, At(i)) - bag[At(i)] < i
  BY <1>3
<1> HIDE DEF total
<1>5. ASSUME NEW i \in 1..total, NEW x \in Scores PROVE At(i) >= x <=> i <= Reach(bag, x)
  <2> DEFINE a == At(i)
  <2>1. a \in Scores /\ Reach(bag, a) >= i /\ Reach(bag, a) - bag[a] < i
    BY <1>4
  <2> HIDE DEF a
  <2>2. ASSUME a >= x PROVE i <= Reach(bag, x)
    <3>1. Reach(bag, a) <= Reach(bag, x) /\ Reach(bag, a) \in Nat /\ Reach(bag, x) \in Nat
      BY <2>1, <2>2, ReachFacts
    <3> QED
      BY <2>1, <3>1
  <2>3. ASSUME i <= Reach(bag, x), ~ (a >= x) PROVE FALSE
    <3> DEFINE From == {y \in Scores : y >= x}
               Above == {y \in Scores : y > a}
    <3>1. From \subseteq Above /\ Above \in SUBSET Ranking!Elements
      BY <2>1, <2>3, ScoreFacts, ScoreOrder
    <3>2. Copies(bag, From) \subseteq Copies(bag, Above)
      BY <3>1 DEF Copies, Ranking!Copies
    <3> HIDE DEF Above
    <3>3. /\ Cardinality(Copies(bag, From)) <= Cardinality(Copies(bag, Above))
          /\ Cardinality(Copies(bag, Above)) \in Nat
      BY <3>1, <3>2, CopiesFinite, FS_Subset
    <3>4. Reach(bag, x) = Cardinality(Copies(bag, From)) /\ Reach(bag, x) \in Nat
      BY ReachFacts, ReachIs
    <3>5. Reach(bag, a) = Cardinality(Copies(bag, Above)) + bag[a] /\ bag[a] \in Nat
      BY <2>1, ReachFacts, ScoreFacts DEF Above
    <3> QED
      BY <2>1, <2>3, <3>3, <3>4, <3>5
  <2> QED
    BY <2>2, <2>3 DEF a
<1>6. \A i \in 1..total : s[i] = At(i)
  BY <1>2
<1>7. s \in Seq(Scores) /\ Len(s) = total
  BY <1>1, <1>2, <1>4 DEF total
<1> QED
  BY <1>1, <1>5, <1>6, <1>7 DEF total

\* A bag with one more element of score e.
More(bag, e) == [bag EXCEPT ![e] = @ + 1]

\* One more element in a bag is one more among those of any set it belongs to.
LEMMA OneMore ==
  ASSUME NEW bag \in [Ranking!Elements -> Nat], NEW e \in Ranking!Elements
  PROVE  /\ More(bag, e) \in [Ranking!Elements -> Nat]
         /\ \A S \in SUBSET Ranking!Elements :
               Cardinality(Copies(More(bag, e), S))
                 = Cardinality(Copies(bag, S)) + (IF e \in S THEN 1 ELSE 0)
<1> DEFINE new == More(bag, e)
<1>1. new \in [Ranking!Elements -> Nat] /\ bag[e] \in Nat
  BY DEF More
<1>2. ASSUME NEW S \in SUBSET Ranking!Elements
      PROVE  Cardinality(Copies(new, S)) = Cardinality(Copies(bag, S)) + (IF e \in S THEN 1 ELSE 0)
  <2>1. \A c : c \in Copies(new, S) <=> \E y \in S : \E i \in 1..new[y] : c = <<y, i>>
    BY DEF Copies, Ranking!Copies
  <2>2. \A c : c \in Copies(bag, S) <=> \E y \in S : \E i \in 1..bag[y] : c = <<y, i>>
    BY DEF Copies, Ranking!Copies
  <2>3. \A y \in S : new[y] = IF y = e THEN bag[y] + 1 ELSE bag[y]
    BY DEF More
  <2>4. 1..bag[e] + 1 = (1..bag[e]) \cup {bag[e] + 1} /\ bag[e] + 1 \notin 1..bag[e]
    BY <1>1
  <2>5. CASE e \in S
    <3> DEFINE c == <<e, bag[e] + 1>>
    <3>1. Copies(new, S) = Copies(bag, S) \cup {c}
      <4>1. ASSUME NEW y \in S, NEW i \in 1..new[y] PROVE <<y, i>> \in Copies(bag, S) \cup {c}
        BY <2>2, <2>3, <2>4
      <4>2. ASSUME NEW y \in S, NEW i \in 1..bag[y] PROVE <<y, i>> \in Copies(new, S)
        BY <2>1, <2>3, <2>4
      <4>3. c \in Copies(new, S)
        BY <2>1, <2>3, <2>4, <2>5
      <4> QED
        <5>1. ASSUME NEW d \in Copies(new, S) PROVE d \in Copies(bag, S) \cup {c}
          <6>1. PICK y \in S : \E i \in 1..new[y] : d = <<y, i>>
            BY <5>1, <2>1
          <6>2. PICK i \in 1..new[y] : d = <<y, i>>
            BY <6>1
          <6> QED
            BY <4>1, <6>2
        <5>2. ASSUME NEW d \in Copies(bag, S) PROVE d \in Copies(new, S)
          <6>1. PICK y \in S : \E i \in 1..bag[y] : d = <<y, i>>
            BY <5>2, <2>2
          <6>2. PICK i \in 1..bag[y] : d = <<y, i>>
            BY <6>1
          <6> QED
            BY <4>2, <6>2
        <5> QED
          BY <4>3, <5>1, <5>2
    <3>2. c \notin Copies(bag, S)
      BY <2>2, <2>4
    <3> QED
      BY <2>5, <3>1, <3>2, CopiesFinite, FS_AddElement
  <2>6. CASE e \notin S
    <3>1. Copies(new, S) = Copies(bag, S)
      BY <2>1, <2>2, <2>3, <2>6
    <3> QED
      BY <2>6, <3>1, CopiesFinite
  <2> QED
    BY <2>5, <2>6
<1> QED
  BY <1>1, <1>2

\* Scores and NaN together are all that is read.
LEMMA ReadFacts ==
  ASSUME seen \in [Ranking!Elements -> Nat]
  PROVE  /\ Ranking!TotalRead = Cardinality(Copies(seen, Scores)) + seen[NaN]
         /\ Ranking!TotalRead \in Nat /\ Cardinality(Copies(seen, Scores)) \in Nat /\ seen[NaN] \in Nat
<1>1. Ranking!TotalRead = Cardinality(Copies(seen, Ranking!Elements))
  BY RankingCardinality DEF Ranking!TotalRead, Copies
<1>2. Ranking!Elements = Scores \cup {NaN} /\ NaN \notin Scores /\ Scores \in SUBSET Ranking!Elements
      /\ NaN \in Ranking!Elements /\ seen[NaN] \in Nat
  BY ScoreFacts DEF Ranking!Elements
<1>3. /\ Copies(seen, Ranking!Elements) = Copies(seen, Scores) \cup ({NaN} \X (1..seen[NaN]))
      /\ Copies(seen, Scores) \cap ({NaN} \X (1..seen[NaN])) = {}
  BY <1>2, CopiesParts
<1>4. /\ IsFiniteSet(Copies(seen, Scores)) /\ Cardinality(Copies(seen, Scores)) \in Nat
      /\ IsFiniteSet({NaN} \X (1..seen[NaN])) /\ Cardinality({NaN} \X (1..seen[NaN])) = seen[NaN]
  BY <1>2, CopiesFinite, CopiesOfOne
<1>5. Cardinality(Copies(seen, Ranking!Elements)) = Cardinality(Copies(seen, Scores)) + seen[NaN] - 0
  BY <1>3, <1>4, FS_Union, FS_EmptySet
<1> QED
  BY <1>1, <1>2, <1>4, <1>5

\* r ranks the bag: its i-th place holds at least x just when i elements reach x.
Ranks(r, bag) ==
    /\ r \in Seq(Scores)
    /\ \A i \in 1..Len(r) : \A x \in Scores : r[i] >= x <=> i <= Reach(bag, x)

\* The best n of a bag that has so many are the sequence of that length that ranks it.
LEMMA BestFacts ==
  ASSUME NEW bag \in [Ranking!Elements -> Nat], NEW n \in Nat,
         n <= Cardinality(Copies(bag, Scores))
  PROVE  LET best == Ranking!prefix(Ranking!sorted(bag), n)
         IN  /\ Len(best) = n /\ Ranks(best, bag)
             /\ \A r : Len(r) = n /\ Ranks(r, bag) => r = best
<1> DEFINE s == Ranking!sorted(bag)
           total == Cardinality(Copies(bag, Scores))
           best == Ranking!prefix(s, n)
<1>1. /\ s \in Seq(Scores) /\ Len(s) = total /\ total \in Nat
      /\ \A i \in 1..total : \A x \in Scores : s[i] >= x <=> i <= Reach(bag, x)
  BY SortedFacts
<1> HIDE DEF s
<1>2. best = SubSeq(s, 1, n)
  BY <1>1 DEF Ranking!prefix
<1> HIDE DEF best, total
<1>3. n <= total
  BY DEF total
<1>4. best \in Seq(Scores) /\ Len(best) = n /\ \A i \in 1..n : best[i] = s[i]
  BY <1>1, <1>2, <1>3, SubSeqProperties
<1>5. Ranks(best, bag)
  BY <1>1, <1>3, <1>4 DEF Ranks
<1>6. ASSUME NEW r, Len(r) = n, Ranks(r, bag) PROVE r = best
  <2>1. r \in Seq(Scores) /\ \A i \in 1..n : r[i] \in Scores /\ best[i] \in Scores
    BY <1>4, <1>6 DEF Ranks
  <2>2. ASSUME NEW i \in 1..n PROVE r[i] = best[i]
    <3>1. r[i] >= r[i] /\ best[i] >= best[i]
      BY <2>1, <2>2, ScoreOrder
    <3>2. best[i] >= r[i] /\ r[i] >= best[i]
      BY <1>4, <1>5, <1>6, <2>1, <3>1 DEF Ranks
    <3>3. r[i] \in Int /\ best[i] \in Int
      BY <2>1, ScoreOrder
    <3> QED
      BY <3>2, <3>3
  <2> QED
    BY <1>4, <1>6, <2>1, <2>2, SeqEqual
<1> QED
  BY <1>4, <1>5, <1>6 DEF best, s

\* Numbers compare as scores.
LEMMA PrecedesFacts ==
  ASSUME NEW a \in Scores, NEW b \in Scores
  PROVE  Ranking!areInIncreasingOrder(a, b) <=> ~ (b >= a)
BY ScoreOrder, ScoreFacts DEF Ranking!areInIncreasingOrder

\* A ranking is in order, so that partition leaves every place as it is.
LEMMA PartitionKeeps ==
  ASSUME NEW bag \in [Ranking!Elements -> Nat], Ranks(result, bag), NEW e \in Scores,
         NEW p \in Ranking!Orders(e)
  PROVE  p = [i \in 1..Len(result) |-> i]
<1> DEFINE n == Len(result)
           fits(q) == \A i, j \in 1..n :
              i < j /\ Ranking!areInIncreasingOrder(e, result[q[i]])
                => Ranking!areInIncreasingOrder(e, result[q[j]])
           same == [i \in 1..n |-> i]
<1>1. result \in Seq(Scores) /\ n \in Nat /\ \A i \in 1..n : result[i] \in Scores
  BY DEF Ranks
<1>2. Reach(bag, e) \in Nat
  BY ReachFacts
<1>3. ASSUME NEW i \in 1..n, NEW j \in 1..n, i < j, Ranking!areInIncreasingOrder(e, result[i])
      PROVE  Ranking!areInIncreasingOrder(e, result[j])
  <2>1. ~ (result[i] >= e)
    BY <1>1, <1>3, PrecedesFacts
  <2>2. result[j] >= e => j <= Reach(bag, e)
    BY DEF Ranks
  <2>3. i <= Reach(bag, e) => result[i] >= e
    BY DEF Ranks
  <2>4. ~ (result[j] >= e)
    BY <1>2, <1>3, <2>1, <2>2, <2>3
  <2> QED
    BY <1>1, <2>4, PrecedesFacts
<1>4. fits(same)
  BY <1>3
<1>5. Ranking!Orders(e) = IF fits(same) THEN {same} ELSE {q \in Ranking!Injection(1..n, 1..n) : fits(q)}
  BY DEF Ranking!Orders
<1> HIDE DEF same, fits
<1>6. Ranking!Orders(e) = {same}
  BY <1>4, <1>5
<1> QED
  BY <1>6 DEF same

\* One more element leaves a ranking a ranking, which it enters where those it precedes begin.
LEMMA InsertRanks ==
  ASSUME NEW bag \in [Ranking!Elements -> Nat], Ranks(result, bag), result # << >>,
         NEW e \in Scores, NEW new, new = More(bag, e)
  PROVE  /\ Ranking!areInIncreasingOrder(result[Len(result)], e) => Ranks(result, new)
         /\ ~ Ranking!areInIncreasingOrder(result[Len(result)], e) =>
               \A p \in Ranking!Orders(e) :
                  /\ Ranks(Ranking!insert(e, p), new)
                  /\ Len(Ranking!insert(e, p)) = Len(result)
<1> DEFINE n == Len(result)
<1>1. result \in Seq(Scores) /\ n \in Nat /\ n > 0 /\ \A i \in 1..n : result[i] \in Scores
  BY EmptySeq DEF Ranks
<1>2. \A i \in 1..n : \A x \in Scores : result[i] >= x <=> i <= Reach(bag, x)
  BY DEF Ranks
<1>a. \A S \in SUBSET Ranking!Elements :
         Cardinality(Copies(new, S)) = Cardinality(Copies(bag, S)) + (IF e \in S THEN 1 ELSE 0)
  BY ScoreFacts, OneMore
<1>3. ASSUME NEW x \in Scores
      PROVE  /\ Reach(bag, x) \in Nat
             /\ Reach(new, x) = Reach(bag, x) + (IF e >= x THEN 1 ELSE 0)
  <2> DEFINE S == {y \in Scores : y >= x}
  <2>1. S \in SUBSET Ranking!Elements /\ e \in Ranking!Elements
    BY ScoreFacts
  <2>2. e \in S <=> e >= x
    OBVIOUS
  <2> HIDE DEF S
  <2>3. Cardinality(Copies(new, S)) = Cardinality(Copies(bag, S)) + (IF e \in S THEN 1 ELSE 0)
    BY <1>a, <2>1
  <2> QED
    BY <2>2, <2>3, ReachIs, ReachFacts DEF S
<1> DEFINE k == Reach(bag, e)
           least == result[n]
<1>4. k \in Nat /\ n \in 1..n /\ least \in Scores
  BY <1>1, <1>3
<1>5. ASSUME Ranking!areInIncreasingOrder(least, e) PROVE Ranks(result, new)
  <2>1. ~ (e >= least)
    BY <1>4, <1>5, PrecedesFacts
  <2>2. ASSUME NEW i \in 1..n, NEW x \in Scores PROVE result[i] >= x <=> i <= Reach(new, x)
    <3>1. CASE e >= x
      <4>1. least >= x
        BY <1>4, <2>1, <3>1, ScoreOrder
      <4>2. n <= Reach(bag, x)
        BY <1>2, <1>4, <4>1
      <4> QED
        <5>1. Reach(new, x) = Reach(bag, x) + 1 /\ Reach(bag, x) \in Nat
          BY <1>3, <3>1
        <5>2. i <= Reach(bag, x)
          BY <1>1, <4>2, <5>1
        <5> QED
          BY <1>2, <5>1, <5>2
    <3>2. CASE ~ (e >= x)
      <4>1. Reach(new, x) = Reach(bag, x)
        <5>1. Reach(new, x) = Reach(bag, x) + 0 /\ Reach(bag, x) \in Nat
          BY <1>3, <3>2
        <5> QED
          BY <5>1
      <4> QED
        BY <1>2, <4>1
    <3> QED
      BY <3>1, <3>2
  <2> QED
    BY <1>1, <2>2 DEF Ranks
<1>6. ASSUME ~ Ranking!areInIncreasingOrder(least, e), NEW p \in Ranking!Orders(e)
      PROVE  Ranks(Ranking!insert(e, p), new) /\ Len(Ranking!insert(e, p)) = n
  <2> DEFINE ahead == {i \in 1..n : ~ Ranking!areInIncreasingOrder(e, result[i])}
             m == IF k <= n THEN k ELSE n
             place == IF k < n THEN k + 1 ELSE n
             r == [i \in 1..n |-> IF i < place THEN result[i]
                                  ELSE IF i = place THEN e ELSE result[i - 1]]
  <2>1. ahead = 1..m
    <3>1. \A i \in 1..n : ~ Ranking!areInIncreasingOrder(e, result[i]) <=> i <= k
      BY <1>1, <1>2, PrecedesFacts
    <3>2. \A i \in 1..n : i \in 1..m <=> i <= k
      BY <1>1, <1>4
    <3>3. 1..m \subseteq 1..n
      BY <1>1, <1>4
    <3> QED
      BY <3>1, <3>2, <3>3
  <2>2. Cardinality(ahead) = m
    <3>1. m \in Nat /\ (IF 1 > m THEN 0 ELSE m - 1 + 1) = m
      BY <1>1, <1>4
    <3> HIDE DEF m, ahead
    <3> QED
      BY <2>1, <3>1, FS_Interval
  <2>3. Ranking!Cardinality(ahead) = m
    BY <2>2, RankingCardinality
  <2>4. p = [i \in 1..n |-> i]
    BY <1>6, PartitionKeeps
  <2>5. (IF Ranking!Cardinality(ahead) < n THEN Ranking!Cardinality(ahead) + 1 ELSE n) = place
    BY <1>1, <1>4, <2>3
  <2>6. place \in 1..n
    BY <1>1, <1>4
  <2>a. Ranking!insert(e, p) = [i \in 1..n |-> IF i < place THEN result[p[i]]
                                  ELSE IF i = place THEN e ELSE result[p[i - 1]]]
    <3> HIDE DEF place
    <3> QED
      BY <2>5 DEF Ranking!insert
  <2> HIDE DEF place
  <2>7. Ranking!insert(e, p) = r
    <3>1. \A i \in 1..n : i > place => i - 1 \in 1..n
      BY <1>1, <2>6
    <3>2. \A i \in 1..n : p[i] = i
      BY <2>4
    <3>3. \A i \in 1..n : (IF i < place THEN result[p[i]] ELSE IF i = place THEN e ELSE result[p[i - 1]])
                        = (IF i < place THEN result[i] ELSE IF i = place THEN e ELSE result[i - 1])
      BY <2>6, <3>1, <3>2
    <3> QED
      BY <2>a, <3>3
  <2>8. \A i \in 1..n : r[i] \in Scores
    <3>1. \A i \in 1..n : i > place => i - 1 \in 1..n
      BY <1>1, <2>6
    <3> QED
      BY <1>1, <2>6, <3>1
  <2>9. r \in Seq(Scores) /\ Len(r) = n
    BY <1>1, <2>8
  <2>10. ASSUME NEW i \in 1..n, NEW x \in Scores PROVE r[i] >= x <=> i <= Reach(new, x)
    <3>1. e >= x => k <= Reach(bag, x)
      BY ReachFacts
    <3>2. ~ (e >= x) => Reach(bag, x) <= k
      BY ScoreOrder, ReachFacts
    <3>3. ASSUME NEW j \in 1..n PROVE result[j] >= e <=> j <= k
      BY <1>2
    <3>4. ASSUME ~ (k < n) PROVE result[n] = e
      <4>1. e >= result[n] /\ result[n] >= e
        BY <1>1, <1>4, <1>6, <3>3, <3>4, PrecedesFacts
      <4> QED
        BY <1>4, <4>1, ScoreOrder
    <3>5. /\ i < place => r[i] = result[i]
          /\ i = place => r[i] = e
          /\ i > place => r[i] = result[i - 1] /\ i - 1 \in 1..n
      BY <1>1, <2>6
    <3>6. place = (IF k < n THEN k + 1 ELSE n) /\ place \in 1..n
      BY <2>6 DEF place
    <3> DEFINE q == Reach(bag, x)
    <3>7. q \in Nat
      BY <1>3
    <3> HIDE DEF r, q, k
    <3>8. CASE e >= x
      <4>1. Reach(new, x) = q + 1 /\ k <= q
        BY <1>3, <3>1, <3>8 DEF q
      <4>2. CASE i < place
        <5>1. i <= k
          BY <1>1, <1>4, <3>6, <4>2
        <5>2. result[i] >= x
          BY <1>1, <3>3, <3>8, <5>1, ScoreOrder
        <5>3. i <= q
          BY <1>4, <3>7, <4>1, <5>1
        <5> QED
          BY <3>5, <3>7, <4>1, <4>2, <5>2, <5>3
      <4>3. CASE i = place
        <5>1. i <= k + 1
          BY <1>1, <1>4, <3>6, <4>3
        <5> QED
          BY <1>4, <3>5, <3>7, <3>8, <4>1, <4>3, <5>1
      <4>4. CASE i > place
        <5>1. i - 1 \in 1..n /\ r[i] = result[i - 1]
          BY <3>5, <4>4
        <5>2. result[i - 1] >= x <=> i - 1 <= q
          BY <1>2, <5>1 DEF q
        <5> QED
          BY <3>7, <4>1, <5>1, <5>2
      <4> QED
        BY <1>1, <3>6, <4>2, <4>3, <4>4
    <3>9. CASE ~ (e >= x)
      <4>1. Reach(new, x) = q /\ q <= k
        <5>1. Reach(new, x) = q + 0
          BY <1>3, <3>9 DEF q
        <5> QED
          BY <3>2, <3>7, <3>9, <5>1 DEF q
      <4>a. \A j \in 1..n : result[j] >= x <=> j <= q
        BY <1>2 DEF q
      <4>2. CASE i < place
        BY <3>5, <4>1, <4>2, <4>a
      <4>3. CASE i = place
        <5>1. CASE k < n
          BY <1>4, <3>5, <3>6, <3>7, <3>9, <4>1, <4>3, <5>1
        <5>2. CASE ~ (k < n)
          <6>1. i = n /\ r[i] = e /\ result[n] = e
            BY <3>4, <3>5, <3>6, <4>3, <5>2
          <6> QED
            BY <1>4, <3>9, <4>1, <4>a, <6>1
        <5> QED
          BY <5>1, <5>2
      <4>4. CASE i > place
        <5>1. i - 1 \in 1..n /\ r[i] = result[i - 1]
          BY <3>5, <4>4
        <5>2. k < n /\ i > k + 1
          BY <1>1, <1>4, <3>6, <4>4
        <5>3. ~ (i - 1 <= q) /\ ~ (i <= q)
          BY <1>4, <3>7, <4>1, <5>2
        <5> QED
          BY <4>1, <4>a, <5>1, <5>3
      <4> QED
        BY <1>1, <3>6, <4>2, <4>3, <4>4
    <3> QED
      BY <3>8, <3>9
  <2> QED
    BY <2>7, <2>9, <2>10 DEF Ranks
<1> QED
  BY <1>5, <1>6

\* Inserting keeps the number of results, of numbers and of others.
LEMMA InsertionTypes ==
  ASSUME result \in Seq(Ranking!Elements), result # << >>, NEW e \in Ranking!Elements,
         NEW p \in Ranking!Orders(e)
  PROVE  /\ Ranking!insert(e, p) \in Seq(Ranking!Elements)
         /\ Len(Ranking!insert(e, p)) = Len(result)
<1> DEFINE n == Len(result)
           fits(q) == \A i, j \in 1..n :
              i < j /\ Ranking!areInIncreasingOrder(e, result[q[i]])
                => Ranking!areInIncreasingOrder(e, result[q[j]])
           same == [i \in 1..n |-> i]
           ahead == {i \in 1..n : ~ Ranking!areInIncreasingOrder(e, result[i])}
           place == IF Ranking!Cardinality(ahead) < n THEN Ranking!Cardinality(ahead) + 1 ELSE n
           r == [i \in 1..n |-> IF i < place THEN result[p[i]]
                                ELSE IF i = place THEN e ELSE result[p[i - 1]]]
<1>1. n \in Nat /\ n > 0 /\ \A i \in 1..n : result[i] \in Ranking!Elements
  BY EmptySeq
<1>2. p \in [1..n -> 1..n]
  <2>1. Ranking!Orders(e) = IF fits(same) THEN {same} ELSE {q \in Ranking!Injection(1..n, 1..n) : fits(q)}
    BY DEF Ranking!Orders
  <2>2. \A q \in Ranking!Injection(1..n, 1..n) : q \in [1..n -> 1..n]
    BY DEF Ranking!Injection
  <2>3. same \in [1..n -> 1..n]
    OBVIOUS
  <2> HIDE DEF same, fits
  <2> QED
    BY <2>1, <2>2, <2>3
<1>3. place \in 1..n
  <2>1. ahead \subseteq 1..n
    OBVIOUS
  <2>2. IsFiniteSet(ahead)
    <3>1. IsFiniteSet(1..n)
      BY <1>1, FS_Interval
    <3> HIDE DEF ahead
    <3> QED
      BY <2>1, <3>1, FS_Subset
  <2>3. Cardinality(ahead) \in Nat /\ Ranking!Cardinality(ahead) = Cardinality(ahead)
    BY <2>2, FS_CardinalityType, RankingCardinality
  <2> HIDE DEF ahead
  <2> QED
    BY <1>1, <2>3
<1>4. Ranking!insert(e, p) = r
  BY DEF Ranking!insert
<1> HIDE DEF place
<1>5. ASSUME NEW i \in 1..n PROVE r[i] \in Ranking!Elements
  <2>1. CASE i < place
    BY <1>1, <1>2, <2>1
  <2>2. CASE i = place
    BY <2>2
  <2>3. CASE i > place
    <3>1. i - 1 \in 1..n
      BY <1>1, <1>3, <2>3
    <3>2. r[i] = result[p[i - 1]]
      BY <1>3, <2>3
    <3> QED
      BY <1>1, <1>2, <3>1, <3>2
  <2> QED
    BY <1>3, <2>1, <2>2, <2>3
<1>6. r \in Seq(Ranking!Elements) /\ Len(r) = n
  <2> DEFINE g(i) == IF i < place THEN result[p[i]] ELSE IF i = place THEN e ELSE result[p[i - 1]]
  <2>1. \A i \in 1..n : g(i) \in Ranking!Elements
    BY <1>5
  <2> HIDE DEF g
  <2>2. [i \in 1..n |-> g(i)] \in Seq(Ranking!Elements) /\ Len([i \in 1..n |-> g(i)]) = n
    BY <1>1, <2>1
  <2> QED
    BY <2>2 DEF g
<1> HIDE DEF r
<1>7. Ranking!insert(e, p) \in Seq(Ranking!Elements)
  BY <1>4, <1>6
<1>8. Len(Ranking!insert(e, p)) = Len(result)
  BY <1>4, <1>6
<1> QED
  BY <1>7, <1>8

\* The invariant of topK: while elements are read, the result has its length and is the best.
RankInv ==
    /\ count \in Counts /\ size \in Lengths /\ seen \in [Ranking!Elements -> Nat]
    /\ Ranking!TotalRead <= size
    /\ result \in Seq(Ranking!Elements) /\ Len(result) <= count
    /\ pc \in {"start", "rest", "done"}
    /\ pc = "start" => count > 0 /\ seen[NaN] = 0
    /\ pc = "rest" => /\ count > 0 /\ ~ Ranking!SortsAll
                      /\ Len(result) = Ranking!PrefixCount
                      /\ Ranking!PrefixCount <= Ranking!TotalRead
    /\ Ranking!ResultIsBestSoFar

\* How many results there are is a number, and one at least where the collection is read on.
LEMMA RankNumbers ==
  ASSUME RankInv
  PROVE  /\ count \in Nat /\ size \in Nat /\ Ranking!PrefixCount \in Nat
         /\ Ranking!PrefixCount <= count /\ Ranking!PrefixCount <= size
         /\ ~ Ranking!SortsAll /\ count > 0 => Ranking!PrefixCount > 0
<1>1. count \in Nat /\ size \in Nat
  BY ScoreFacts DEF RankInv
<1>2. Ranking!PrefixCount = IF count < size THEN count ELSE size
  BY DEF Ranking!PrefixCount
<1>3. Ranking!SortsAll <=> Ranking!PrefixCount >= size \div 10
  BY DEF Ranking!SortsAll
<1>4. size = 0 => size \div 10 = 0
  OBVIOUS
<1> QED
  BY <1>1, <1>2, <1>3, <1>4

\* Reading one element counts it.
LEMMA ReadsFacts ==
  ASSUME RankInv, NEW e \in Ranking!Elements, Ranking!Reads(e)
  PROVE  /\ seen' = More(seen, e) /\ seen' \in [Ranking!Elements -> Nat]
         /\ Ranking!TotalRead < size
         /\ Ranking!TotalRead' = Ranking!TotalRead + 1
<1>1. seen \in [Ranking!Elements -> Nat]
  BY DEF RankInv
<1>2. Ranking!TotalRead < size /\ seen' = More(seen, e)
  BY DEF Ranking!Reads, More
<1>3. Ranking!TotalRead = Cardinality(Copies(seen, Ranking!Elements))
  BY RankingCardinality DEF Ranking!TotalRead, Copies
<1>4. Ranking!TotalRead' = Cardinality(Copies(seen', Ranking!Elements))
  <2>1. Ranking!TotalRead' = Ranking!Cardinality(Ranking!Copies(seen', Ranking!Elements))
    BY DEF Ranking!TotalRead, Ranking!Elements
  <2> QED
    BY <2>1, RankingCardinality DEF Copies
<1>5. Cardinality(Copies(More(seen, e), Ranking!Elements)) = Cardinality(Copies(seen, Ranking!Elements)) + 1
  BY <1>1, OneMore
<1>6. seen' \in [Ranking!Elements -> Nat]
  BY <1>1, <1>2, OneMore
<1> QED
  BY <1>2, <1>3, <1>4, <1>5, <1>6

\* Nothing is read at the start.
LEMMA RankInit ==
  Ranking!Init => RankInv
<1> SUFFICES ASSUME Ranking!Init
             PROVE  RankInv
  OBVIOUS
<1>1. /\ count \in Counts /\ size \in Lengths /\ result = << >>
      /\ seen = [e \in Ranking!Elements |-> 0]
      /\ pc = IF count > 0 THEN "start" ELSE "done"
  BY DEF Ranking!Init
<1>2. count \in Nat /\ size \in Nat /\ seen[NaN] = 0 /\ seen \in [Ranking!Elements -> Nat]
  BY <1>1, ScoreFacts
<1>3. Ranking!TotalRead = 0
  <2>1. Copies(seen, Ranking!Elements) = {}
    <3>1. \A e \in Ranking!Elements : {e} \X (1..seen[e]) = {}
      BY <1>1
    <3> QED
      BY <3>1 DEF Copies, Ranking!Copies
  <2> QED
    BY <2>1, FS_EmptySet, RankingCardinality DEF Ranking!TotalRead, Copies
<1>4. result \in Seq(Ranking!Elements) /\ Len(result) = 0
  BY <1>1
<1>5. Ranking!ResultIsBestSoFar
  BY <1>1 DEF Ranking!ResultIsBestSoFar
<1> QED
  BY <1>1, <1>2, <1>3, <1>4, <1>5 DEF RankInv

\* While nothing but scores has been read, the result is the ranking of so many.
LEMMA ResultRanks ==
  ASSUME RankInv, pc = "rest", seen[NaN] = 0
  PROVE  Ranks(result, seen) /\ Ranking!PrefixCount <= Cardinality(Copies(seen, Scores))
<1>1. seen \in [Ranking!Elements -> Nat] /\ count > 0 /\ Ranking!PrefixCount <= Ranking!TotalRead
  BY DEF RankInv
<1>2. Ranking!PrefixCount \in Nat
  BY RankNumbers
<1>3. Ranking!PrefixCount <= Cardinality(Copies(seen, Scores))
  BY <1>1, ReadFacts
<1>4. result = Ranking!prefix(Ranking!sorted(seen), Ranking!PrefixCount)
  BY <1>1 DEF RankInv, Ranking!ResultIsBestSoFar
<1> QED
  BY <1>1, <1>2, <1>3, <1>4, BestFacts

\* Every step of topK keeps its invariant.
LEMMA RankStep ==
  RankInv /\ Ranking!Next => RankInv'
<1> SUFFICES ASSUME RankInv, Ranking!Next
             PROVE  RankInv'
  OBVIOUS
<1>1. /\ count \in Counts /\ size \in Lengths /\ seen \in [Ranking!Elements -> Nat]
      /\ count \in Nat /\ size \in Nat /\ Ranking!PrefixCount \in Nat
      /\ Ranking!PrefixCount <= count /\ Ranking!PrefixCount <= size
      /\ Ranking!TotalRead \in Nat
  BY RankNumbers, ReadFacts DEF RankInv
<1>2. UNCHANGED <<count, size>>
  BY DEF Ranking!Next, Ranking!ReadStart, Ranking!SortStart, Ranking!ReadRest, Ranking!Return
<1>3. Ranking!PrefixCount' = Ranking!PrefixCount /\ (Ranking!SortsAll' <=> Ranking!SortsAll)
  BY <1>2 DEF Ranking!PrefixCount, Ranking!SortsAll
<1>4. seen' = seen => Ranking!TotalRead' = Ranking!TotalRead
  BY DEF Ranking!TotalRead
<1>5. ASSUME NEW e \in Ranking!Elements, Ranking!ReadStart(e) PROVE RankInv'
  <2>1. pc = "start" /\ e \in Scores /\ Ranking!Reads(e) /\ UNCHANGED <<count, size, result, pc>>
    BY <1>5 DEF Ranking!ReadStart
  <2>2. /\ seen' = More(seen, e) /\ seen' \in [Ranking!Elements -> Nat]
        /\ Ranking!TotalRead < size /\ Ranking!TotalRead' = Ranking!TotalRead + 1
    BY <2>1, ReadsFacts
  <2>3. seen'[NaN] = 0
    BY <1>1, <2>1, <2>2, ScoreFacts DEF More, RankInv
  <2>4. Ranking!TotalRead' <= size
    BY <1>1, <2>2
  <2>5. Ranking!ResultIsBestSoFar'
    BY <2>1 DEF Ranking!ResultIsBestSoFar
  <2> QED
    BY <2>1, <2>2, <2>3, <2>4, <2>5 DEF RankInv
<1>6. CASE Ranking!SortStart
  <2> DEFINE best == Ranking!prefix(Ranking!sorted(seen), Ranking!PrefixCount)
  <2>1. /\ pc = "start" /\ result' = best /\ UNCHANGED <<count, size, seen>>
        /\ Ranking!TotalRead = IF Ranking!SortsAll THEN size ELSE Ranking!PrefixCount
        /\ pc' = IF Ranking!SortsAll THEN "done" ELSE "rest"
    BY <1>6 DEF Ranking!SortStart
  <2>2. seen[NaN] = 0 /\ count > 0
    BY <2>1 DEF RankInv
  <2>3. Ranking!PrefixCount <= Ranking!TotalRead
    BY <1>1, <2>1
  <2>4. Ranking!PrefixCount <= Cardinality(Copies(seen, Scores))
    BY <1>1, <2>2, <2>3, ReadFacts
  <2>5. Len(best) = Ranking!PrefixCount /\ best \in Seq(Scores)
    BY <1>1, <2>4, BestFacts DEF Ranks
  <2>6. best \in Seq(Ranking!Elements)
    <3> HIDE DEF best
    <3>1. \A i \in 1..Len(best) : best[i] \in Scores
      BY <2>5
    <3>2. \A i \in 1..Len(best) : best[i] \in Ranking!Elements
      BY <3>1 DEF Ranking!Elements
    <3> QED
      BY <2>5, <3>2
  <2>7. Ranking!ResultIsBestSoFar'
    BY <1>3, <2>1 DEF Ranking!ResultIsBestSoFar
  <2> HIDE DEF best
  <2>8. result' \in Seq(Ranking!Elements) /\ Len(result') = Ranking!PrefixCount
    BY <2>1, <2>5, <2>6
  <2> QED
    BY <1>1, <1>3, <1>4, <2>1, <2>2, <2>3, <2>7, <2>8 DEF RankInv
<1>7. ASSUME NEW e \in Ranking!Elements, Ranking!ReadRest(e) PROVE RankInv'
  <2> DEFINE keeps == Ranking!areInIncreasingOrder(result[Len(result)], e)
  <2>1. /\ pc = "rest" /\ Ranking!Reads(e) /\ UNCHANGED <<count, size, pc>>
        /\ result' \in IF keeps THEN {result} ELSE {Ranking!insert(e, p) : p \in Ranking!Orders(e)}
    BY <1>7 DEF Ranking!ReadRest
  <2>2. /\ seen' = More(seen, e) /\ seen' \in [Ranking!Elements -> Nat]
        /\ Ranking!TotalRead < size /\ Ranking!TotalRead' = Ranking!TotalRead + 1
    BY <2>1, ReadsFacts
  <2>3. /\ count > 0 /\ ~ Ranking!SortsAll /\ Len(result) = Ranking!PrefixCount
        /\ Ranking!PrefixCount <= Ranking!TotalRead /\ result \in Seq(Ranking!Elements)
    BY <2>1 DEF RankInv
  <2>4. result # << >>
    BY <2>3, RankNumbers
  <2> HIDE DEF keeps
  <2>5. result' \in Seq(Ranking!Elements) /\ Len(result') = Len(result)
    <3>1. CASE keeps
      BY <2>1, <2>3, <3>1
    <3>2. CASE ~ keeps
      <4>1. PICK p \in Ranking!Orders(e) : result' = Ranking!insert(e, p)
        BY <2>1, <3>2
      <4> QED
        BY <2>3, <2>4, <4>1, InsertionTypes
    <3> QED
      BY <3>1, <3>2
  <2>6. ASSUME seen'[NaN] = 0
        PROVE  result' = Ranking!prefix(Ranking!sorted(seen'), Ranking!PrefixCount)
    <3>1. e \in Scores /\ seen[NaN] = 0
      <4>1. seen[NaN] \in Nat /\ (e = NaN => seen'[NaN] = seen[NaN] + 1)
            /\ (e # NaN => seen'[NaN] = seen[NaN])
        BY <1>1, <2>2, ScoreFacts DEF More
      <4> QED
        BY <2>6, <4>1 DEF Ranking!Elements
    <3>2. Ranks(result, seen) /\ Ranking!PrefixCount <= Cardinality(Copies(seen, Scores))
      BY <2>1, <3>1, ResultRanks
    <3>3. Ranks(result', seen')
      <4>1. CASE keeps
        BY <1>1, <2>1, <2>2, <2>4, <3>1, <3>2, <4>1, InsertRanks DEF keeps
      <4>2. CASE ~ keeps
        <5>1. PICK p \in Ranking!Orders(e) : result' = Ranking!insert(e, p)
          BY <2>1, <4>2
        <5>2. Ranks(Ranking!insert(e, p), seen')
          BY <1>1, <2>2, <2>4, <3>1, <3>2, <4>2, InsertRanks DEF keeps
        <5> QED
          BY <5>1, <5>2
      <4> QED
        BY <4>1, <4>2
    <3>4. Cardinality(Copies(seen', Scores)) = Cardinality(Copies(seen, Scores)) + 1
      <4>1. Scores \in SUBSET Ranking!Elements
        BY ScoreFacts
      <4> QED
        BY <1>1, <2>2, <3>1, <4>1, OneMore
    <3>5. Cardinality(Copies(seen, Scores)) \in Nat
      BY <1>1, ReadFacts
    <3>6. Ranking!PrefixCount <= Cardinality(Copies(seen', Scores))
      BY <1>1, <3>2, <3>4, <3>5
    <3> QED
      BY <1>1, <2>2, <2>3, <2>5, <3>3, <3>6, BestFacts
  <2>7. Ranking!ResultIsBestSoFar'
    BY <1>3, <2>6 DEF Ranking!ResultIsBestSoFar
  <2>8. Ranking!TotalRead' <= size /\ Ranking!PrefixCount <= Ranking!TotalRead'
    BY <1>1, <2>2, <2>3
  <2> QED
    BY <1>1, <1>3, <2>1, <2>2, <2>3, <2>5, <2>7, <2>8 DEF RankInv
<1>8. CASE Ranking!Return
  <2>1. pc = "rest" /\ pc' = "done" /\ UNCHANGED <<count, size, seen, result>>
    BY <1>8 DEF Ranking!Return
  <2>2. Ranking!ResultIsBestSoFar'
    BY <1>3, <2>1 DEF RankInv, Ranking!ResultIsBestSoFar
  <2> QED
    BY <1>4, <2>1, <2>2 DEF RankInv
<1> QED
  BY <1>5, <1>6, <1>7, <1>8 DEF Ranking!Next

\* A step of none of topK's variables keeps it too.
LEMMA RankStutter ==
  RankInv /\ UNCHANGED <<count, size, seen, result, pc>> => RankInv'
<1> SUFFICES ASSUME RankInv, UNCHANGED <<count, size, seen, result, pc>>
             PROVE  RankInv'
  OBVIOUS
<1>1. Ranking!TotalRead' = Ranking!TotalRead
  BY DEF Ranking!TotalRead
<1>2. Ranking!PrefixCount' = Ranking!PrefixCount /\ (Ranking!SortsAll' <=> Ranking!SortsAll)
  BY DEF Ranking!PrefixCount, Ranking!SortsAll
<1>3. Ranking!ResultIsBestSoFar'
  BY <1>2 DEF RankInv, Ranking!ResultIsBestSoFar
<1> QED
  BY <1>1, <1>2, <1>3 DEF RankInv

\* The invariant says what is promised.
LEMMA RankCorrect ==
  RankInv => Ranking!Correct
  BY DEF RankInv, Ranking!Correct, Ranking!TypeOK

------------------------------------------------------------------------------
(* RecursiveTokenSplitter.split *)

------------------------------------------------------------------------------
(* RecursiveTokenSplitter *)

Flat(s) == Recursive!FlattenSeq(s)

\* f[i] is the first i sequences of s in one.
Flattens(f, s, n) == f = [i \in 1..n |-> IF i = 1 THEN s[i] ELSE f[i - 1] \o s[i]]

\* Sequences have a concatenation.
LEMMA FlattenExists ==
  ASSUME NEW s, NEW n \in Nat
  PROVE  \E f : Flattens(f, s, n)
<1> DEFINE Missing == {m \in Nat : ~ \E f : Flattens(f, s, m)}
<1> SUFFICES ASSUME Missing # {}
             PROVE  FALSE
  OBVIOUS
<1>1. PICK m \in Missing : \A k \in Missing : m <= k
  <2>1. Missing \in SUBSET Nat
    OBVIOUS
  <2> QED
    BY <2>1, SmallestOf
<1>2. m \in Nat /\ ~ \E f : Flattens(f, s, m)
  BY <1>1
<1>3. CASE m = 0
  <2> DEFINE g == [i \in 1..0 |-> s]
  <2>1. 1..0 = {}
    OBVIOUS
  <2>2. Flattens(g, s, 0)
    BY <2>1 DEF Flattens
  <2> QED
    BY <1>2, <1>3, <2>2
<1>4. CASE m > 0
  <2>1. m - 1 \in Nat /\ m - 1 \notin Missing
    BY <1>1, <1>2, <1>4
  <2>2. PICK f : Flattens(f, s, m - 1)
    BY <2>1
  <2> DEFINE next == IF m = 1 THEN s[m] ELSE f[m - 1] \o s[m]
             g == [i \in 1..m |-> IF i = m THEN next ELSE f[i]]
  <2>3. \A i \in 1..(m - 1) : f[i] = IF i = 1 THEN s[i] ELSE f[i - 1] \o s[i]
    BY <2>2 DEF Flattens
  <2>4. ASSUME NEW i \in 1..m PROVE g[i] = IF i = 1 THEN s[i] ELSE g[i - 1] \o s[i]
    <3>1. i # 1 => i - 1 \in 1..m /\ i - 1 # m
      BY <1>2
    <3>2. i # 1 => g[i - 1] = f[i - 1]
      BY <3>1
    <3>3. CASE i = m
      BY <3>2, <3>3
    <3>4. CASE i # m
      <4>1. i \in 1..(m - 1) /\ g[i] = f[i]
        BY <1>2, <3>4
      <4> QED
        BY <2>3, <3>2, <4>1
    <3> QED
      BY <3>3, <3>4
  <2> HIDE DEF next
  <2>5. Flattens(g, s, m)
    BY <2>4 DEF Flattens
  <2> QED
    BY <1>2, <2>5
<1> QED
  BY <1>2, <1>3, <1>4

\* Two sequences have their first n places in common.
SameUpTo(s, t, n) == \A i \in 1..n : s[i] = t[i]

\* It depends on them alone.
LEMMA FlattenAgrees ==
  ASSUME NEW s, NEW t, NEW n \in Nat, NEW m \in Nat, n <= m, NEW f, NEW g,
         Flattens(f, s, n), Flattens(g, t, m), SameUpTo(s, t, n)
  PROVE  \A i \in 1..n : f[i] = g[i]
<1> DEFINE Differ == {i \in 1..n : f[i] # g[i]}
<1> SUFFICES ASSUME Differ # {}
             PROVE  FALSE
  OBVIOUS
<1>1. PICK i \in Differ : \A k \in Differ : i <= k
  <2>1. Differ \in SUBSET Nat
    OBVIOUS
  <2> QED
    BY <2>1, SmallestOf
<1>2. i \in 1..n /\ i \in 1..m /\ f[i] # g[i]
  BY <1>1
<1>3. f[i] = IF i = 1 THEN s[i] ELSE f[i - 1] \o s[i]
  BY <1>2 DEF Flattens
<1>4. g[i] = IF i = 1 THEN t[i] ELSE g[i - 1] \o t[i]
  BY <1>2 DEF Flattens
<1>5. i # 1 => f[i - 1] = g[i - 1]
  BY <1>1, <1>2
<1>6. s[i] = t[i]
  BY <1>2 DEF SameUpTo
<1> QED
  BY <1>2, <1>3, <1>4, <1>5, <1>6

\* What FlattenSeq gives is the last of them.
LEMMA FlatIs ==
  ASSUME NEW s, Len(s) \in Nat, Len(s) > 0
  PROVE  \E f : Flattens(f, s, Len(s)) /\ Flat(s) = f[Len(s)]
<1> DEFINE f == CHOOSE f : Flattens(f, s, Len(s))
<1>1. Flattens(f, s, Len(s))
  BY FlattenExists
<1>2. Flat(s) = f[Len(s)]
  BY DEF Flat, Recursive!FlattenSeq, Flattens
<1> QED
  BY <1>1, <1>2

\* What comes first at each place.
LEMMA FlattensAt ==
  ASSUME NEW f, NEW s, NEW n \in Nat, Flattens(f, s, n), NEW i \in 1..n
  PROVE  f[i] = IF i = 1 THEN s[i] ELSE f[i - 1] \o s[i]
BY DEF Flattens

\* The concatenation of sequences over S is one, and that of none is empty.
LEMMA FlatType ==
  ASSUME NEW S, NEW s \in Seq(Seq(S))
  PROVE  Flat(s) \in Seq(S) /\ (s = << >> => Flat(s) = << >>)
<1>1. CASE s = << >>
  BY <1>1 DEF Flat, Recursive!FlattenSeq
<1>2. CASE s # << >>
  <2>1. Len(s) \in Nat /\ Len(s) > 0 /\ \A i \in 1..Len(s) : s[i] \in Seq(S)
    BY <1>2, EmptySeq
  <2>2. PICK f : Flattens(f, s, Len(s)) /\ Flat(s) = f[Len(s)]
    BY <2>1, FlatIs
  <2> DEFINE Bad == {i \in 1..Len(s) : f[i] \notin Seq(S)}
  <2>3. ASSUME Bad # {} PROVE FALSE
    <3>1. Bad \in SUBSET Nat
      BY <2>1
    <3>2. PICK i \in Bad : \A k \in Bad : i <= k
      BY <2>3, <3>1, SmallestOf
    <3>a. i \in 1..Len(s) /\ f[i] \notin Seq(S)
      BY <3>2
    <3>3. f[i] = IF i = 1 THEN s[i] ELSE f[i - 1] \o s[i]
      BY <2>1, <2>2, <3>a, FlattensAt
    <3>4. i # 1 => i - 1 \in 1..Len(s) /\ ~ (i <= i - 1)
      BY <2>1, <3>a
    <3>5. i # 1 => f[i - 1] \in Seq(S)
      BY <3>2, <3>4
    <3>6. s[i] \in Seq(S)
      BY <2>1, <3>a
    <3>7. i # 1 => f[i - 1] \o s[i] \in Seq(S)
      BY <3>5, <3>6, ConcatProperties
    <3> QED
      BY <3>3, <3>6, <3>7, <3>a
  <2> QED
    BY <1>2, <2>1, <2>2, <2>3
<1> QED
  BY <1>1, <1>2

\* Concatenation is associative.
LEMMA Associative ==
  ASSUME NEW S, NEW a \in Seq(S), NEW b \in Seq(S), NEW c \in Seq(S)
  PROVE  (a \o b) \o c = a \o (b \o c)
  BY ConcatAssociative

\* One more sequence goes to the end.
LEMMA FlatAppend ==
  ASSUME NEW S, NEW s \in Seq(Seq(S)), NEW x \in Seq(S)
  PROVE  Append(s, x) \in Seq(Seq(S)) /\ Flat(Append(s, x)) = Flat(s) \o x
<1>1. PICK r, t, n, m : r = s /\ t = Append(s, x) /\ n = Len(r) /\ m = Len(t)
  OBVIOUS
<1>2. /\ t \in Seq(Seq(S)) /\ n \in Nat /\ m = n + 1 /\ t[m] = x
      /\ m \in Nat /\ m > 0 /\ n <= m /\ m \in 1..m /\ m - 1 = n
      /\ \A i \in 1..n : r[i] = t[i]
  BY <1>1
<1>3. PICK g : Flattens(g, t, m) /\ Flat(t) = g[m]
  BY <1>1, <1>2, FlatIs
<1>4. g[m] = IF m = 1 THEN t[m] ELSE g[m - 1] \o t[m]
  BY <1>2, <1>3 DEF Flattens
<1>5. CASE n = 0
  <2>1. s = << >> /\ Flat(s) = << >>
    BY <1>1, <1>5, EmptySeq, FlatType
  <2>2. m = 1
    BY <1>2, <1>5
  <2>3. << >> \o x = x
    OBVIOUS
  <2> QED
    BY <1>1, <1>2, <1>3, <1>4, <2>1, <2>2, <2>3
<1>6. CASE n # 0
  <2>1. n \in Nat /\ n > 0 /\ n \in 1..n /\ m # 1
    BY <1>2, <1>6
  <2>2. PICK f : Flattens(f, r, n) /\ Flat(r) = f[n]
    BY <1>1, <2>1, FlatIs
  <2>3. f[n] = g[n]
    <3>1. SameUpTo(r, t, n)
      BY <1>2 DEF SameUpTo
    <3>2. \A i \in 1..n : f[i] = g[i]
      BY <1>2, <1>3, <2>2, <3>1, FlattenAgrees
    <3> QED
      BY <2>1, <3>2
  <2> QED
    BY <1>1, <1>2, <1>3, <1>4, <2>1, <2>2, <2>3
<1> QED
  BY <1>1, <1>2, <1>5, <1>6

\* What is put in front stays there when a sequence is added at the end.
LEMMA FlatConsStep ==
  ASSUME NEW S, NEW u \in Seq(Seq(S)), NEW r \in Seq(Seq(S)), NEW h \in Seq(S), NEW x \in Seq(S),
         Flat(u) = h \o Flat(r)
  PROVE  Flat(Append(u, x)) = h \o Flat(Append(r, x))
<1>1. /\ Flat(Append(u, x)) = (h \o Flat(r)) \o x
      /\ Flat(Append(r, x)) = Flat(r) \o x
  BY FlatAppend
<1>2. Flat(r) \in Seq(S)
  BY FlatType
<1>3. (h \o Flat(r)) \o x = h \o (Flat(r) \o x)
  BY <1>2, Associative
<1> QED
  BY <1>1, <1>3

\* The first sequence comes first.
LEMMA FlatCons ==
  ASSUME NEW S, NEW s \in Seq(Seq(S)), s # << >>
  PROVE  /\ Head(s) \in Seq(S) /\ Tail(s) \in Seq(Seq(S))
         /\ Flat(s) = Head(s) \o Flat(Tail(s))
<1> DEFINE Holds(t) == Flat(t) = Head(t) \o Flat(Tail(t))
           Bad == {n \in Nat : \E t \in Seq(Seq(S)) : Len(t) = n /\ t # << >> /\ ~ Holds(t)}
<1>1. ASSUME Bad # {} PROVE FALSE
  <2>1. Bad \in SUBSET Nat
    OBVIOUS
  <2>2. PICK n \in Bad : \A k \in Bad : n <= k
    BY <1>1, <2>1, SmallestOf
  <2>3. PICK t \in Seq(Seq(S)) : Len(t) = n /\ t # << >> /\ ~ Holds(t)
    BY <2>2
  <2>a. PICK u, x : u = SubSeq(t, 1, n - 1) /\ x = t[n]
    OBVIOUS
  <2>4. n \in Nat /\ n > 0 /\ x \in Seq(S) /\ \A i \in 1..n : t[i] \in Seq(S)
    BY <2>3, <2>a, EmptySeq
  <2>5. u \in Seq(Seq(S)) /\ Len(u) = n - 1 /\ \A i \in 1..(n - 1) : u[i] = t[i]
    BY <2>3, <2>4, <2>a, SubSeqProperties
  <2>6. t = Append(u, x)
    <3>1. Append(u, x) \in Seq(Seq(S)) /\ Len(Append(u, x)) = n
      BY <2>4, <2>5
    <3>2. \A i \in 1..n : Append(u, x)[i] = t[i]
      BY <2>4, <2>5, <2>a
    <3> QED
      BY <2>3, <3>1, <3>2, SeqEqual
  <2> HIDE DEF Bad
  <2>7. Flat(t) = Flat(u) \o x /\ Flat(u) \in Seq(S)
    BY <2>4, <2>5, <2>6, FlatAppend, FlatType
  <2>8. CASE n = 1
    <3>1. u = << >> /\ Tail(t) = << >> /\ Head(t) = x
      <4>1. u = << >>
        BY <2>5, <2>8, EmptySeq
      <4> QED
        BY <2>6, <4>1
    <3>2. << >> \in Seq(Seq(S)) /\ Flat(<< >>) = << >>
      BY FlatType, EmptySeq
    <3>3. << >> \o x = x /\ x \o << >> = x
      BY <2>4
    <3> QED
      BY <2>3, <2>7, <3>1, <3>2, <3>3
  <2>9. CASE n # 1
    <3>1. u # << >>
      BY <2>4, <2>5, <2>9
    <3>2. n - 1 \in Nat /\ n - 1 \notin Bad
      BY <2>2, <2>4
    <3>3. Holds(u)
      BY <2>5, <3>1, <3>2 DEF Bad
    <3>4. Head(t) = Head(u) /\ Head(u) \in Seq(S) /\ Tail(u) \in Seq(Seq(S))
      BY <2>4, <2>5, <2>6, <3>1
    <3>5. Tail(t) = Append(Tail(u), x)
      <4>1. Tail(t) \in Seq(Seq(S)) /\ Len(Tail(t)) = n - 1
            /\ \A i \in 1..(n - 1) : Tail(t)[i] = t[i + 1]
        BY <2>3, <2>4
      <4>2. /\ Append(Tail(u), x) \in Seq(Seq(S)) /\ Len(Append(Tail(u), x)) = n - 1
            /\ \A i \in 1..(n - 2) : Append(Tail(u), x)[i] = u[i + 1]
            /\ Append(Tail(u), x)[n - 1] = x
        BY <2>4, <2>5, <2>9, <3>1, <3>4
      <4>3. ASSUME NEW i \in 1..(n - 1) PROVE Tail(t)[i] = Append(Tail(u), x)[i]
        <5>1. CASE i = n - 1
          BY <2>4, <2>a, <4>1, <4>2, <5>1
        <5>2. CASE i # n - 1
          <6>1. i \in 1..(n - 2) /\ i + 1 \in 1..(n - 1)
            BY <2>4, <5>2
          <6> QED
            BY <2>5, <4>1, <4>2, <6>1
        <5> QED
          BY <5>1, <5>2
      <4> QED
        BY <4>1, <4>2, <4>3, SeqEqual
    <3>6. Flat(Append(u, x)) = Head(u) \o Flat(Append(Tail(u), x))
      BY <2>4, <2>5, <3>3, <3>4, FlatConsStep
    <3> QED
      BY <2>3, <2>6, <3>4, <3>5, <3>6
  <2> QED
    BY <2>8, <2>9
<1>2. Len(s) \notin Bad
  <2>1. Bad = {}
    BY <1>1
  <2> HIDE DEF Bad
  <2> QED
    BY <2>1
<1>3. Len(s) \in Nat /\ Holds(s)
  BY <1>2
<1>4. Head(s) \in Seq(S) /\ Tail(s) \in Seq(Seq(S))
  OBVIOUS
<1> QED
  BY <1>3, <1>4

TC(t) == Recursive!TokenCount(t)

\* The places that yield a token.
Counted(t) == {i \in DOMAIN t : t[i] # "s"}

\* The tokens of a text are the atoms that count.
LEMMA CountIs ==
  ASSUME NEW S, NEW t \in Seq(S)
  PROVE  /\ TC(t) = Cardinality(Counted(t)) /\ IsFiniteSet(Counted(t))
         /\ TC(t) \in Nat /\ TC(t) <= Len(t) /\ Counted(t) \subseteq 1..Len(t)
<1>1. DOMAIN t = 1..Len(t) /\ Len(t) \in Nat
  OBVIOUS
<1>2. IsFiniteSet(1..Len(t)) /\ Cardinality(1..Len(t)) = Len(t)
  BY <1>1, FS_Interval
<1>3. Counted(t) \subseteq 1..Len(t)
  BY <1>1 DEF Counted
<1>4. /\ IsFiniteSet(Counted(t)) /\ Cardinality(Counted(t)) \in Nat
      /\ Cardinality(Counted(t)) <= Len(t)
  BY <1>2, <1>3, FS_Subset, FS_CardinalityType
<1>5. TC(t) = Cardinality(Counted(t))
  BY DEF TC, Recursive!TokenCount, Counted, Recursive!Cardinality, Cardinality
<1> QED
  BY <1>3, <1>4, <1>5

\* Texts in a row have the tokens of both.
LEMMA CountConcat ==
  ASSUME NEW S, NEW a \in Seq(S), NEW b \in Seq(S)
  PROVE  TC(a \o b) = TC(a) + TC(b)
<1>1. /\ a \o b \in Seq(S) /\ Len(a) \in Nat /\ Len(b) \in Nat /\ Len(a \o b) = Len(a) + Len(b)
      /\ \A i \in 1..Len(a) : (a \o b)[i] = a[i]
      /\ \A i \in 1..Len(b) : (a \o b)[Len(a) + i] = b[i]
  OBVIOUS
<1>2. PICK c, n, m : c = a \o b /\ n = Len(a) /\ m = Len(b)
  OBVIOUS
<1>3. /\ c \in Seq(S) /\ n \in Nat /\ m \in Nat /\ DOMAIN c = 1..(n + m)
      /\ DOMAIN a = 1..n /\ DOMAIN b = 1..m
      /\ \A i \in 1..n : c[i] = a[i]
      /\ \A i \in 1..m : c[n + i] = b[i]
  BY <1>1, <1>2
<1> DEFINE Shifted == {i \in (n + 1)..(n + m) : c[i] # "s"}
           f == [i \in Counted(b) |-> n + i]
<1>4. Counted(c) = Counted(a) \cup Shifted /\ Counted(a) \cap Shifted = {}
  BY <1>3 DEF Counted
<1>5. f \in Bijection(Counted(b), Shifted)
  <2>1. \A i \in Counted(b) : n + i \in Shifted
    BY <1>3 DEF Counted
  <2>2. \A j \in Shifted : j - n \in Counted(b) /\ n + (j - n) = j
    <3> SUFFICES ASSUME NEW j \in Shifted
                 PROVE  j - n \in Counted(b) /\ n + (j - n) = j
      OBVIOUS
    <3>1. j - n \in 1..m /\ n + (j - n) = j
      BY <1>3
    <3>2. b[j - n] = c[j]
      BY <1>3, <3>1
    <3> QED
      BY <1>3, <3>1, <3>2 DEF Counted
  <2>3. \A i, j \in Counted(b) : n + i = n + j => i = j
    BY <1>3 DEF Counted
  <2> HIDE DEF Shifted
  <2> QED
    BY <2>1, <2>2, <2>3 DEF Bijection, Injection, Surjection, IsInjective
<1>6. IsFiniteSet(Counted(a)) /\ IsFiniteSet(Counted(b)) /\ TC(a) = Cardinality(Counted(a))
      /\ TC(b) = Cardinality(Counted(b)) /\ TC(c) = Cardinality(Counted(c))
      /\ TC(a) \in Nat /\ TC(b) \in Nat
  BY <1>3, CountIs
<1> HIDE DEF Shifted, f
<1>7. IsFiniteSet(Shifted) /\ Cardinality(Shifted) = Cardinality(Counted(b))
  BY <1>5, <1>6, FS_Bijection DEF ExistsBijection
<1>8. Cardinality(Counted(c)) = Cardinality(Counted(a)) + Cardinality(Shifted) - 0
  BY <1>4, <1>6, <1>7, FS_Union, FS_EmptySet
<1> QED
  BY <1>2, <1>6, <1>7, <1>8

\* Pieces in a row, each with its separator.
Joined(p, sep) == [i \in DOMAIN p |-> p[i] \o sep]
FlatWith(p, sep) == Flat(Joined(p, sep))

\* The pieces with their separators, one by one and in one sequence.
LEMMA JoinedType ==
  ASSUME NEW S, NEW p \in Seq(Seq(S)), NEW sep \in Seq(S)
  PROVE  /\ Joined(p, sep) \in Seq(Seq(S)) /\ Len(Joined(p, sep)) = Len(p)
         /\ \A i \in 1..Len(p) : Joined(p, sep)[i] = p[i] \o sep
         /\ FlatWith(p, sep) \in Seq(S) /\ (p = << >> => FlatWith(p, sep) = << >>)
<1>1. DOMAIN p = 1..Len(p) /\ Len(p) \in Nat /\ \A i \in 1..Len(p) : p[i] \in Seq(S)
  OBVIOUS
<1>2. ASSUME NEW i \in 1..Len(p) PROVE p[i] \o sep \in Seq(S)
  BY <1>1, ConcatProperties
<1>3. Joined(p, sep) = [i \in 1..Len(p) |-> p[i] \o sep]
  BY <1>1 DEF Joined
<1>4. /\ Joined(p, sep) \in Seq(Seq(S)) /\ Len(Joined(p, sep)) = Len(p)
      /\ \A i \in 1..Len(p) : Joined(p, sep)[i] = p[i] \o sep
  BY <1>1, <1>2, <1>3
<1>5. p = << >> => Joined(p, sep) = << >>
  <2> SUFFICES ASSUME p = << >>
               PROVE  Joined(p, sep) = << >>
    OBVIOUS
  <2>1. Len(Joined(p, sep)) = 0
    BY <1>4
  <2> QED
    BY <1>4, <2>1, EmptySeq
<1> QED
  BY <1>4, <1>5, FlatType DEF FlatWith

\* The first piece with its separator comes before all others.
LEMMA JoinedCons ==
  ASSUME NEW S, NEW p \in Seq(Seq(S)), NEW sep \in Seq(S), p # << >>
  PROVE  /\ Head(p) \in Seq(S) /\ Tail(p) \in Seq(Seq(S))
         /\ FlatWith(p, sep) = (Head(p) \o sep) \o FlatWith(Tail(p), sep)
<1>1. /\ Head(p) \in Seq(S) /\ Tail(p) \in Seq(Seq(S)) /\ Len(p) \in Nat /\ Len(p) > 0
      /\ Len(Tail(p)) = Len(p) - 1 /\ \A i \in 1..(Len(p) - 1) : Tail(p)[i] = p[i + 1]
      /\ Head(p) = p[1]
  BY EmptySeq
<1>2. PICK j \in Seq(Seq(S)), k \in Seq(Seq(S)) : j = Joined(p, sep) /\ k = Joined(Tail(p), sep)
  BY <1>1, JoinedType
<1>3. /\ Len(j) = Len(p) /\ \A i \in 1..Len(p) : j[i] = p[i] \o sep
      /\ Len(k) = Len(p) - 1 /\ \A i \in 1..(Len(p) - 1) : k[i] = Tail(p)[i] \o sep
  <2>1. Len(j) = Len(p) /\ \A i \in 1..Len(p) : j[i] = p[i] \o sep
    BY <1>2, JoinedType
  <2>2. PICK q \in Seq(Seq(S)) : q = Tail(p)
    BY <1>1
  <2>3. Len(k) = Len(q) /\ \A i \in 1..Len(q) : k[i] = q[i] \o sep
    BY <1>2, <2>2, JoinedType
  <2> QED
    BY <1>1, <2>1, <2>2, <2>3
<1>4. j # << >> /\ Head(j) = Head(p) \o sep
  <2>1. j # << >>
    BY <1>1, <1>3, EmptySeq
  <2>2. Head(j) = j[1] /\ 1 \in 1..Len(p)
    BY <1>1, <2>1
  <2> QED
    BY <1>1, <1>3, <2>1, <2>2
<1>5. Tail(j) = k
  <2>1. /\ Tail(j) \in Seq(Seq(S)) /\ Len(Tail(j)) = Len(p) - 1
        /\ \A i \in 1..(Len(p) - 1) : Tail(j)[i] = j[i + 1]
    BY <1>1, <1>2, <1>3, <1>4
  <2>2. ASSUME NEW i \in 1..(Len(p) - 1) PROVE Tail(j)[i] = k[i]
    <3>1. i + 1 \in 1..Len(p)
      BY <1>1
    <3> QED
      BY <1>1, <1>3, <2>1, <3>1
  <2> QED
    BY <1>2, <1>3, <2>1, <2>2, SeqEqual
<1>6. Flat(j) = Head(j) \o Flat(Tail(j))
  BY <1>2, <1>4, FlatCons
<1> QED
  BY <1>1, <1>2, <1>4, <1>5, <1>6 DEF FlatWith

\* A sequence is its beginning and its rest, from any place.
LEMMA RestFacts ==
  ASSUME NEW S, NEW t \in Seq(S), NEW a \in Nat, NEW b \in Nat, a > 0, a <= b + 1, b <= Len(t)
  PROVE  /\ SubSeq(t, a, b) \in Seq(S) /\ Len(SubSeq(t, a, b)) = b + 1 - a
         /\ SubSeq(t, b + 1, Len(t)) \in Seq(S)
         /\ SubSeq(t, a, Len(t)) = SubSeq(t, a, b) \o SubSeq(t, b + 1, Len(t))
<1>1. Len(t) \in Nat /\ a \in Int /\ b \in Int
  OBVIOUS
<1>2. PICK u, v, w : u = SubSeq(t, a, b) /\ v = SubSeq(t, b + 1, Len(t)) /\ w = SubSeq(t, a, Len(t))
  OBVIOUS
<1>3. u \in Seq(S) /\ Len(u) = b + 1 - a /\ \A i \in 1..(b + 1 - a) : u[i] = t[i + a - 1]
  BY <1>1, <1>2
<1>4. v \in Seq(S) /\ Len(v) = Len(t) - b /\ \A i \in 1..(Len(t) - b) : v[i] = t[i + b]
  BY <1>1, <1>2
<1>5. w \in Seq(S) /\ Len(w) = Len(t) + 1 - a /\ \A i \in 1..(Len(t) + 1 - a) : w[i] = t[i + a - 1]
  BY <1>1, <1>2
<1>6. u \o v \in Seq(S) /\ Len(u \o v) = Len(t) + 1 - a
  <2>1. u \o v \in Seq(S) /\ Len(u \o v) = Len(u) + Len(v)
    BY <1>3, <1>4, ConcatProperties
  <2>2. (b + 1 - a) + (Len(t) - b) = Len(t) + 1 - a
    BY <1>1
  <2> QED
    BY <1>3, <1>4, <2>1, <2>2
<1>7. ASSUME NEW i \in 1..(Len(t) + 1 - a) PROVE (u \o v)[i] = w[i]
  <2>1. CASE i <= b + 1 - a
    <3>1. (u \o v)[i] = u[i]
      BY <1>1, <1>3, <1>4, <2>1
    <3> QED
      BY <1>1, <1>3, <1>5, <2>1, <3>1
  <2>2. CASE i > b + 1 - a
    <3>1. i - (b + 1 - a) \in 1..(Len(t) - b) /\ i - (b + 1 - a) + b = i + a - 1
      BY <1>1, <2>2
    <3>2. (u \o v)[i] = v[i - (b + 1 - a)]
      BY <1>1, <1>3, <1>4, <2>2
    <3> QED
      BY <1>4, <1>5, <3>1, <3>2
  <2>3. i <= b + 1 - a \/ i > b + 1 - a
    BY <1>1
  <2> QED
    BY <2>1, <2>2, <2>3
<1>8. u \o v = w
  BY <1>5, <1>6, <1>7, SeqEqual
<1> QED
  BY <1>2, <1>3, <1>4, <1>8

\* Where a separator occurs, and where it does from place k on.
Hits(t, sep) == {i \in 1..(Len(t) - Len(sep) + 1) : SubSeq(t, i, i + Len(sep) - 1) = sep}
Ahead(t, sep, k) == {i \in Hits(t, sep) : i >= k}
NextHit(t, sep, k) == Recursive!Min(Ahead(t, sep, k))

\* The pieces from place k on, by those that follow, and f[k] those of all places from a.
CutAt(f, t, sep, k) ==
    IF sep = << >> \/ Ahead(t, sep, k) = {} THEN <<SubSeq(t, k, Len(t))>>
    ELSE <<SubSeq(t, k, NextHit(t, sep, k) - 1)>> \o f[NextHit(t, sep, k) + Len(sep)]
Cuts(f, t, sep, a) == f = [k \in a..(Len(t) + 1) |-> CutAt(f, t, sep, k)]

\* The next occurrence: none lies before it, and the text goes on behind it.
LEMMA NextFacts ==
  ASSUME NEW S, NEW t \in Seq(S), NEW sep \in Seq(S), sep # << >>,
         NEW k \in 1..(Len(t) + 1), Ahead(t, sep, k) # {}
  PROVE  LET n == NextHit(t, sep, k)
         IN  /\ n \in Nat /\ n >= k /\ n + Len(sep) <= Len(t) + 1 /\ n + Len(sep) > k
             /\ Len(sep) \in Nat /\ Len(sep) > 0
             /\ SubSeq(t, n, n + Len(sep) - 1) = sep
             /\ \A j \in k..(n - 1) : j \notin Hits(t, sep)
<1>1. Len(t) \in Nat /\ Len(sep) \in Nat /\ Len(sep) > 0 /\ k \in Nat /\ k > 0
  BY EmptySeq
<1>2. Ahead(t, sep, k) \in SUBSET Nat /\ \A i \in Ahead(t, sep, k) : i \in Nat
  BY <1>1 DEF Ahead, Hits
<1>3. PICK x \in Ahead(t, sep, k) : \A y \in Ahead(t, sep, k) : x <= y
  BY <1>2, SmallestOf
<1>4. PICK n : n = NextHit(t, sep, k)
  OBVIOUS
<1>5. n \in Ahead(t, sep, k) /\ \A y \in Ahead(t, sep, k) : n <= y
  BY <1>3, <1>4 DEF NextHit, Recursive!Min
<1>6. /\ n \in 1..(Len(t) - Len(sep) + 1) /\ n >= k
      /\ SubSeq(t, n, n + Len(sep) - 1) = sep
  BY <1>5 DEF Ahead, Hits
<1>7. ASSUME NEW j \in k..(n - 1), j \in Hits(t, sep) PROVE FALSE
  <2>1. j >= k /\ ~ (n <= j)
    BY <1>1, <1>6
  <2>2. j \in Ahead(t, sep, k)
    BY <1>7, <2>1 DEF Ahead
  <2> QED
    BY <1>5, <2>1, <2>2
<1>8. n \in Nat /\ n + Len(sep) <= Len(t) + 1 /\ n + Len(sep) > k
  BY <1>1, <1>6
<1> QED
  BY <1>1, <1>4, <1>6, <1>7, <1>8

\* There is such a function.
LEMMA CutsExist ==
  ASSUME NEW S, NEW t \in Seq(S), NEW sep \in Seq(S)
  PROVE  \E f : Cuts(f, t, sep, 1)
<1> DEFINE N == Len(t) + 1
           Missing == {a \in 1..(N + 1) : ~ \E f : Cuts(f, t, sep, a)}
<1>1. Len(t) \in Nat /\ N \in Nat /\ N = Len(t) + 1
  OBVIOUS
<1> HIDE DEF N
<1>2. ASSUME Missing # {} PROVE FALSE
  <2>1. PICK a \in Missing : \A y \in Missing : a >= y
    <3>1. N + 1 \in Nat /\ Missing \in SUBSET (1..(N + 1))
      BY <1>1
    <3> HIDE DEF Missing
    <3> QED
      BY <1>2, <3>1, LargestOf
  <2>2. a \in 1..(N + 1) /\ ~ \E f : Cuts(f, t, sep, a)
    BY <2>1
  <2>3. CASE a = N + 1
    <3>1. a..(Len(t) + 1) = {}
      BY <1>1, <2>3
    <3>2. PICK g : g = [k \in {} |-> t]
      OBVIOUS
    <3>3. Cuts(g, t, sep, a)
      BY <3>1, <3>2 DEF Cuts
    <3> QED
      BY <2>2, <3>3
  <2>4. CASE a # N + 1
    <3>1. a + 1 \in 1..(N + 1) /\ a \in 1..N /\ ~ (a >= a + 1)
      BY <1>1, <2>2, <2>4
    <3>2. a + 1 \notin Missing
      BY <2>1, <3>1
    <3>3. PICK f : Cuts(f, t, sep, a + 1)
      BY <3>1, <3>2
    <3>4. PICK g : g = [k \in a..(Len(t) + 1) |-> IF k = a THEN CutAt(f, t, sep, a) ELSE f[k]]
      OBVIOUS
    <3>5. ASSUME NEW k \in a..(Len(t) + 1) PROVE g[k] = CutAt(g, t, sep, k)
      <4>1. CutAt(g, t, sep, k) = CutAt(f, t, sep, k)
        <5>1. CASE sep = << >> \/ Ahead(t, sep, k) = {}
          BY <5>1 DEF CutAt
        <5>2. CASE ~ (sep = << >> \/ Ahead(t, sep, k) = {})
          <6>1. k \in 1..(Len(t) + 1) /\ k \in Int /\ a \in Int
            BY <1>1, <3>1
          <6>2. PICK n : n = NextHit(t, sep, k) + Len(sep)
            OBVIOUS
          <6>3. n \in Nat /\ n > k /\ n <= Len(t) + 1
            BY <5>2, <6>1, <6>2, NextFacts
          <6>4. n \in a..(Len(t) + 1) /\ n # a
            BY <1>1, <6>1, <6>3
          <6>5. g[n] = f[n]
            BY <3>4, <6>4
          <6> QED
            BY <5>2, <6>2, <6>5 DEF CutAt
        <5> QED
          BY <5>1, <5>2
      <4>2. CASE k = a
        BY <3>4, <4>1, <4>2
      <4>3. CASE k # a
        <5>1. k \in (a + 1)..(Len(t) + 1)
          BY <1>1, <3>1, <4>3
        <5>2. f[k] = CutAt(f, t, sep, k)
          BY <3>3, <5>1 DEF Cuts
        <5> QED
          BY <3>4, <4>1, <4>3, <5>2
      <4> QED
        BY <4>2, <4>3
    <3>6. Cuts(g, t, sep, a)
      BY <3>4, <3>5 DEF Cuts
    <3> QED
      BY <2>2, <3>6
  <2> QED
    BY <2>3, <2>4
<1>3. Missing = {}
  BY <1>2
<1>4. 1 \in 1..(N + 1)
  BY <1>1
<1> QED
  BY <1>3, <1>4

\* What Components gives.
LEMMA ComponentsAre ==
  ASSUME NEW S, NEW t \in Seq(S), NEW sep \in Seq(S)
  PROVE  \E f : Cuts(f, t, sep, 1) /\ Recursive!Components(t, sep) = f[1]
<1> DEFINE f == CHOOSE f : Cuts(f, t, sep, 1)
<1>1. Cuts(f, t, sep, 1)
  BY CutsExist
<1>2. Recursive!Components(t, sep) = f[1]
  BY DEF Recursive!Components, Cuts, CutAt, NextHit, Ahead, Hits
<1> QED
  BY <1>1, <1>2

\* A sequence with one more in front.
LEMMA ConsFacts ==
  ASSUME NEW T, NEW x \in T, NEW r \in Seq(T)
  PROVE  LET c == <<x>> \o r
         IN  /\ c \in Seq(T) /\ c # << >> /\ Head(c) = x /\ Tail(c) = r
             /\ Len(c) = Len(r) + 1 /\ c[1] = x /\ \A i \in 1..Len(r) : c[i + 1] = r[i]
<1>1. <<x>> \in Seq(T) /\ Len(<<x>>) = 1 /\ <<x>>[1] = x /\ Len(r) \in Nat
  OBVIOUS
<1>2. PICK c : c = <<x>> \o r
  OBVIOUS
<1>3. /\ c \in Seq(T) /\ Len(c) = 1 + Len(r)
      /\ \A i \in 1..(1 + Len(r)) : c[i] = IF i <= 1 THEN <<x>>[i] ELSE r[i - 1]
  BY <1>1, <1>2, ConcatProperties
<1>4. Len(c) = Len(r) + 1 /\ c # << >> /\ c[1] = x /\ Head(c) = x
  <2>1. Len(c) = Len(r) + 1 /\ 1 \in 1..(1 + Len(r)) /\ Len(c) # 0
    BY <1>1, <1>3
  <2>2. c[1] = x
    BY <1>1, <1>3, <2>1
  <2>3. c # << >>
    BY <2>1, EmptySeq
  <2> QED
    BY <1>3, <2>1, <2>2, <2>3
<1>5. \A i \in 1..Len(r) : c[i + 1] = r[i]
  <2> SUFFICES ASSUME NEW i \in 1..Len(r)
               PROVE  c[i + 1] = r[i]
    OBVIOUS
  <2>1. i + 1 \in 1..(1 + Len(r)) /\ ~ (i + 1 <= 1) /\ i + 1 - 1 = i
    BY <1>1
  <2> QED
    BY <1>3, <2>1
<1>6. Tail(c) = r
  <2>1. /\ Tail(c) \in Seq(T) /\ Len(Tail(c)) = Len(r)
        /\ \A i \in 1..Len(r) : Tail(c)[i] = c[i + 1]
    BY <1>1, <1>3, <1>4
  <2> QED
    BY <1>5, <2>1, SeqEqual
<1> QED
  BY <1>2, <1>3, <1>4, <1>5, <1>6

\* A piece is a part of the text that no separator begins in.
Uncut(p, t, sep) ==
    \E a, b \in Nat : /\ a > 0 /\ a <= b + 1 /\ b <= Len(t)
                      /\ p = SubSeq(t, a, b) /\ \A j \in a..b : j \notin Hits(t, sep)

\* What the pieces from place k on are.
PiecesFrom(p, S, t, sep, k) ==
    /\ p \in Seq(Seq(S)) /\ p # << >>
    /\ FlatWith(p, sep) = SubSeq(t, k, Len(t)) \o sep
    /\ sep # << >> => \A i \in 1..Len(p) : Uncut(p[i], t, sep)

\* With its separator each, they make up the rest of the text, and one more.
LEMMA PiecesAt ==
  ASSUME NEW S, NEW t \in Seq(S), NEW sep \in Seq(S), NEW k \in 1..(Len(t) + 1), NEW f,
         \A n \in 1..(Len(t) + 1) : n > k => PiecesFrom(f[n], S, t, sep, n)
  PROVE  PiecesFrom(CutAt(f, t, sep, k), S, t, sep, k)
<1>1. Len(t) \in Nat /\ k \in Nat /\ k > 0 /\ k <= Len(t) + 1
  OBVIOUS
<1>2. CASE sep = << >> \/ Ahead(t, sep, k) = {}
  <2>1. PICK x : x = SubSeq(t, k, Len(t))
    OBVIOUS
  <2>2. x \in Seq(S)
    BY <1>1, <2>1, RestFacts
  <2>3. << >> \in Seq(Seq(S)) /\ <<x>> \in Seq(Seq(S)) /\ <<x>> # << >>
        /\ Head(<<x>>) = x /\ Tail(<<x>>) = << >> /\ Len(<<x>>) = 1 /\ <<x>>[1] = x
    BY <2>2
  <2>4. FlatWith(<<x>>, sep) = (x \o sep) \o << >>
    <3>1. FlatWith(<< >>, sep) = << >>
      BY <2>3, JoinedType
    <3>2. PICK p \in Seq(Seq(S)) : p = <<x>>
      BY <2>3
    <3>3. FlatWith(p, sep) = (Head(p) \o sep) \o FlatWith(Tail(p), sep)
      BY <2>3, <3>2, JoinedCons
    <3> QED
      BY <2>3, <3>1, <3>2, <3>3
  <2>5. (x \o sep) \o << >> = x \o sep
    BY <2>2
  <2>6. sep # << >> => Uncut(x, t, sep)
    <3> SUFFICES ASSUME sep # << >>
                 PROVE  Uncut(x, t, sep)
      OBVIOUS
    <3>1. \A j \in k..Len(t) : j \notin Hits(t, sep)
      BY <1>1, <1>2 DEF Ahead
    <3> QED
      BY <1>1, <2>1, <3>1 DEF Uncut
  <2>7. \A i \in 1..Len(<<x>>) : <<x>>[i] = x
    BY <2>3
  <2>8. CutAt(f, t, sep, k) = <<x>>
    BY <1>2, <2>1 DEF CutAt
  <2> QED
    BY <2>1, <2>3, <2>4, <2>5, <2>6, <2>7, <2>8 DEF PiecesFrom
<1>3. CASE ~ (sep = << >> \/ Ahead(t, sep, k) = {})
  <2>1. PICK n, l : n = NextHit(t, sep, k) /\ l = Len(sep)
    OBVIOUS
  <2>2. /\ n \in Nat /\ n >= k /\ n + l <= Len(t) + 1 /\ n + l > k /\ l \in Nat /\ l > 0
        /\ SubSeq(t, n, n + l - 1) = sep
        /\ \A j \in k..(n - 1) : j \notin Hits(t, sep)
    BY <1>3, <2>1, NextFacts
  <2>3. PICK x, y, r : x = SubSeq(t, k, n - 1) /\ y = SubSeq(t, n + l, Len(t)) /\ r = f[n + l]
    OBVIOUS
  <2>4. r \in Seq(Seq(S)) /\ FlatWith(r, sep) = y \o sep /\ \A i \in 1..Len(r) : Uncut(r[i], t, sep)
    <3>1. n + l \in 1..(Len(t) + 1) /\ n + l > k
      BY <1>1, <2>2
    <3> QED
      BY <1>3, <2>3, <3>1 DEF PiecesFrom
  <2>5. /\ x \in Seq(S) /\ y \in Seq(S)
        /\ SubSeq(t, k, Len(t)) = x \o (sep \o y)
    <3>1. PICK b : b = n - 1
      OBVIOUS
    <3>2. b \in Nat /\ k <= b + 1 /\ b <= Len(t) /\ b + 1 = n
      BY <1>1, <2>2, <3>1
    <3>3. x \in Seq(S) /\ SubSeq(t, k, Len(t)) = x \o SubSeq(t, n, Len(t))
      <4>1. /\ SubSeq(t, k, b) \in Seq(S)
            /\ SubSeq(t, k, Len(t)) = SubSeq(t, k, b) \o SubSeq(t, b + 1, Len(t))
        BY <1>1, <3>2, RestFacts
      <4> QED
        BY <2>3, <3>1, <3>2, <4>1
    <3>4. PICK c : c = n + l - 1
      OBVIOUS
    <3>5. c \in Nat /\ n <= c + 1 /\ c <= Len(t) /\ c + 1 = n + l /\ n > 0 /\ n \in Nat
      BY <1>1, <2>2, <3>4
    <3>6. y \in Seq(S) /\ SubSeq(t, n, Len(t)) = sep \o y
      <4>1. /\ SubSeq(t, c + 1, Len(t)) \in Seq(S)
            /\ SubSeq(t, n, Len(t)) = SubSeq(t, n, c) \o SubSeq(t, c + 1, Len(t))
        BY <3>5, RestFacts
      <4> QED
        BY <2>2, <2>3, <3>4, <3>5, <4>1
    <3> QED
      BY <3>3, <3>6
  <2>6. PICK p : p = <<x>> \o r
    OBVIOUS
  <2>7. /\ p \in Seq(Seq(S)) /\ p # << >> /\ Head(p) = x /\ Tail(p) = r
        /\ Len(p) = Len(r) + 1 /\ p[1] = x /\ \A i \in 1..Len(r) : p[i + 1] = r[i]
    BY <2>4, <2>5, <2>6, ConsFacts
  <2>8. FlatWith(p, sep) = SubSeq(t, k, Len(t)) \o sep
    <3>1. FlatWith(p, sep) = (Head(p) \o sep) \o FlatWith(Tail(p), sep)
      BY <2>7, JoinedCons
    <3>2. (x \o sep) \o (y \o sep) = (x \o (sep \o y)) \o sep
      <4>1. PICK u \in Seq(S), v \in Seq(S) : u = x /\ v = y
        BY <2>5
      <4>2. (u \o sep) \o (v \o sep) = (u \o (sep \o v)) \o sep
        BY <4>1
      <4> QED
        BY <4>1, <4>2
    <3> QED
      BY <2>4, <2>5, <2>7, <3>1, <3>2
  <2>9. ASSUME NEW i \in 1..Len(p) PROVE Uncut(p[i], t, sep)
    <3>1. CASE i = 1
      <4>1. n - 1 \in Nat /\ k <= n - 1 + 1 /\ n - 1 <= Len(t)
        BY <1>1, <2>2
      <4> QED
        BY <1>1, <2>2, <2>3, <2>7, <3>1, <4>1 DEF Uncut
    <3>2. CASE i # 1
      <4>1. Len(r) \in Nat
        BY <2>4
      <4>2. i - 1 \in 1..Len(r) /\ i - 1 + 1 = i
        BY <2>7, <3>2, <4>1
      <4>3. p[i] = r[i - 1]
        BY <2>7, <4>2
      <4> QED
        BY <2>4, <4>2, <4>3
    <3> QED
      BY <3>1, <3>2
  <2>10. CutAt(f, t, sep, k) = p
    BY <1>3, <2>1, <2>3, <2>6 DEF CutAt
  <2> QED
    BY <2>7, <2>8, <2>9, <2>10 DEF PiecesFrom
<1> QED
  BY <1>2, <1>3

\* Components loses nothing of a text.
LEMMA ComponentsFacts ==
  ASSUME NEW S, NEW t \in Seq(S), NEW sep \in Seq(S)
  PROVE  PiecesFrom(Recursive!Components(t, sep), S, t, sep, 1)
<1>1. PICK f : Cuts(f, t, sep, 1) /\ Recursive!Components(t, sep) = f[1]
  BY ComponentsAre
<1>2. PICK n : n = Len(t) + 1
  OBVIOUS
<1>3. n \in Nat /\ 1 \in 1..n
  BY <1>2
<1> DEFINE Bad == {k \in 1..n : ~ PiecesFrom(f[k], S, t, sep, k)}
<1>4. ASSUME Bad # {} PROVE FALSE
  <2>1. PICK k \in Bad : \A y \in Bad : k >= y
    <3>1. Bad \in SUBSET (1..n)
      OBVIOUS
    <3> HIDE DEF Bad
    <3> QED
      BY <1>3, <1>4, <3>1, LargestOf
  <2>2. k \in 1..n /\ ~ PiecesFrom(f[k], S, t, sep, k)
    BY <2>1
  <2>3. \A m \in 1..n : m > k => PiecesFrom(f[m], S, t, sep, m)
    BY <1>3, <2>1, <2>2
  <2>4. PiecesFrom(CutAt(f, t, sep, k), S, t, sep, k)
    BY <1>2, <2>2, <2>3, PiecesAt
  <2>5. f[k] = CutAt(f, t, sep, k)
    BY <1>1, <1>2, <2>2 DEF Cuts
  <2> QED
    BY <2>2, <2>4, <2>5
<1>5. Bad = {}
  BY <1>4
<1> QED
  BY <1>1, <1>3, <1>5

Atom == Recursive!Atoms
Sep(l) == Recursive!separators[l]

\* A run without a space that is longer than a chunk.
LongRun ==
    \E i, j \in DOMAIN text :
        i <= j /\ j - i + 1 > chunkSize /\ \A k \in i..j : text[k] # "s"

\* The chunk being packed holds the tokens it is taken to have, and those of one separator at
\* most besides; a text is given up only for a long run.
RecursiveInv ==
    /\ Recursive!TypeOK /\ Recursive!EveryPieceOnce /\ Recursive!OverBySeparators
    /\ pc = "try" => /\ chunks = << >> /\ splits = << >> /\ currentChunkSplit = << >>
                     /\ currentChunkSize = 0
                     /\ level > 4 => LongRun
    /\ pc = "pack" => /\ level <= 5 /\ Recursive!isSplitValid(splits)
                      /\ TC(currentChunkSplit) <= currentChunkSize + TC(Sep(level))
                      /\ TC(currentChunkSplit) <= chunkSize + Recursive!Excess
    /\ pc = "done" => /\ splits = << >> /\ currentChunkSplit = << >>
                      /\ level > 5 => chunks = << >> /\ LongRun

\* There are five separators; a space is the last that can split.
LEMMA SeparatorFacts ==
  /\ Len(Recursive!separators) = 5
  /\ \A l \in 1..5 : Sep(l) \in Seq(Atom) /\ TC(Sep(l)) \in Nat
  /\ Sep(4) = <<"s">> /\ Sep(4) # << >>
<1>1. Len(Recursive!separators) = 5
  BY DEF Recursive!separators
<1>2. \A l \in 1..5 : l = 1 \/ l = 2 \/ l = 3 \/ l = 4 \/ l = 5
  OBVIOUS
<1>3. /\ Sep(1) = <<"n", "n">> /\ Sep(2) = <<"n">> /\ Sep(3) = <<"p">>
      /\ Sep(4) = <<"s">> /\ Sep(5) = << >>
  BY DEF Sep, Recursive!separators
<1>4. /\ <<"n", "n">> \in Seq(Atom) /\ <<"n">> \in Seq(Atom) /\ <<"p">> \in Seq(Atom)
      /\ <<"s">> \in Seq(Atom) /\ << >> \in Seq(Atom)
  BY DEF Atom, Recursive!Atoms
<1>5. \A l \in 1..5 : Sep(l) \in Seq(Atom)
  BY <1>2, <1>3, <1>4
<1>6. \A l \in 1..5 : TC(Sep(l)) \in Nat
  BY <1>5, CountIs
<1>7. <<"s">> # << >>
  OBVIOUS
<1> QED
  BY <1>1, <1>3, <1>5, <1>6, <1>7

\* Texts are sequences of atoms.
LEMMA TextFacts ==
  ASSUME text \in Recursive!Texts
  PROVE  text \in Seq(Atom) /\ Len(text) \in Nat /\ DOMAIN text = 1..Len(text)
<1>1. MaxLength \in Nat
  BY RetrievalCallsAssumption
<1>2. PICK n \in 0..MaxLength : text \in [1..n -> Recursive!Atoms]
  BY DEF Recursive!Texts
<1> QED
  BY <1>1, <1>2 DEF Atom

\* The parts of the invariant, before and after a step.
LEMMA RecursiveParts ==
  /\ Recursive!EveryPieceOnce <=>
        (pc = "pack" \/ (pc = "done" /\ level <= 5) =>
            (Flat(chunks) \o currentChunkSplit) \o FlatWith(splits, Sep(level)) = text \o Sep(level))
  /\ Recursive!OverBySeparators <=>
        (pc # "try" /\ level <= 5 => \A i \in DOMAIN chunks : TC(chunks[i]) <= chunkSize + Recursive!Excess)
  /\ \A p : Recursive!isSplitValid(p) <=> \A i \in DOMAIN p : TC(p[i]) <= chunkSize
  /\ \A p : Recursive!WithSeparator(p) = p \o Sep(level)
  /\ Recursive!Excess = IF TC(Sep(level)) = 0 THEN 0 ELSE 2 * TC(Sep(level)) - 1
<1>1. Recursive!Packed = Flat(chunks) \o currentChunkSplit
  BY DEF Recursive!Packed, Flat
<1>2. \A p : Recursive!WithSeparator(p) = p \o Sep(level)
  BY DEF Recursive!WithSeparator, Sep
<1>3. Recursive!ToPack = FlatWith(splits, Sep(level))
  BY DEF Recursive!ToPack, FlatWith, Joined, Flat, Recursive!WithSeparator, Sep
<1>4. Len(Recursive!separators) = 5
  BY SeparatorFacts
<1>5. Recursive!Excess = IF TC(Sep(level)) = 0 THEN 0 ELSE 2 * TC(Sep(level)) - 1
  BY DEF Recursive!Excess, TC, Sep
<1>6. \A p : Recursive!isSplitValid(p) <=> \A i \in DOMAIN p : TC(p[i]) <= chunkSize
  BY DEF Recursive!isSplitValid, TC
<1>7. Recursive!OverBySeparators <=>
        (pc # "try" /\ level <= 5 => \A i \in DOMAIN chunks : TC(chunks[i]) <= chunkSize + Recursive!Excess)
  BY <1>4 DEF Recursive!OverBySeparators, TC
<1>8. Recursive!EveryPieceOnce <=>
        (pc = "pack" \/ (pc = "done" /\ level <= 5) =>
            (Flat(chunks) \o currentChunkSplit) \o FlatWith(splits, Sep(level)) = text \o Sep(level))
  BY <1>1, <1>2, <1>3, <1>4 DEF Recursive!EveryPieceOnce
<1> QED
  BY <1>2, <1>5, <1>6, <1>7, <1>8

\* The same for the next state.
LEMMA RecursivePartsNext ==
  /\ Recursive!EveryPieceOnce' <=>
        (pc' = "pack" \/ (pc' = "done" /\ level' <= 5) =>
            (Flat(chunks') \o currentChunkSplit') \o FlatWith(splits', Sep(level')) = text' \o Sep(level'))
  /\ Recursive!OverBySeparators' <=>
        (pc' # "try" /\ level' <= 5 => \A i \in DOMAIN chunks' : TC(chunks'[i]) <= chunkSize' + Recursive!Excess')
  /\ Recursive!isSplitValid(splits)' <=> \A i \in DOMAIN splits' : TC(splits'[i]) <= chunkSize'
  /\ Recursive!Excess' = IF TC(Sep(level')) = 0 THEN 0 ELSE 2 * TC(Sep(level')) - 1
<1>1. Recursive!Packed' = Flat(chunks') \o currentChunkSplit'
  BY DEF Recursive!Packed, Flat
<1>2. Recursive!WithSeparator(text)' = text' \o Sep(level')
  BY DEF Recursive!WithSeparator, Sep, Recursive!separators
<1>3. Recursive!ToPack' = FlatWith(splits', Sep(level'))
  BY DEF Recursive!ToPack, FlatWith, Joined, Flat, Recursive!WithSeparator, Sep
<1>4. Len(Recursive!separators) = 5 /\ Len(Recursive!separators)' = 5
  BY SeparatorFacts DEF Recursive!separators
<1>5. Recursive!Excess' = IF TC(Sep(level')) = 0 THEN 0 ELSE 2 * TC(Sep(level')) - 1
  BY DEF Recursive!Excess, TC, Sep
<1>6. Recursive!isSplitValid(splits)' <=> \A i \in DOMAIN splits' : TC(splits'[i]) <= chunkSize'
  BY DEF Recursive!isSplitValid, TC
<1>7. Recursive!OverBySeparators' <=>
        (pc' # "try" /\ level' <= 5 => \A i \in DOMAIN chunks' : TC(chunks'[i]) <= chunkSize' + Recursive!Excess')
  BY <1>4 DEF Recursive!OverBySeparators, TC
<1>8. Recursive!EveryPieceOnce' <=>
        (pc' = "pack" \/ (pc' = "done" /\ level' <= 5) =>
            (Flat(chunks') \o currentChunkSplit') \o FlatWith(splits', Sep(level')) = text' \o Sep(level'))
  BY <1>1, <1>2, <1>3, <1>4 DEF Recursive!EveryPieceOnce
<1> QED
  BY <1>5, <1>6, <1>7, <1>8

\* The types that every step starts from.
LEMMA RecursiveTypes ==
  ASSUME Recursive!TypeOK
  PROVE  /\ text \in Seq(Atom) /\ text \in Recursive!Texts /\ chunkSize \in Nat
         /\ chunkSize \in ChunkSizes /\ level \in 1..6
         /\ splits \in Seq(Seq(Atom)) /\ currentChunkSplit \in Seq(Atom)
         /\ currentChunkSize \in Nat /\ chunks \in Seq(Seq(Atom))
<1>1. chunkSize \in Nat
  BY RetrievalCallsAssumption DEF Recursive!TypeOK
<1> QED
  BY <1>1, TextFacts, SeparatorFacts DEF Recursive!TypeOK, Atom

\* Nothing is packed yet.
LEMMA RecursiveInit ==
  Recursive!Init => RecursiveInv
<1> SUFFICES ASSUME Recursive!Init
             PROVE  RecursiveInv
  OBVIOUS
<1>1. /\ text \in Recursive!Texts /\ chunkSize \in ChunkSizes /\ level = 1 /\ splits = << >>
      /\ currentChunkSplit = << >> /\ currentChunkSize = 0 /\ chunks = << >> /\ pc = "try"
  BY DEF Recursive!Init
<1>2. Recursive!TypeOK
  <2>1. << >> \in Seq(Seq(Recursive!Atoms)) /\ << >> \in Seq(Recursive!Atoms)
    OBVIOUS
  <2>2. level \in 1..(Len(Recursive!separators) + 1)
    BY <1>1, SeparatorFacts
  <2> QED
    BY <1>1, <2>1, <2>2 DEF Recursive!TypeOK
<1> QED
  BY <1>1, <1>2, RecursiveParts DEF RecursiveInv

\* Only a word longer than a chunk is left when the text is cut at every space.
LEMMA LongPiece ==
  ASSUME NEW t \in Seq(Atom), NEW n \in Nat, NEW p, Uncut(p, t, <<"s">>), TC(p) > n
  PROVE  \E i, j \in DOMAIN t : i <= j /\ j - i + 1 > n /\ \A k \in i..j : t[k] # "s"
<1>1. PICK a \in Nat, b \in Nat :
        /\ a > 0 /\ a <= b + 1 /\ b <= Len(t) /\ p = SubSeq(t, a, b)
        /\ \A j \in a..b : j \notin Hits(t, <<"s">>)
  BY DEF Uncut
<1>2. Len(t) \in Nat /\ DOMAIN t = 1..Len(t)
  OBVIOUS
<1>3. p \in Seq(Atom) /\ Len(p) = b + 1 - a
  BY <1>1, RestFacts
<1>4. TC(p) <= b + 1 - a /\ TC(p) \in Nat
  BY <1>3, CountIs
<1>5. b - a + 1 > n /\ a <= b /\ a \in 1..Len(t) /\ b \in 1..Len(t)
  BY <1>1, <1>2, <1>4
<1>6. ASSUME NEW k \in a..b PROVE t[k] # "s"
  <2>1. k \in 1..Len(t) /\ Len(<<"s">>) = 1 /\ k \in Int /\ t[k] \in Atom
    BY <1>1, <1>2
  <2>2. k \notin Hits(t, <<"s">>)
    BY <1>1, <1>6
  <2>3. k \in 1..(Len(t) - Len(<<"s">>) + 1) /\ k + Len(<<"s">>) - 1 = k
    BY <1>2, <2>1
  <2>4. SubSeq(t, k, k) # <<"s">>
    BY <2>2, <2>3 DEF Hits
  <2>5. SubSeq(t, k, k) = <<t[k]>>
    <3>1. SubSeq(t, k, k) \in Seq(Atom) /\ Len(SubSeq(t, k, k)) = 1
      BY <1>2, <2>1, RestFacts
    <3>2. SubSeq(t, k, k)[1] = t[k]
      BY <1>2, <2>1
    <3>3. PICK u \in Seq(Atom) : u = SubSeq(t, k, k)
      BY <3>1
    <3>4. u = <<u[1]>>
      <4>1. Len(u) = 1 /\ u[1] \in Atom
        BY <3>1, <3>3
      <4>2. PICK v \in Seq(Atom) : v = <<u[1]>>
        BY <4>1
      <4>3. Len(v) = 1 /\ v[1] = u[1]
        BY <4>2
      <4>4. \A i \in 1..Len(u) : u[i] = v[i]
        BY <4>1, <4>3
      <4> QED
        BY <3>3, <4>1, <4>2, <4>3, <4>4, SeqEqual
    <3> QED
      BY <3>2, <3>3, <3>4
  <2> QED
    BY <2>4, <2>5
<1> QED
  BY <1>2, <1>5, <1>6

\* A separator that cuts the text up finely enough is packed with, a coarser one passed over.
LEMMA TryStep ==
  ASSUME RecursiveInv, Recursive!TrySeparator
  PROVE  RecursiveInv'
<1> DEFINE pieces == Recursive!Components(text, Sep(level))
<1>1. Recursive!TypeOK /\ level <= 5 /\ pc = "try"
  BY SeparatorFacts DEF RecursiveInv, Recursive!TrySeparator
<1>2. /\ text \in Seq(Atom) /\ text \in Recursive!Texts /\ chunkSize \in Nat
      /\ level \in 1..5 /\ chunkSize \in ChunkSizes /\ Len(text) \in Nat
  BY <1>1, RecursiveTypes
<1>3. /\ UNCHANGED <<text, chunkSize, currentChunkSplit, currentChunkSize, chunks>>
      /\ chunks = << >> /\ splits = << >> /\ currentChunkSplit = << >> /\ currentChunkSize = 0
      /\ level > 4 => LongRun
  BY <1>1 DEF RecursiveInv, Recursive!TrySeparator, Recursive!arguments
<1>4. IF \A i \in DOMAIN pieces : TC(pieces[i]) <= chunkSize
      THEN splits' = pieces /\ pc' = "pack" /\ UNCHANGED level
      ELSE level' = level + 1 /\ UNCHANGED <<splits, pc>>
  <2>1. Recursive!isSplitValid(pieces) <=> \A i \in DOMAIN pieces : TC(pieces[i]) <= chunkSize
    BY RecursiveParts
  <2> QED
    BY <2>1 DEF Recursive!TrySeparator, Sep
<1>5. Sep(level) \in Seq(Atom) /\ TC(Sep(level)) \in Nat
  BY <1>2, SeparatorFacts
<1>6. /\ pieces \in Seq(Seq(Atom))
      /\ FlatWith(pieces, Sep(level)) = SubSeq(text, 1, Len(text)) \o Sep(level)
      /\ Sep(level) # << >> => \A i \in 1..Len(pieces) : Uncut(pieces[i], text, Sep(level))
  BY <1>2, <1>5, ComponentsFacts DEF PiecesFrom
<1> HIDE DEF pieces
<1>7. CASE \A i \in DOMAIN pieces : TC(pieces[i]) <= chunkSize
  <2>1. splits' = pieces /\ pc' = "pack" /\ level' = level
    BY <1>4, <1>7
  <2>2. Recursive!TypeOK'
    <3>1. TC(<< >>) \in Nat /\ << >> \in Seq(Atom)
      BY EmptySeq, CountIs
    <3>2. (currentChunkSize <= Recursive!TokenCount(currentChunkSplit))'
      BY <1>3, <3>1 DEF TC
    <3> QED
      BY <1>1, <1>3, <1>6, <2>1, <3>2 DEF Recursive!TypeOK, Atom
  <2>3. Recursive!EveryPieceOnce'
    <3>1. Flat(<< >>) = << >>
      BY FlatType, EmptySeq
    <3>2. SubSeq(text, 1, Len(text)) = text
      BY <1>2
    <3>3. text \o Sep(level) \in Seq(Atom)
      BY <1>2, <1>5, ConcatProperties
    <3>4. (<< >> \o << >>) \o (text \o Sep(level)) = text \o Sep(level)
      BY <3>3
    <3> QED
      BY <1>3, <1>6, <2>1, <3>1, <3>2, <3>4, RecursivePartsNext
  <2>4. Recursive!OverBySeparators'
    BY <1>3, RecursivePartsNext
  <2>5. Recursive!isSplitValid(splits)'
    BY <1>3, <1>7, <2>1, RecursivePartsNext
  <2>6. /\ TC(currentChunkSplit') = 0
        /\ Recursive!Excess' \in Nat
    <3>1. TC(<< >>) = 0
      <4>1. TC(<< >>) <= Len(<< >>) /\ TC(<< >>) \in Nat /\ Len(<< >>) = 0
        BY EmptySeq, CountIs
      <4> QED
        BY <4>1
    <3>2. Recursive!Excess' \in Nat
      BY <1>5, <2>1, RecursivePartsNext
    <3> QED
      BY <1>3, <3>1, <3>2
  <2>7. /\ TC(currentChunkSplit') <= currentChunkSize' + TC(Sep(level'))
        /\ TC(currentChunkSplit') <= chunkSize' + Recursive!Excess'
    BY <1>2, <1>3, <1>5, <2>1, <2>6
  <2> QED
    BY <1>2, <2>1, <2>2, <2>3, <2>4, <2>5, <2>7 DEF RecursiveInv, TC, Sep, Recursive!separators
<1>8. CASE ~ \A i \in DOMAIN pieces : TC(pieces[i]) <= chunkSize
  <2>1. level' = level + 1 /\ splits' = splits /\ pc' = "try"
    BY <1>1, <1>4, <1>8
  <2>2. level' \in 1..6 /\ level' > 1
    BY <1>2, <2>1
  <2>3. Recursive!TypeOK'
    BY <1>1, <1>3, <2>1, <2>2, SeparatorFacts DEF Recursive!TypeOK
  <2>4. Recursive!EveryPieceOnce' /\ Recursive!OverBySeparators'
    BY <2>1, RecursivePartsNext
  <2>5. level' > 4 => LongRun
    <3>1. CASE level > 4
      BY <1>3, <3>1
    <3>2. CASE level = 4
      <4>1. PICK i \in DOMAIN pieces : ~ (TC(pieces[i]) <= chunkSize)
        BY <1>8
      <4>2. PICK p : p = pieces[i]
        OBVIOUS
      <4>3. Uncut(p, text, <<"s">>)
        <5>1. i \in 1..Len(pieces)
          BY <1>6
        <5> QED
          BY <1>6, <3>2, <4>2, <5>1, SeparatorFacts
      <4>4. TC(p) \in Nat /\ TC(p) > chunkSize
        <5>1. p \in Seq(Atom)
          BY <1>6, <4>2
        <5>2. TC(p) \in Nat
          BY <5>1, CountIs
        <5> QED
          BY <1>2, <4>1, <4>2, <5>2
      <4> QED
        BY <1>2, <4>3, <4>4, LongPiece DEF LongRun
    <3>3. CASE level < 4
      BY <1>2, <2>1, <3>3
    <3> QED
      BY <1>2, <3>1, <3>2, <3>3
  <2>6. LongRun => LongRun'
    BY <1>3 DEF LongRun
  <2> QED
    BY <1>3, <2>1, <2>3, <2>4, <2>5, <2>6 DEF RecursiveInv
<1> QED
  BY <1>7, <1>8

\* What the invariant says while pieces are packed.
LEMMA PackFacts ==
  ASSUME RecursiveInv, pc = "pack"
  PROVE  /\ text \in Seq(Atom) /\ chunkSize \in Nat /\ level \in 1..5
         /\ splits \in Seq(Seq(Atom)) /\ currentChunkSplit \in Seq(Atom)
         /\ currentChunkSize \in Nat /\ chunks \in Seq(Seq(Atom))
         /\ Sep(level) \in Seq(Atom) /\ TC(Sep(level)) \in Nat
         /\ TC(currentChunkSplit) \in Nat /\ currentChunkSize <= TC(currentChunkSplit)
         /\ TC(currentChunkSplit) <= currentChunkSize + TC(Sep(level))
         /\ TC(currentChunkSplit) <= chunkSize + Recursive!Excess
         /\ \A i \in DOMAIN splits : TC(splits[i]) <= chunkSize
         /\ \A i \in DOMAIN chunks : TC(chunks[i]) <= chunkSize + Recursive!Excess
         /\ (Flat(chunks) \o currentChunkSplit) \o FlatWith(splits, Sep(level)) = text \o Sep(level)
         /\ Flat(chunks) \in Seq(Atom) /\ Flat(<< >>) = << >>
<1>1. Recursive!TypeOK /\ level <= 5
  BY DEF RecursiveInv
<1>2. /\ text \in Seq(Atom) /\ chunkSize \in Nat /\ level \in 1..5
      /\ splits \in Seq(Seq(Atom)) /\ currentChunkSplit \in Seq(Atom)
      /\ currentChunkSize \in Nat /\ chunks \in Seq(Seq(Atom))
  BY <1>1, RecursiveTypes
<1>3. /\ Sep(level) \in Seq(Atom) /\ TC(Sep(level)) \in Nat
      /\ TC(currentChunkSplit) \in Nat
  BY <1>2, SeparatorFacts, CountIs
<1>4. currentChunkSize <= TC(currentChunkSplit)
  BY <1>1 DEF Recursive!TypeOK, TC
<1>5. Flat(chunks) \in Seq(Atom) /\ Flat(<< >>) = << >>
  BY <1>2, FlatType, EmptySeq
<1> QED
  BY <1>1, <1>2, <1>3, <1>4, <1>5, RecursiveParts DEF RecursiveInv

\* The next piece moves into a chunk, as it is.
LEMMA PieceFacts ==
  ASSUME RecursiveInv, pc = "pack", splits # << >>
  PROVE  /\ Head(splits) \in Seq(Atom) /\ Tail(splits) \in Seq(Seq(Atom))
         /\ TC(Head(splits)) \in Nat /\ TC(Head(splits)) <= chunkSize
         /\ \A i \in DOMAIN Tail(splits) : TC(Tail(splits)[i]) <= chunkSize
         /\ Recursive!WithSeparator(Head(splits)) = Head(splits) \o Sep(level)
         /\ Head(splits) \o Sep(level) \in Seq(Atom)
         /\ TC(Head(splits) \o Sep(level)) = TC(Head(splits)) + TC(Sep(level))
         /\ FlatWith(Tail(splits), Sep(level)) \in Seq(Atom)
         /\ FlatWith(splits, Sep(level)) = (Head(splits) \o Sep(level)) \o FlatWith(Tail(splits), Sep(level))
<1>1. /\ splits \in Seq(Seq(Atom)) /\ Sep(level) \in Seq(Atom)
      /\ \A i \in DOMAIN splits : TC(splits[i]) <= chunkSize
  BY PackFacts
<1>2. PICK s, q : s = splits /\ q = Sep(level)
  OBVIOUS
<1>3. s \in Seq(Seq(Atom)) /\ q \in Seq(Atom) /\ s # << >>
  BY <1>1, <1>2
<1>4. /\ Head(s) \in Seq(Atom) /\ Tail(s) \in Seq(Seq(Atom))
      /\ FlatWith(s, q) = (Head(s) \o q) \o FlatWith(Tail(s), q)
  BY <1>3, JoinedCons
<1>5. FlatWith(Tail(s), q) \in Seq(Atom)
  BY <1>3, <1>4, JoinedType
<1>6. Head(s) \o q \in Seq(Atom)
  BY <1>3, <1>4, ConcatProperties
<1>7. TC(Head(s) \o q) = TC(Head(s)) + TC(q) /\ TC(Head(s)) \in Nat
  BY <1>3, <1>4, CountConcat, CountIs
<1>8. /\ 1 \in DOMAIN s /\ Head(s) = s[1]
      /\ \A i \in DOMAIN Tail(s) : i + 1 \in DOMAIN s /\ Tail(s)[i] = s[i + 1]
  BY <1>3, EmptySeq
<1>9. TC(Head(s)) <= chunkSize /\ \A i \in DOMAIN Tail(s) : TC(Tail(s)[i]) <= chunkSize
  BY <1>1, <1>2, <1>8
<1> QED
  BY <1>2, <1>4, <1>5, <1>6, <1>7, <1>9, RecursiveParts

\* A piece that fits: the chunk is counted again, with all its separators.
LEMMA PackStep ==
  ASSUME RecursiveInv, Recursive!PackPiece
  PROVE  RecursiveInv'
<1>1. /\ pc = "pack" /\ pc' = pc /\ splits # << >> /\ splits' = Tail(splits)
      /\ UNCHANGED <<text, chunkSize, level, chunks>>
      /\ currentChunkSize + TC(Head(splits)) < chunkSize
      /\ currentChunkSplit' = currentChunkSplit \o Recursive!WithSeparator(Head(splits))
      /\ currentChunkSize' = IF TC(currentChunkSplit') > currentChunkSize + TC(Head(splits))
                             THEN TC(currentChunkSplit') ELSE currentChunkSize + TC(Head(splits))
  BY DEF Recursive!PackPiece, Recursive!arguments, TC
<1>2. PICK a, b, c, d, h, w, q, s, x :
        /\ a = Flat(chunks) /\ b = currentChunkSplit /\ c = FlatWith(Tail(splits), Sep(level))
        /\ h = Head(splits) /\ q = Sep(level) /\ w = h \o q /\ d = b \o w
        /\ s = currentChunkSize /\ x = Recursive!Excess
  OBVIOUS
<1>3. /\ a \in Seq(Atom) /\ b \in Seq(Atom) /\ c \in Seq(Atom) /\ w \in Seq(Atom)
      /\ TC(w) = TC(h) + TC(q) /\ TC(h) \in Nat /\ TC(q) \in Nat /\ TC(b) \in Nat /\ s \in Nat
      /\ chunkSize \in Nat /\ s <= TC(b) /\ TC(b) <= s + TC(q)
      /\ (a \o b) \o (w \o c) = text \o q
      /\ Recursive!WithSeparator(h) = w
  BY <1>1, <1>2, PackFacts, PieceFacts
<1>4. d \in Seq(Atom) /\ TC(d) = TC(b) + TC(w)
  BY <1>2, <1>3, ConcatProperties, CountConcat
<1>n. PICK k, l, m, n : k = TC(b) /\ l = TC(h) /\ m = TC(q) /\ n = TC(d)
  OBVIOUS
<1>o. /\ k \in Nat /\ l \in Nat /\ m \in Nat /\ n \in Nat /\ s \in Nat /\ chunkSize \in Nat
      /\ n = k + (l + m) /\ s <= k /\ k <= s + m /\ s + l < chunkSize
  <2>1. n = k + (l + m) /\ k \in Nat /\ l \in Nat /\ m \in Nat
    BY <1>3, <1>4, <1>n
  <2>2. s + l < chunkSize
    BY <1>1, <1>2, <1>n
  <2>3. s \in Nat /\ chunkSize \in Nat
    BY <1>3
  <2>4. s <= k /\ k <= s + m
    BY <1>3, <1>n, Zenon
  <2> QED
    BY ONLY <2>1, <2>2, <2>3, <2>4
<1>5. TC(d) \in Nat /\ TC(d) >= s + TC(h) /\ currentChunkSplit' = d /\ currentChunkSize' = TC(d)
  <2>1. currentChunkSplit' = d
    BY <1>1, <1>2, <1>3
  <2>2. currentChunkSize' = IF n > s + l THEN n ELSE s + l
    BY <1>1, <1>2, <1>n, <2>1
  <2>3. n >= s + l /\ (~ (n > s + l) => n = s + l)
    BY ONLY <1>o
  <2> QED
    BY <1>n, <1>o, <2>1, <2>2, <2>3
<1>6. x = (IF TC(q) = 0 THEN 0 ELSE 2 * TC(q) - 1) /\ Recursive!Excess' = x
  BY <1>1, <1>2, RecursiveParts, RecursivePartsNext
<1>7. TC(d) <= chunkSize + x
  <2>1. x = IF m = 0 THEN 0 ELSE 2 * m - 1
    BY <1>6, <1>n
  <2>2. n <= chunkSize + x
    BY ONLY <1>o, <2>1
  <2> QED
    BY <1>n, <2>2
<1>8. (a \o d) \o c = text \o q
  <2>1. (a \o (b \o w)) \o c = (a \o b) \o (w \o c)
    <3>1. PICK e \in Seq(Atom), f \in Seq(Atom), g \in Seq(Atom), i \in Seq(Atom) : e = a /\ f = b /\ g = w /\ i = c
      BY <1>3
    <3>2. (e \o (f \o g)) \o i = (e \o f) \o (g \o i)
      BY <3>1
    <3> QED
      BY <3>1, <3>2
  <2> QED
    BY <1>2, <1>3, <2>1
<1>9. Recursive!TypeOK'
  <2>1. Recursive!TypeOK /\ Tail(splits) \in Seq(Seq(Atom))
    BY <1>1, PieceFacts DEF RecursiveInv
  <2>2. (currentChunkSize <= Recursive!TokenCount(currentChunkSplit))'
    BY <1>5 DEF TC
  <2> QED
    BY <1>1, <1>4, <1>5, <2>1, <2>2 DEF Recursive!TypeOK, Atom
<1>10. Recursive!EveryPieceOnce'
  BY <1>1, <1>2, <1>5, <1>8, RecursivePartsNext
<1>11. Recursive!OverBySeparators'
  BY <1>1, <1>2, <1>6, PackFacts, RecursivePartsNext
<1>12. Recursive!isSplitValid(splits)'
  BY <1>1, PieceFacts, RecursivePartsNext
<1>13. /\ TC(currentChunkSplit') <= currentChunkSize' + TC(Sep(level'))
       /\ TC(currentChunkSplit') <= chunkSize' + Recursive!Excess'
  <2>1. /\ currentChunkSplit' = d /\ currentChunkSize' = n /\ n = TC(d)
        /\ Sep(level') = q /\ chunkSize' = chunkSize
    BY <1>1, <1>2, <1>5, <1>n
  <2>2. n <= n + m
    BY <1>o
  <2> QED
    BY <1>6, <1>7, <1>n, <2>1, <2>2
<1> QED
  BY <1>1, <1>9, <1>10, <1>11, <1>12, <1>13, PackFacts DEF RecursiveInv, TC, Sep, Recursive!separators

\* One that does not begins the next chunk, its separator uncounted.
LEMMA NextChunkStep ==
  ASSUME RecursiveInv, Recursive!NextChunk
  PROVE  RecursiveInv'
<1>1. /\ pc = "pack" /\ pc' = pc /\ splits # << >> /\ splits' = Tail(splits)
      /\ UNCHANGED <<text, chunkSize, level>>
      /\ chunks' = Append(chunks, currentChunkSplit)
      /\ currentChunkSplit' = Recursive!WithSeparator(Head(splits))
      /\ currentChunkSize' = TC(Head(splits))
  BY DEF Recursive!NextChunk, Recursive!arguments, TC
<1>2. PICK a, b, c, h, w, q, x :
        /\ a = Flat(chunks) /\ b = currentChunkSplit /\ c = FlatWith(Tail(splits), Sep(level))
        /\ h = Head(splits) /\ q = Sep(level) /\ w = h \o q /\ x = Recursive!Excess
  OBVIOUS
<1>3. /\ a \in Seq(Atom) /\ b \in Seq(Atom) /\ c \in Seq(Atom) /\ w \in Seq(Atom)
      /\ TC(w) = TC(h) + TC(q) /\ TC(h) \in Nat /\ TC(q) \in Nat /\ TC(h) <= chunkSize
      /\ chunkSize \in Nat /\ TC(b) <= chunkSize + x
      /\ (a \o b) \o (w \o c) = text \o q
      /\ Recursive!WithSeparator(h) = w
  BY <1>1, <1>2, PackFacts, PieceFacts
<1>4. /\ chunks \in Seq(Seq(Atom)) /\ chunks' \in Seq(Seq(Atom)) /\ Flat(chunks') = a \o b
      /\ currentChunkSplit' = w /\ currentChunkSize' = TC(h)
  BY <1>1, <1>2, <1>3, PackFacts, FlatAppend
<1>5. x = (IF TC(q) = 0 THEN 0 ELSE 2 * TC(q) - 1) /\ Recursive!Excess' = x
  BY <1>1, <1>2, RecursiveParts, RecursivePartsNext
<1>6. TC(w) <= chunkSize + x /\ TC(w) \in Nat /\ TC(h) <= TC(w)
  BY <1>3, <1>5
<1>7. ((a \o b) \o w) \o c = text \o q
  <2>1. ((a \o b) \o w) \o c = (a \o b) \o (w \o c)
    <3>1. PICK e \in Seq(Atom), f \in Seq(Atom), g \in Seq(Atom), i \in Seq(Atom) : e = a /\ f = b /\ g = w /\ i = c
      BY <1>3
    <3>2. ((e \o f) \o g) \o i = (e \o f) \o (g \o i)
      BY <3>1
    <3> QED
      BY <3>1, <3>2
  <2> QED
    BY <1>3, <2>1
<1>8. Recursive!TypeOK'
  <2>1. Recursive!TypeOK /\ Tail(splits) \in Seq(Seq(Atom))
    BY <1>1, PieceFacts DEF RecursiveInv
  <2>2. (currentChunkSize <= Recursive!TokenCount(currentChunkSplit))'
    BY <1>4, <1>6 DEF TC
  <2> QED
    BY <1>1, <1>3, <1>4, <2>1, <2>2 DEF Recursive!TypeOK, Atom
<1>9. Recursive!EveryPieceOnce'
  BY <1>1, <1>2, <1>4, <1>7, RecursivePartsNext
<1>10. Recursive!OverBySeparators'
  <2>1. ASSUME NEW i \in DOMAIN chunks' PROVE TC(chunks'[i]) <= chunkSize + x
    <3>1. (i \in DOMAIN chunks /\ chunks'[i] = chunks[i]) \/ chunks'[i] = b
      <4>1. PICK u \in Seq(Seq(Atom)), v \in Seq(Atom) : u = chunks /\ v = b
        BY <1>3, <1>4
      <4>2. \A j \in DOMAIN Append(u, v) :
              (j \in DOMAIN u /\ Append(u, v)[j] = u[j]) \/ Append(u, v)[j] = v
        BY <4>1
      <4>3. chunks' = Append(u, v)
        BY <1>1, <1>2, <4>1
      <4> QED
        BY <4>1, <4>2, <4>3
    <3>2. \A j \in DOMAIN chunks : TC(chunks[j]) <= chunkSize + x
      BY <1>1, <1>2, PackFacts
    <3> QED
      BY <1>3, <3>1, <3>2
  <2> QED
    BY <1>1, <1>5, <2>1, RecursivePartsNext
<1>11. Recursive!isSplitValid(splits)'
  BY <1>1, PieceFacts, RecursivePartsNext
<1>12. /\ TC(currentChunkSplit') <= currentChunkSize' + TC(Sep(level'))
       /\ TC(currentChunkSplit') <= chunkSize' + Recursive!Excess'
  <2>1. /\ currentChunkSplit' = w /\ currentChunkSize' = TC(h)
        /\ Sep(level') = q /\ chunkSize' = chunkSize
    BY <1>1, <1>2, <1>4
  <2>2. TC(w) <= TC(h) + TC(q)
    BY <1>3, <1>6
  <2> QED
    BY <1>5, <1>6, <2>1, <2>2
<1> QED
  BY <1>1, <1>8, <1>9, <1>10, <1>11, <1>12, PackFacts DEF RecursiveInv, TC, Sep, Recursive!separators

\* The last chunk is not lost.
LEMMA LastChunkStep ==
  ASSUME RecursiveInv, Recursive!Finish
  PROVE  RecursiveInv'
<1>1. /\ pc = "pack" /\ pc' = "done" /\ splits = << >> /\ splits' = splits
      /\ UNCHANGED <<text, chunkSize, level, currentChunkSize>>
      /\ chunks' = IF currentChunkSplit = << >> THEN chunks ELSE Append(chunks, currentChunkSplit)
      /\ currentChunkSplit' = << >>
  BY DEF Recursive!Finish, Recursive!arguments
<1>2. PICK a, b, q, x :
        a = Flat(chunks) /\ b = currentChunkSplit /\ q = Sep(level) /\ x = Recursive!Excess
  OBVIOUS
<1>3. /\ a \in Seq(Atom) /\ b \in Seq(Atom) /\ q \in Seq(Atom) /\ level \in 1..5
      /\ chunks \in Seq(Seq(Atom)) /\ TC(b) <= chunkSize + x
      /\ (a \o b) \o FlatWith(<< >>, q) = text \o q /\ FlatWith(<< >>, q) = << >>
  <2>1. << >> \in Seq(Seq(Atom))
    BY EmptySeq
  <2>2. /\ a \in Seq(Atom) /\ b \in Seq(Atom) /\ q \in Seq(Atom) /\ level \in 1..5
        /\ chunks \in Seq(Seq(Atom)) /\ TC(b) <= chunkSize + x
        /\ (a \o b) \o FlatWith(<< >>, q) = text \o q
    BY <1>1, <1>2, PackFacts
  <2> QED
    BY <2>1, <2>2, JoinedType
<1>4. /\ chunks' \in Seq(Seq(Atom)) /\ Flat(chunks') = a \o b
      /\ \A i \in DOMAIN chunks' : (i \in DOMAIN chunks /\ chunks'[i] = chunks[i]) \/ chunks'[i] = b
  <2>1. CASE b = << >>
    <3>1. a \o << >> = a
      BY <1>3
    <3> QED
      BY <1>1, <1>2, <1>3, <2>1, <3>1
  <2>2. CASE b # << >>
    <3>1. PICK u \in Seq(Seq(Atom)), v \in Seq(Atom) : u = chunks /\ v = b
      BY <1>3
    <3>2. \A j \in DOMAIN Append(u, v) :
            (j \in DOMAIN u /\ Append(u, v)[j] = u[j]) \/ Append(u, v)[j] = v
      BY <3>1
    <3>3. chunks' = Append(u, v)
      BY <1>1, <1>2, <2>2, <3>1
    <3>4. Append(u, v) \in Seq(Seq(Atom)) /\ Flat(Append(u, v)) = Flat(u) \o v
      BY FlatAppend, <3>1
    <3> QED
      BY <1>2, <3>1, <3>2, <3>3, <3>4
  <2> QED
    BY <2>1, <2>2
<1>5. Recursive!Excess' = x
  BY <1>1, <1>2, RecursiveParts, RecursivePartsNext
<1>6. Recursive!TypeOK'
  <2>1. Recursive!TypeOK /\ << >> \in Seq(Atom)
    BY EmptySeq DEF RecursiveInv
  <2> QED
    BY <1>1, <1>4, <2>1 DEF Recursive!TypeOK, Atom
<1>7. Recursive!EveryPieceOnce'
  <2>1. (a \o b) \o << >> = a \o b
    <3>1. PICK e \in Seq(Atom) : e = a \o b
      BY <1>3, ConcatProperties
    <3>2. e \o << >> = e
      BY <3>1
    <3> QED
      BY <3>1, <3>2
  <2>2. (Flat(chunks') \o currentChunkSplit') \o FlatWith(splits', Sep(level')) = text' \o Sep(level')
    BY <1>1, <1>2, <1>3, <1>4, <2>1
  <2> QED
    BY <2>2, RecursivePartsNext
<1>8. Recursive!OverBySeparators'
  <2>1. \A i \in DOMAIN chunks : TC(chunks[i]) <= chunkSize + x
    BY <1>1, <1>2, PackFacts
  <2>2. \A i \in DOMAIN chunks' : TC(chunks'[i]) <= chunkSize + x
    BY <1>3, <1>4, <2>1
  <2> QED
    BY <1>1, <1>5, <2>2, RecursivePartsNext
<1>9. ~ (level' > 5)
  BY <1>1, <1>3
<1> QED
  BY <1>1, <1>6, <1>7, <1>8, <1>9 DEF RecursiveInv

\* No separator is left: nothing was packed, for the run that is too long.
LEMMA GiveUpStep ==
  ASSUME RecursiveInv, Recursive!GiveUp
  PROVE  RecursiveInv'
<1>1. /\ pc = "try" /\ pc' = "done" /\ level > 5
      /\ UNCHANGED <<text, chunkSize, level, splits, currentChunkSplit, currentChunkSize, chunks>>
  BY SeparatorFacts DEF Recursive!GiveUp, Recursive!arguments
<1>2. /\ Recursive!TypeOK /\ chunks = << >> /\ splits = << >> /\ currentChunkSplit = << >>
      /\ level > 4 => LongRun
  BY <1>1 DEF RecursiveInv
<1>3. level \in 1..6
  BY <1>2, RecursiveTypes
<1>4. LongRun /\ LongRun'
  <2>1. LongRun
    BY <1>1, <1>2, <1>3
  <2> QED
    BY <1>1, <2>1 DEF LongRun
<1>5. Recursive!TypeOK'
  BY <1>1, <1>2 DEF Recursive!TypeOK
<1>6. ~ (level' <= 5)
  BY <1>1, <1>3
<1>7. Recursive!EveryPieceOnce' /\ Recursive!OverBySeparators'
  BY <1>1, <1>6, RecursivePartsNext
<1> QED
  BY <1>1, <1>2, <1>4, <1>5, <1>7 DEF RecursiveInv

\* Every round of split keeps the invariant.
LEMMA RecursiveStep ==
  RecursiveInv /\ Recursive!Next => RecursiveInv'
  BY TryStep, GiveUpStep, PackStep, NextChunkStep, LastChunkStep DEF Recursive!Next

\* A step of none of its variables keeps the invariant.
LEMMA RecursiveStutter ==
  RecursiveInv /\ UNCHANGED <<text, chunkSize, level, splits, currentChunkSplit, currentChunkSize, chunks, pc>>
    => RecursiveInv'
<1> SUFFICES ASSUME RecursiveInv,
                    UNCHANGED <<text, chunkSize, level, splits, currentChunkSplit, currentChunkSize, chunks, pc>>
             PROVE  RecursiveInv'
  OBVIOUS
<1>1. Recursive!TypeOK'
  BY DEF RecursiveInv, Recursive!TypeOK
<1>2. Recursive!Excess' = Recursive!Excess
  BY RecursiveParts, RecursivePartsNext
<1>3. Recursive!EveryPieceOnce'
  BY RecursiveParts, RecursivePartsNext DEF RecursiveInv
<1>4. Recursive!OverBySeparators'
  BY <1>2, RecursiveParts, RecursivePartsNext DEF RecursiveInv
<1>5. Recursive!isSplitValid(splits) => Recursive!isSplitValid(splits)'
  BY RecursiveParts, RecursivePartsNext
<1>6. LongRun => LongRun'
  BY DEF LongRun
<1> QED
  BY <1>1, <1>2, <1>3, <1>4, <1>5, <1>6 DEF RecursiveInv, TC, Sep, Recursive!separators

\* A text that nothing came of was empty, or had a run longer than a chunk.
LEMMA RecursiveDone ==
  RecursiveInv => Recursive!Correct
<1> SUFFICES ASSUME RecursiveInv
             PROVE  Recursive!Correct
  OBVIOUS
<1>1. Recursive!TypeOK /\ Recursive!EveryPieceOnce /\ Recursive!OverBySeparators
  BY DEF RecursiveInv
<1>2. ASSUME pc = "done", chunks = << >>, ~ LongRun PROVE text = << >>
  <2>1. /\ text \in Seq(Atom) /\ level \in 1..5 /\ splits = << >> /\ currentChunkSplit = << >>
    BY <1>1, <1>2, RecursiveTypes DEF RecursiveInv
  <2>2. Sep(level) \in Seq(Atom) /\ << >> \in Seq(Seq(Atom))
    BY <2>1, SeparatorFacts, EmptySeq
  <2>3. Flat(<< >>) = << >> /\ FlatWith(<< >>, Sep(level)) = << >>
    BY <2>2, FlatType, JoinedType
  <2>4. (<< >> \o << >>) \o << >> = text \o Sep(level)
    BY <1>1, <1>2, <2>1, <2>3, RecursiveParts
  <2>5. PICK u \in Seq(Atom), v \in Seq(Atom) : u = text /\ v = Sep(level)
    BY <2>1, <2>2
  <2>6. Len(u \o v) = Len(u) + Len(v) /\ Len(u) \in Nat /\ Len(v) \in Nat
    BY <2>5
  <2>7. Len((<< >> \o << >>) \o << >>) = 0
    OBVIOUS
  <2>8. Len(u \o v) = 0
    BY <2>4, <2>5, <2>7
  <2>9. Len(u) = 0
    BY <2>6, <2>8
  <2> QED
    BY <2>5, <2>9, EmptySeq
<1>3. Recursive!DroppedOnlyForLongRun
  BY <1>2 DEF Recursive!DroppedOnlyForLongRun, LongRun
<1> QED
  BY <1>1, <1>3 DEF Recursive!Correct

------------------------------------------------------------------------------
(* A behaviour is one call *)

\* What is proved of each call.
CallInv ==
    /\ call \in Calls
    /\ call = "characters" => CharacterInv
    /\ call = "tokens" => TokenInv
    /\ call = "recursive" => RecursiveInv
    /\ call = "topK" => RankInv
    /\ call = "addItems" => InsertInv

\* The invariant of a call holds at its start.
LEMMA CallInit ==
  Init => CallInv
<1> SUFFICES ASSUME Init
             PROVE  CallInv
  OBVIOUS
<1>1. call \in Calls
  BY DEF Init, Calls
<1>2. call = "characters" => Characters!Init
  BY DEF Init
<1>3. call = "tokens" => Tokens!Init
  BY DEF Init
<1>4. call = "topK" => Ranking!Init
  BY DEF Init
<1>5. call = "addItems" => Insertion!Init
  BY DEF Init
<1>6. call = "recursive" => Recursive!Init
  BY DEF Init
<1> QED
  BY <1>1, <1>2, <1>3, <1>4, <1>5, <1>6, CharactersInit, TokensInit, RankInit, InsertInit,
     RecursiveInit DEF CallInv

\* A call keeps its own invariant.
LEMMA CallStep ==
  CallInv /\ [Next]_vars => CallInv'
<1> SUFFICES ASSUME CallInv, [Next]_vars
             PROVE  CallInv'
  OBVIOUS
<1>1. CASE SplitCharacters
  <2>1. call = "characters" /\ call' = call /\ Characters!Next
    BY <1>1 DEF SplitCharacters
  <2> QED
    BY <2>1, CharactersStep DEF CallInv
<1>2. CASE SplitTokens
  <2>1. call = "tokens" /\ call' = call /\ Tokens!Next
    BY <1>2 DEF SplitTokens
  <2> QED
    BY <2>1, TokensStep DEF CallInv
<1>3. CASE SplitRecursive
  <2>1. call = "recursive" /\ call' = call /\ Recursive!Next
    BY <1>3 DEF SplitRecursive
  <2> QED
    BY <2>1, RecursiveStep DEF CallInv
<1>4. CASE Rank
  <2>1. call = "topK" /\ call' = call /\ Ranking!Next
    BY <1>4 DEF Rank
  <2> QED
    BY <2>1, RankStep DEF CallInv
<1>5. CASE AddItems
  <2>1. call = "addItems" /\ call' = call /\ Insertion!Next
    BY <1>5 DEF AddItems, Others
  <2> QED
    BY <2>1, AddItemsStep DEF CallInv
<1>6. CASE UNCHANGED vars
  <2>1. /\ UNCHANGED <<call, pc, chunkSize, chunks>>
        /\ UNCHANGED <<overlapSize, components, read, currentChunk, currentCount>>
        /\ UNCHANGED <<tokens, remainingTokens, chunk, emitted>>
        /\ UNCHANGED <<count, size, seen, result>>
        /\ UNCHANGED <<threads, at, oldCount, buffer, memory, indexItems, raced>>
        /\ UNCHANGED <<text, level, splits, currentChunkSplit, currentChunkSize>>
    BY <1>6 DEF vars, characterVars, tokenVars, recursiveVars, topKVars, insertionVars
  <2>2. CharacterInv => CharacterInv'
    BY <2>1 DEF CharacterInv, CharacterType, Sliding, Start, Characters!NoWordLost,
                Characters!ChunksAreWindows, Characters!Window
  <2>3. TokenInv => TokenInv'
    <3>1. Spared' = Spared /\ Tokens!TypeOK' = Tokens!TypeOK
      BY <2>1 DEF Spared, Tokens!WholeWords, Tokens!ShortSentences, Tokens!TypeOK
    <3> QED
      BY <2>1, <3>1 DEF TokenInv, Tokens!EachTokenOnce, Spared, RestBeginsWord
  <2>4. InsertInv => InsertInv'
    <3>1. Newest' = Newest /\ InsertType' = InsertType /\ OneByOne' = OneByOne
      BY <2>1 DEF Newest, InsertType, OneByOne
    <3>2. OneAppends' = OneAppends /\ Progress' = Progress /\ HoldsDone' = HoldsDone
      BY <2>1 DEF Newest, OneAppends, Progress, HoldsDone, Filled
    <3> QED
      BY <2>1, <3>1, <3>2 DEF InsertInv, Unraced
  <2>5. RankInv => RankInv'
    BY <2>1, RankStutter
  <2>6. RecursiveInv => RecursiveInv'
    BY <2>1, RecursiveStutter
  <2> QED
    BY <2>1, <2>2, <2>3, <2>4, <2>5, <2>6 DEF CallInv
<1> QED
  BY <1>1, <1>2, <1>3, <1>4, <1>5, <1>6 DEF Next

\* The inductive invariant of every call.
LEMMA CallInvariant ==
  Spec => []CallInv
  BY CallInit, CallStep, PTL DEF Spec

\* On any number of threads and for any texts: as long as no two appends overlap, the process does
\* not trap, and when addItems returns every text is in the index, once; on one thread no two
\* overlap.  So a race is the only way to lose a chunk (SimilarityIndex.addItems).
THEOREM InsertionCorrectHolds ==
  Spec => []InsertionCorrect
<1>1. CallInv => InsertionCorrect
  BY ItemsCorrect DEF CallInv, InsertionCorrect
<1> QED
  BY <1>1, CallInvariant, PTL

\* With any chunk size and overlap no word of a text is lost, and with an overlap below the
\* size the chunks are the sliding windows asked for, of which only the last reaches the end
\* (CharacterSplitter.split).
THEOREM CharactersCorrectHolds ==
  Spec => []CharactersCorrect
<1>1. CallInv => CharactersCorrect
  BY CharactersDone DEF CallInv, CharactersCorrect
<1> QED
  BY <1>1, CallInvariant, PTL

\* Whatever number of tokens the end of a word encodes to: of a text whose words are single tokens,
\* or that has a stop in any chunkSize tokens in a row, no cut falls inside a word, the chunks and
\* the rest make up the text, in order and each token once, and nothing traps
\* (TokenSplitter.split).
THEOREM TokensCorrectHolds ==
  Spec => []TokensCorrect
<1>1. CallInv => TokensCorrect
  BY DEF CallInv, TokensCorrect, TokenInv, Tokens!Correct
<1> QED
  BY <1>1, CallInvariant, PTL

\* Whichever separator was fine enough, packing loses, doubles and moves no piece, and a chunk
\* goes over the size by the separators of two pieces at most; of a text nothing comes only if it
\* is empty or has a run without a space longer than a chunk (RecursiveTokenSplitter.split).
THEOREM RecursiveCorrectHolds ==
  Spec => []RecursiveCorrect
<1>1. CallInv => RecursiveCorrect
  BY RecursiveDone DEF CallInv, RecursiveCorrect
<1> QED
  BY <1>1, CallInvariant, PTL

\* At every moment of its single pass over the collection topK holds as many results as were
\* asked for, or as there are, and they are what sorting all that was read would put first, in
\* that order, as long as no score among them is no number (Collection.topK).
THEOREM RankingCorrectHolds ==
  Spec => []RankingCorrect
<1>1. CallInv => RankingCorrect
  BY RankCorrect DEF CallInv, RankingCorrect
<1> QED
  BY <1>1, CallInvariant, PTL
==============================================================================
