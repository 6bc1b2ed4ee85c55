--------------------------- MODULE ItemInsertion ---------------------------
(***************************************************************************)
(* SimilarityIndex.addItems: one child task per text, each of which        *)
(* encodes its text and appends the item to the array indexItems.  Neither *)
(* the index nor the array belongs to an actor, so children on different   *)
(* threads append at the same time.  RagIndex takes all chunks of a file   *)
(* together; this module looks at what that leaves out.                    *)
(*                                                                         *)
(* Array.append reads the count, makes room behind it (in a new buffer,   *)
(* when the old one is full), stores the new count and then initialises    *)
(* the slot.  Two appends at a time are a data race, and nothing can be    *)
(* said of the process from then on: the model lets their parts interleave *)
(* and the process end at any of them.                                     *)
(***************************************************************************)
EXTENDS Integers, SequencesExt

CONSTANTS
    Texts,   \* the texts to add
    Pools,   \* how many threads the cooperative pool may have
    None

VARIABLES
    threads,     \* those of this pool
    at,          \* how far each child is
    oldCount,    \* the count it has read
    buffer,      \* the larger buffer it has made
    memory,      \* all buffers the array has had: slots and count
    indexItems,  \* the array's buffer
    raced,       \* have two appends overlapped?  Occurs in Trap only
    pc           \* addItems itself

vars == <<threads, at, oldCount, buffer, memory, indexItems, raced, pc>>

Stages == {"new", "encode", "append", "reserve", "replace", "count", "write", "done"}
Free == 0
OnThread == {i \in Texts : at[i] \notin {"new", "done"}}
Appending == {i \in Texts : at[i] \in {"reserve", "replace", "count", "write"}}

Init ==
    /\ threads \in Pools
    /\ at = [i \in Texts |-> "new"]
    /\ oldCount = [i \in Texts |-> 0] /\ buffer = [i \in Texts |-> Free]
    /\ memory = << [slots |-> <<None>>, count |-> 0] >> /\ indexItems = 1
    /\ raced = FALSE
    /\ pc = "next"

\* A thread takes up a child; no step of a child gives the thread back before its end.
StartChild(i) ==
    /\ pc # "trapped" /\ at[i] = "new"
    /\ Cardinality(OnThread) < threads
    /\ at' = [at EXCEPT ![i] = "encode"]
    /\ UNCHANGED <<threads, oldCount, buffer, memory, indexItems, raced, pc>>

\* getEmbedding: a vector of the index's dimension in any case.
Encode(i) ==
    /\ pc # "trapped" /\ at[i] = "encode"
    /\ at' = [at EXCEPT ![i] = "append"]
    /\ UNCHANGED <<threads, oldCount, buffer, memory, indexItems, raced, pc>>

Array == memory[indexItems]

ReadCount(i) ==
    /\ pc # "trapped" /\ at[i] = "append"
    /\ oldCount' = [oldCount EXCEPT ![i] = Array.count]
    /\ raced' = (raced \/ Appending # {})
    /\ at' = [at EXCEPT ![i] = "reserve"]
    /\ UNCHANGED <<threads, buffer, memory, indexItems, pc>>

Larger(m, n) == IF m > n THEN m ELSE n

\* A buffer of twice the size, n at least, with the elements of a.
Grown(a, n) ==
    [slots |-> [i \in 1..Larger(2 * Len(a.slots), n) |->
                    IF i <= a.count /\ i <= Len(a.slots) THEN a.slots[i] ELSE None],
     count |-> a.count]

HasRoom(i) ==
    /\ pc # "trapped" /\ at[i] = "reserve" /\ oldCount[i] < Len(Array.slots)
    /\ at' = [at EXCEPT ![i] = "count"]
    /\ UNCHANGED <<threads, oldCount, buffer, memory, indexItems, raced, pc>>

Grow(i) ==
    /\ pc # "trapped" /\ at[i] = "reserve" /\ oldCount[i] >= Len(Array.slots)
    /\ memory' = Append(memory, Grown(Array, oldCount[i] + 1))
    /\ buffer' = [buffer EXCEPT ![i] = Len(memory')]
    /\ at' = [at EXCEPT ![i] = "replace"]
    /\ UNCHANGED <<threads, oldCount, indexItems, raced, pc>>

\* The new buffer becomes the array's, and the old one is freed.
Replace(i) ==
    /\ pc # "trapped" /\ at[i] = "replace"
    /\ indexItems' = buffer[i]
    /\ at' = [at EXCEPT ![i] = "count"]
    /\ UNCHANGED <<threads, oldCount, buffer, memory, raced, pc>>

StoreCount(i) ==
    /\ pc # "trapped" /\ at[i] = "count"
    /\ memory' = [memory EXCEPT ![indexItems].count = oldCount[i] + 1]
    /\ at' = [at EXCEPT ![i] = "write"]
    /\ UNCHANGED <<threads, oldCount, buffer, indexItems, raced, pc>>

\* The slot behind what was counted, if the buffer of this moment has it.
Write(i) ==
    /\ pc # "trapped" /\ at[i] = "write"
    /\ oldCount[i] < Len(Array.slots)
    /\ memory' = [memory EXCEPT ![indexItems].slots[oldCount[i] + 1] = i]
    /\ at' = [at EXCEPT ![i] = "done"]
    /\ UNCHANGED <<threads, oldCount, buffer, indexItems, raced, pc>>

\* A race can free a buffer twice, write to one that is freed or past the end of one: the
\* process ends, or goes on with damage the model does not follow.
Trap(i) ==
    /\ pc # "trapped" /\ raced /\ i \in Appending
    /\ pc' = "trapped"
    /\ UNCHANGED <<threads, at, oldCount, buffer, memory, indexItems, raced>>

\* await taskGroup.next()
FirstDone ==
    /\ pc = "next" /\ \E i \in Texts : at[i] = "done"
    /\ pc' = "drain"
    /\ UNCHANGED <<threads, at, oldCount, buffer, memory, indexItems, raced>>

\* Mutant of Return: the group does not wait for the children that are left.
ReturnAfterFirst ==
    /\ pc = "drain"
    /\ pc' = "returned"
    /\ UNCHANGED <<threads, at, oldCount, buffer, memory, indexItems, raced>>

\* withTaskGroup returns when all its children have ended.
Return ==
    /\ pc = "drain" /\ \A i \in Texts : at[i] = "done"
    /\ pc' = "returned"
    /\ UNCHANGED <<threads, at, oldCount, buffer, memory, indexItems, raced>>

Child(i) ==
    \/ StartChild(i) \/ Encode(i) \/ ReadCount(i) \/ HasRoom(i) \/ Grow(i) \/ Replace(i)
    \/ StoreCount(i) \/ Write(i)

RunChild == \E i \in Texts : Child(i) \/ Trap(i)
Resume == FirstDone \/ Return

Next == RunChild \/ Resume

\* The pool's threads run, and the caller is resumed.
Spec == Init /\ [][Next]_vars /\ WF_vars(RunChild) /\ WF_vars(Resume)

------------------------------------------------------------------------------
(* Properties *)

Items == SubSeq(Array.slots, 1, Array.count)

\* Every variable has its type; short of a race the array counts no more than it holds.
TypeOK ==
    /\ threads \in Pools /\ at \in [Texts -> Stages] /\ raced \in BOOLEAN
    /\ memory \in Seq([slots : Seq(Texts \cup {None}), count : Nat])
    /\ indexItems \in DOMAIN memory /\ (~raced => Array.count <= Len(Array.slots))
    /\ buffer \in [Texts -> Free..Len(memory)]
    /\ oldCount \in [Texts -> Nat]
    /\ pc \in {"next", "drain", "returned", "trapped"}

\* Only a race takes a text from the index or ends the process: when addItems has returned
\* and no two appends overlapped, every text is there, once.
EachAddedOnce ==
    ~raced => /\ pc # "trapped"
              /\ pc = "returned" => IsInjective(Items) /\ ToSet(Items) = Texts

\* One thread is enough to keep the appends apart, as a child is inside append without a pause.
OneThreadNoRace == threads = 1 => ~raced

\* addItems comes to an end, if not always to a good one.
Ends == <>(pc \in {"returned", "trapped"})

\* Together: what may lose an item is a race, and with one thread there is none.
Correct == TypeOK /\ EachAddedOnce /\ OneThreadNoRace

=============================================================================
