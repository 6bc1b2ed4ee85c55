-------------------------------- MODULE TopK --------------------------------
(***************************************************************************)
(* Collection.topK, which ranks the chunks of an index for a query: the    *)
(* k elements that come first, kept in order while the collection is read  *)
(* once.  Scores stand for the pairs of score and index it is called with; *)
(* a greater score comes first (sortedScores).                             *)
(***************************************************************************)
EXTENDS Integers, Sequences, FiniteSets, Functions

CONSTANTS
    Scores,  \* ordinary scores
    NaN,     \* the score of a zero vector by CosineSimilarity
    Counts,  \* bound: how many results are asked for
    Sizes    \* bound: lengths of the collection

VARIABLES
    count,   \* the argument
    size,    \* self.count
    seen,    \* how often each score has been read
    result,
    pc

vars == <<count, size, seen, result, pc>>

Elements == Scores \cup {NaN}

\* The comparison of floating point numbers, false whenever NaN takes part.
areInIncreasingOrder(a, b) == a # NaN /\ b # NaN /\ a > b

PrefixCount == IF count < size THEN count ELSE size

\* The guard of the short way: sort everything.
SortsAll == PrefixCount >= size \div 10

\* The elements of a bag with a score in S, each told apart, and how many score x or more.
Copies(bag, S) == UNION {{e} \X (1..bag[e]) : e \in S}
reach(bag, x) == Cardinality(Copies(bag, {y \in Scores : y >= x}))

TotalRead == Cardinality(Copies(seen, Elements))

Reads(e) == TotalRead < size /\ seen' = [seen EXCEPT ![e] = @ + 1]

\* Array.sorted, on ordinary scores: position i holds the score that i elements reach.
sorted(bag) ==
    [i \in 1..Cardinality(Copies(bag, Scores)) |->
        CHOOSE x \in Scores : reach(bag, x) >= i /\ reach(bag, x) - bag[x] < i]

prefix(s, n) == SubSeq(s, 1, IF n < Len(s) THEN n ELSE Len(s))

------------------------------------------------------------------------------
Init ==
    /\ count \in Counts /\ size \in Sizes
    /\ seen = [e \in Elements |-> 0]
    /\ result = << >>
    /\ pc = IF count > 0 THEN "start" ELSE "done"

\* The elements sorted at the start: all of them, or the first PrefixCount.  How sorted
\* orders a NaN is left open by the library; one is only read later.
ReadStart(e) ==
    /\ pc = "start" /\ e \in Scores
    /\ TotalRead < IF SortsAll THEN size ELSE PrefixCount
    /\ Reads(e)
    /\ UNCHANGED <<count, size, result, pc>>

SortStart ==
    /\ pc = "start"
    /\ TotalRead = IF SortsAll THEN size ELSE PrefixCount
    /\ result' = prefix(sorted(seen), PrefixCount)
    /\ pc' = IF SortsAll THEN "done" ELSE "rest"
    /\ UNCHANGED <<count, size, seen>>

\* partition puts the results that e precedes behind the others: where each place is filled
\* from.  It moves nothing that is in order, as the result is until a NaN is in it, and
\* leaves the order open otherwise.
Orders(e) ==
    LET places == 1..Len(result)
        fits(p) == \A i, j \in places : i < j /\ areInIncreasingOrder(e, result[p[i]])
                                          => areInIncreasingOrder(e, result[p[j]])
        same == [i \in places |-> i]
    IN  IF fits(same) THEN {same} ELSE {p \in Injection(places, places) : fits(p)}

\* removeLast drops the last one; e goes in where those it precedes begin.
insert(e, p) ==
    LET n == Len(result)
        ahead == {i \in 1..n : ~ areInIncreasingOrder(e, result[i])}
        place == IF Cardinality(ahead) < n THEN Cardinality(ahead) + 1 ELSE n
    IN  [i \in 1..n |->
            IF i < place THEN result[p[i]] ELSE IF i = place THEN e ELSE result[p[i - 1]]]

\* Mutant of ReadRest: an element equal to the last result ends nothing, a smaller one is taken.
ReadRestReversed(e) ==
    /\ pc = "rest" /\ e \in Elements
    /\ Reads(e)
    /\ result' \in IF areInIncreasingOrder(e, result[Len(result)]) THEN {result}
                   ELSE {insert(e, p) : p \in Orders(e)}
    /\ UNCHANGED <<count, size, pc>>

ReadRest(e) ==
    /\ pc = "rest" /\ e \in Elements
    /\ Reads(e)
    /\ result' \in IF areInIncreasingOrder(result[Len(result)], e) THEN {result}
                   ELSE {insert(e, p) : p \in Orders(e)}
    /\ UNCHANGED <<count, size, pc>>

Return ==
    /\ pc = "rest" /\ TotalRead = size
    /\ pc' = "done"
    /\ UNCHANGED <<count, size, seen, result>>

Next == (\E e \in Elements : ReadStart(e) \/ ReadRest(e)) \/ SortStart \/ Return

Spec == Init /\ [][Next]_vars

------------------------------------------------------------------------------
(* Properties *)

TypeOK ==
    /\ count \in Counts /\ size \in Sizes
    /\ seen \in [Elements -> Nat] /\ TotalRead <= size
    /\ result \in Seq(Elements) /\ Len(result) <= count
    /\ pc \in {"start", "rest", "done"}

\* "topKcorrect == topKfast" (DistanceTest.swift): at every moment of the single pass the
\* result is what sorting everything read so far would put first, unless there was a score
\* among it that is no number.
ResultIsBestSoFar ==
    pc # "start" /\ count > 0 /\ seen[NaN] = 0 => result = prefix(sorted(seen), PrefixCount)

\* Together: as many results as were asked for, and the best.
Correct == TypeOK /\ ResultIsBestSoFar

============================================================================
