----------------------------- MODULE JobHeapMC -----------------------------
(***************************************************************************)
(* container/heap's loops, swap by swap, compared with the operators of    *)
(* JobHeap on every heap of at most MaxHeap jobs.  The operators and the   *)
(* loops look at jobs only through Less, which orders distinct jobs        *)
(* totally, so jobs of one priority, told apart by seq, are all the cases. *)
(***************************************************************************)
EXTENDS JobHeap, TLC

\* Large enough for a removal that sifts the moved element up, which takes
\* two subtrees of different depth.
MaxHeap == 6

Swap(s, i, j) == [s EXCEPT ![i] = s[j], ![j] = s[i]]

\* for { i := (j-1)/2; if i == j || !h.Less(j, i) { break }; h.Swap(i, j); j = i }
RECURSIVE upLoop(_, _)
upLoop(s, j) ==
    IF j = 1 \/ ~Less(s[j], s[Parent(j)]) THEN s
    ELSE upLoop(Swap(s, Parent(j), j), Parent(j))

\* The loop of down over the first n elements: the array, and where i ended.
RECURSIVE downLoop(_, _, _)
downLoop(s, i, n) ==
    LET left == 2 * i
        j == IF left + 1 <= n /\ Less(s[left + 1], s[left]) THEN left + 1 ELSE left
    IN  IF left > n \/ ~Less(s[j], s[i]) THEN <<s, i>>
        ELSE downLoop(Swap(s, i, j), j, n)

pushLoop(s, x) == upLoop(Append(s, x), Len(s) + 1)

removeLoop(s, i) ==
    LET n == Len(s) - 1
        d == downLoop(Swap(s, i, n + 1), i, n)
        r == IF d[2] > i THEN d[1] ELSE upLoop(d[1], i)
    IN  SubSeq(IF n + 1 = i THEN s ELSE r, 1, n)

AJob(s) == [priority |-> 1, seq |-> s]

\* The heaps of n jobs, their seqs even so that a pushed job may fall
\* anywhere between them.
Heaps(n) ==
    { q \in { [k \in 1..n |-> AJob(2 * p[k])] : p \in Permutations(1..n) } :
        HeapOrdered(q) }

\* Push and Remove compute what container/heap's loops compute, on every heap
\* and at every position.
ASSUME MatchesLoops ==
    \A n \in 0..MaxHeap : \A q \in Heaps(n) :
        /\ \A r \in 0..n :
              Push(q, AJob(2 * r + 1)) = pushLoop(q, AJob(2 * r + 1))
        /\ \A i \in 1..n : Remove(q, i) = removeLoop(q, i)

=============================================================================
