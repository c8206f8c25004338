------------------------------ MODULE JobHeap ------------------------------
(***************************************************************************)
(* The dispatcher's pending jobs: dispatcher/queue.go (the ordering) and   *)
(* the part of Go's container/heap it is driven through (heap.Push and     *)
(* heap.Remove; external).  The heap is the array priorityQueue, here a    *)
(* sequence q indexed from 1, so the parent of position k is k \div 2 and  *)
(* its children are 2*k and 2*k + 1.                                       *)
(*                                                                         *)
(* up and down of container/heap sift one element along one path of the    *)
(* tree, swapping as they go.  Each is given here by its outcome: the path *)
(* segment moves by one position and the element lands at its end.  The    *)
(* module JobHeapMC compares them with the loops, swap by swap.            *)
(***************************************************************************)
EXTENDS Integers, Sequences

\* Faulty variant: a tie is taken for less.
Less_NotStrict(a, b) == a.priority >= b.priority

\* priorityQueue.Less: a higher Priority first, then a lower seq.
Less(a, b) ==
    IF a.priority # b.priority THEN a.priority > b.priority ELSE a.seq < b.seq

Parent(k) == k \div 2

\* A set of positions that holds the parent of each of its positions.
Climbs(S) == \A s \in S : s > 1 => Parent(s) \in S

\* k and the positions above it, up to the root: what every set that climbs
\* from k holds.
Ancestors(k) == { a \in 1..k : \A S \in SUBSET (1..k) : k \in S /\ Climbs(S) => a \in S }

\* heap.up(j): the positions whose element gives way to q[j] ...
Displaced(q, j) ==
    { k \in Ancestors(j) \ {1} :
        \A a \in Ancestors(j) : k <= a /\ a > 1 => Less(q[j], q[Parent(a)]) }

\* ... and the array once q[j] has risen past them.
Up(q, j) ==
    [k \in 1..Len(q) |->
        IF k > 1 /\ k \in Displaced(q, j) THEN q[Parent(k)]
        ELSE IF k = j \/ \E c \in Displaced(q, j) : Parent(c) = k THEN q[j]
        ELSE q[k]]

\* heap.down: the child of k that comes first, the left one on a tie.
FirstChild(q, k) ==
    IF 2 * k + 1 <= Len(q) /\ Less(q[2 * k + 1], q[2 * k])
    THEN 2 * k + 1 ELSE 2 * k

\* heap.down(i): the positions below i whose element rises past q[i] ...
Risen(q, i) ==
    { k \in (i + 1)..Len(q) :
        /\ i \in Ancestors(k)
        /\ \A a \in Ancestors(k) :
              a > i => a = FirstChild(q, Parent(a)) /\ Less(q[a], q[i]) }

\* ... and the array once q[i] has sunk below them.
Down(q, i) ==
    [k \in 1..Len(q) |->
        IF 2 * k <= Len(q) /\ FirstChild(q, k) \in Risen(q, i)
        THEN q[FirstChild(q, k)]
        ELSE IF k = i \/ k \in Risen(q, i) THEN q[i]
        ELSE q[k]]

\* heap.Push: append, then sift the last element up.
Push(q, job) == Up(Append(q, job), Len(q) + 1)

\* heap.Remove(h, i): swap q[i] with the last element, sift the moved one
\* down, or up when down left it in place, and drop the last.
Remove(q, i) ==
    LET n == Len(q)
        m == [k \in 1..(n - 1) |-> IF k = i THEN q[n] ELSE q[k]]
    IN  IF i = n THEN m
        ELSE IF Risen(m, i) # {} THEN Down(m, i)
        ELSE Up(m, i)

\* The heap order container/heap maintains: no element before its parent.
HeapOrdered(q) == \A k \in 2..Len(q) : ~Less(q[k], q[Parent(k)])

=============================================================================
