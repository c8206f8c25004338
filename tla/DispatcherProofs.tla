-------------------------- MODULE DispatcherProofs --------------------------
(***************************************************************************)
(* Proofs about the dispatcher and its heap of jobs, for every set of      *)
(* workers, calls and groups and every limit, queue size and priority.     *)
(***************************************************************************)
EXTENDS Dispatcher, FiniteSetTheorems, TLAPS

-----------------------------------------------------------------------------
(* The heap operators only move elements about. *)

\* A function on 1..n with values in S is a sequence over S of length n.
LEMMA FunctionIsSeq ==
  ASSUME NEW S, NEW n \in Nat, NEW f \in [1..n -> S]
  PROVE  f \in Seq(S) /\ Len(f) = n
OBVIOUS

\* heap.up yields an array of the same length over the same elements.
LEMMA UpType ==
  ASSUME NEW S, NEW q \in Seq(S), NEW j \in 1..Len(q)
  PROVE  Up(q, j) \in Seq(S) /\ Len(Up(q, j)) = Len(q)
<1>1. ASSUME NEW k \in 1..Len(q), k > 1
      PROVE  Parent(k) \in 1..Len(q)
  BY <1>1 DEF Parent
<1>2. Up(q, j) \in [1..Len(q) -> S]
  BY <1>1 DEF Up
<1> QED
  BY <1>2, FunctionIsSeq

\* heap.down yields an array of the same length over the same elements.
LEMMA DownType ==
  ASSUME NEW S, NEW q \in Seq(S), NEW i \in 1..Len(q)
  PROVE  Down(q, i) \in Seq(S) /\ Len(Down(q, i)) = Len(q)
<1>1. ASSUME NEW k \in 1..Len(q), 2 * k <= Len(q)
      PROVE  FirstChild(q, k) \in 1..Len(q)
  BY <1>1 DEF FirstChild
<1>2. Down(q, i) \in [1..Len(q) -> S]
  BY <1>1 DEF Down
<1> QED
  BY <1>2, FunctionIsSeq

\* heap.Push adds one element to the array.
LEMMA PushType ==
  ASSUME NEW S, NEW q \in Seq(S), NEW x \in S
  PROVE  Push(q, x) \in Seq(S) /\ Len(Push(q, x)) = Len(q) + 1
<1>1. Append(q, x) \in Seq(S) /\ Len(Append(q, x)) = Len(q) + 1
  OBVIOUS
<1>2. Len(q) + 1 \in 1..Len(Append(q, x))
  BY <1>1
<1> QED
  BY <1>1, <1>2, UpType, Zenon DEF Push

\* heap.Remove takes one element out of the array.
LEMMA RemoveType ==
  ASSUME NEW S, NEW q \in Seq(S), NEW i \in 1..Len(q)
  PROVE  Remove(q, i) \in Seq(S) /\ Len(Remove(q, i)) = Len(q) - 1
<1> DEFINE n == Len(q)
           m == [k \in 1..(n - 1) |-> IF k = i THEN q[n] ELSE q[k]]
<1>1. n \in Nat /\ n > 0 /\ n - 1 \in Nat
  OBVIOUS
<1>2. m \in [1..(n - 1) -> S]
  BY <1>1
<1> HIDE DEF m
<1>3. m \in Seq(S) /\ Len(m) = n - 1
  BY <1>1, <1>2, FunctionIsSeq, SMTT(15)
<1>4. CASE i = n
  BY <1>3, <1>4, Zenon DEF Remove, m
<1>5. CASE i # n
  <2>1. i \in 1..Len(m)
    BY <1>1, <1>3, <1>5
  <2>2. Remove(q, i) = IF Risen(m, i) # {} THEN Down(m, i) ELSE Up(m, i)
    BY <1>5, Zenon DEF Remove, m
  <2>3. Up(m, i) \in Seq(S) /\ Len(Up(m, i)) = Len(m)
    BY Zenon, <1>3, <2>1, UpType
  <2>4. Down(m, i) \in Seq(S) /\ Len(Down(m, i)) = Len(m)
    BY Zenon, <1>3, <2>1, DownType
  <2> QED
    BY Zenon, <1>3, <2>2, <2>3, <2>4
<1> QED
  BY Zenon, <1>4, <1>5

-----------------------------------------------------------------------------
(* The ancestors of a position are the path from it to the root. *)

\* The parent of a position is above it, and the position is one of its two
\* children.
LEMMA ParentAbove ==
  \A k \in Nat \ {0} : k > 1 =>
      /\ Parent(k) \in 1..(k - 1)
      /\ k = 2 * Parent(k) \/ k = 2 * Parent(k) + 1
BY DEF Parent

\* A position is its own ancestor, and an ancestor is not below it.
LEMMA AncestorsSelf ==
  \A k \in Nat \ {0} : k \in Ancestors(k) /\ Ancestors(k) \subseteq 1..k
BY DEF Ancestors

\* Every set of positions that climbs from k holds the ancestors of k.
LEMMA AncestorsLeast ==
  ASSUME NEW k \in Nat \ {0}, NEW S \in SUBSET (1..k), k \in S, Climbs(S)
  PROVE  Ancestors(k) \subseteq S
BY Zenon DEF Ancestors

\* The ancestors of a position climb.
LEMMA AncestorsClimb ==
  ASSUME NEW k \in Nat \ {0}
  PROVE  Climbs(Ancestors(k))
<1> SUFFICES ASSUME NEW a \in Ancestors(k), a > 1
             PROVE  Parent(a) \in Ancestors(k)
  BY Zenon DEF Climbs
<1>1. a \in 1..k
  BY Zenon, AncestorsSelf
<1>2. Parent(a) \in 1..k
  BY <1>1, ParentAbove
<1>3. ASSUME NEW S \in SUBSET (1..k), k \in S, Climbs(S)
      PROVE  Parent(a) \in S
  <2>1. a \in S
    BY Zenon, <1>3, AncestorsLeast
  <2> QED
    BY Zenon, <2>1, <1>3 DEF Climbs
<1> QED
  BY Zenon, <1>2, <1>3 DEF Ancestors

\* The ancestors of an ancestor are ancestors.
LEMMA AncestorsTransitive ==
  ASSUME NEW k \in Nat \ {0}, NEW b \in Ancestors(k)
  PROVE  Ancestors(b) \subseteq Ancestors(k)
<1>1. b \in 1..k /\ b \in Nat \ {0}
  BY AncestorsSelf
<1>2. DEFINE S == Ancestors(k) \cap (1..b)
<1>3. Climbs(S)
  <2> SUFFICES ASSUME NEW s \in S, s > 1
               PROVE  Parent(s) \in S
    BY Zenon DEF Climbs
  <2>1. Parent(s) \in Ancestors(k)
    BY Zenon, AncestorsClimb DEF Climbs
  <2>2. Parent(s) \in 1..b
    BY <1>1, ParentAbove
  <2> QED
    BY Zenon, <2>1, <2>2
<1>4. b \in S /\ S \in SUBSET (1..b)
  BY <1>1
<1>5. Ancestors(b) \subseteq S
  BY Zenon, <1>1, <1>3, <1>4, AncestorsLeast
<1> QED
  BY Zenon, <1>5

\* The ancestors of a position are itself and those of its parent.
LEMMA AncestorsStep ==
  ASSUME NEW k \in Nat \ {0}, k > 1
  PROVE  Ancestors(k) = {k} \cup Ancestors(Parent(k))
<1>1. Parent(k) \in Nat \ {0} /\ Parent(k) < k
  BY ParentAbove
<1>2. k \in Ancestors(k)
  BY Zenon, AncestorsSelf
<1>3. Parent(k) \in Ancestors(k)
  BY Zenon, <1>2, AncestorsClimb DEF Climbs
<1>4. Ancestors(Parent(k)) \subseteq Ancestors(k)
  BY Zenon, <1>3, AncestorsTransitive
<1>5. DEFINE S == {k} \cup Ancestors(Parent(k))
<1>6. Parent(k) \in Ancestors(Parent(k)) /\ Ancestors(Parent(k)) \subseteq 1..Parent(k)
  BY Zenon, <1>1, AncestorsSelf
<1>7. S \in SUBSET (1..k)
  BY <1>1, <1>6
<1>8. Climbs(S)
  BY Zenon, <1>1, <1>6, AncestorsClimb DEF Climbs
<1>9. Ancestors(k) \subseteq S
  BY Zenon, <1>7, <1>8, AncestorsLeast
<1> QED
  BY Zenon, <1>2, <1>4, <1>9

\* The ancestors of a position are a chain: of two of them the upper one is
\* an ancestor of the lower one's parent, so no two are siblings.
LEMMA AncestorsChain ==
  ASSUME NEW k \in Nat \ {0}, NEW a \in Ancestors(k), NEW b \in Ancestors(k), a < b
  PROVE  a \in Ancestors(Parent(b)) /\ a <= Parent(b)
<1>1. a \in 1..k /\ b \in 1..k /\ b > 1
  BY AncestorsSelf
<1>2. DEFINE S == { s \in Ancestors(k) : s \in Ancestors(b) \/ b \in Ancestors(s) }
<1>3. S \in SUBSET (1..k) /\ k \in S
  BY Zenon, AncestorsSelf
<1>4. Climbs(S)
  <2> SUFFICES ASSUME NEW s \in S, s > 1
               PROVE  Parent(s) \in S
    BY Zenon DEF Climbs
  <2>1. s \in Ancestors(k) /\ s \in Nat \ {0}
    BY AncestorsSelf
  <2>2. Parent(s) \in Ancestors(k)
    BY Zenon, <2>1, AncestorsClimb DEF Climbs
  <2>3. CASE s \in Ancestors(b)
    BY <1>1, <2>2, <2>3, AncestorsClimb DEF Climbs
  <2>4. CASE s # b /\ b \in Ancestors(s)
    <3>1. b \in Ancestors(Parent(s))
      BY Zenon, <2>1, <2>4, AncestorsStep
    <3> QED
      BY Zenon, <3>1, <2>2
  <2>5. CASE s = b
    BY Zenon, <1>1, <2>5, <2>3, AncestorsSelf
  <2> QED
    BY Zenon, <2>3, <2>4, <2>5
<1>5. a \in S
  BY Zenon, <1>3, <1>4, AncestorsLeast
<1>6. a \in Ancestors(b)
  <2>1. b \in Ancestors(a) => b <= a
    BY <1>1, AncestorsSelf
  <2> QED
    BY <1>1, <1>5, <2>1
<1>7. a \in Ancestors(Parent(b))
  BY <1>1, <1>6, AncestorsStep
<1>8. Parent(b) \in Nat \ {0}
  BY <1>1, ParentAbove
<1> QED
  BY <1>1, <1>7, <1>8, AncestorsSelf

-----------------------------------------------------------------------------
(* The order of the heap. *)

\* The elements are jobs as far as Less looks at them.
Ranked(J) == \A a \in J : a.priority \in Nat /\ a.seq \in Nat

\* Less is a strict order, and "not before" is transitive, within one order
\* and across the two.
LEMMA LessOrders ==
  ASSUME NEW J, Ranked(J), NEW a \in J, NEW b \in J, NEW c \in J
  PROVE  /\ ~Less(a, a)
         /\ Less(a, b) => ~Less(b, a)
         /\ ~Less(b, a) /\ ~Less(c, b) => ~Less(c, a)
         /\ Less(a, b) /\ ~Less(c, b) => ~Less(c, a)
BY DEF Ranked, Less

\* The positions heap.up displaces are the lower part of the path from j to
\* the root: q[j] goes before the parent of each, each has its own parent, and
\* the path above the last of them is left alone.
LEMMA DisplacedPath ==
  ASSUME NEW J, NEW q \in Seq(J), NEW j \in 1..Len(q)
  PROVE  /\ Displaced(q, j) \subseteq 2..j
         /\ Displaced(q, j) \subseteq Ancestors(j)
         /\ \A c \in Displaced(q, j), k \in Ancestors(j) : c <= k => k \in Displaced(q, j)
         /\ \A c \in Displaced(q, j) : Parent(c) < j /\ Less(q[j], q[Parent(c)])
         /\ \A c \in Displaced(q, j), k \in Ancestors(j) :
              k > 1 /\ Parent(c) = Parent(k) => c = k
         /\ \A k \in 2..j : k \notin Displaced(q, j) /\ Parent(k) \in Displaced(q, j)
              => k \notin Ancestors(j)
         /\ \A k \in 2..j :
              /\ k \notin Displaced(q, j)
              /\ k = j \/ \E c \in Displaced(q, j) : Parent(c) = k
              => k \in Ancestors(j) /\ ~Less(q[j], q[Parent(k)])
<1> DEFINE D == Displaced(q, j)
           A == Ancestors(j)
<1>1. j \in Nat \ {0}
  OBVIOUS
<1>2. A \subseteq 1..j /\ j \in A
  BY Zenon, <1>1, AncestorsSelf
<1>3. D \subseteq 2..j /\ D \subseteq A
  BY <1>2 DEF Displaced
<1>4. \A c \in D : Parent(c) < j /\ Less(q[j], q[Parent(c)])
  <2> SUFFICES ASSUME NEW c \in D
               PROVE  Parent(c) < j /\ Less(q[j], q[Parent(c)])
    BY Zenon
  <2>1. c \in 2..j /\ c \in A
    BY Zenon, <1>3
  <2>2. Parent(c) < j
    BY <2>1, ParentAbove
  <2>3. Less(q[j], q[Parent(c)])
    BY <2>1 DEF Displaced
  <2> QED
    BY Zenon, <2>2, <2>3
<1>5. ASSUME NEW c \in A, NEW k \in A, c > 1, k > 1, Parent(c) = Parent(k)
      PROVE  c = k
  <2>1. c \in 2..j /\ k \in 2..j
    BY <1>2, <1>5
  <2>2. Parent(c) \in 1..(c - 1) /\ Parent(k) \in 1..(k - 1)
    BY <2>1, ParentAbove
  <2>3. c < k => c <= Parent(k)
    BY Zenon, <1>1, AncestorsChain
  <2>4. k < c => k <= Parent(c)
    BY Zenon, <1>1, AncestorsChain
  <2> QED
    BY <1>5, <2>1, <2>2, <2>3, <2>4
<1>6. ASSUME NEW c \in D, NEW k \in A, c <= k
      PROVE  k \in D
  BY <1>2, <1>3, <1>6 DEF Displaced
<1>7. ASSUME NEW k \in 2..j, k \notin D, Parent(k) \in D
      PROVE  k \notin A
  BY <1>6, <1>7, ParentAbove
<1>8. ASSUME NEW k \in 2..j, k \notin D, k = j \/ \E c \in D : Parent(c) = k
      PROVE  k \in A /\ ~Less(q[j], q[Parent(k)])
  <2>1. k \in A
    <3>1. CASE k = j
      BY Zenon, <1>2, <3>1
    <3>2. ASSUME NEW c \in D, Parent(c) = k
          PROVE  k \in A
      <4>1. c \in A /\ c > 1
        BY <1>3
      <4> QED
        BY Zenon, <1>1, <3>2, <4>1, AncestorsClimb DEF Climbs
    <3> QED
      BY Zenon, <1>8, <3>1, <3>2
  <2>2. PICK a \in A : k <= a /\ a > 1 /\ ~Less(q[j], q[Parent(a)])
    BY <1>8, <2>1 DEF Displaced
  <2>3. a = k
    <3>1. CASE k = j
      BY <1>2, <2>2, <3>1
    <3>2. ASSUME NEW c \in D, Parent(c) = k, k < a
          PROVE  FALSE
      <4>1. c \in A /\ c > 1 /\ c \in 2..j /\ a \in 1..j
        BY <1>2, <1>3
      <4>2. ~(a < c)
        BY <1>1, <3>2, <4>1, AncestorsChain
      <4>3. c <= a
        BY <4>1, <4>2
      <4>4. a \in D
        BY Zenon, <1>6, <4>3
      <4> QED
        BY Zenon, <1>4, <2>2, <4>4
    <3> QED
      BY <1>2, <1>8, <2>2, <3>1, <3>2
  <2> QED
    BY Zenon, <2>1, <2>2, <2>3
<1> QED
  BY <1>3, <1>4, <1>5, <1>6, <1>7, <1>8

\* heap.up restores the order of a heap in which only j may be out of place:
\* no other element goes before its parent, and no child of j before the
\* parent of j.
LEMMA UpOrdered ==
  ASSUME NEW J, Ranked(J), NEW q \in Seq(J), NEW j \in 1..Len(q),
         \A k \in 2..Len(q) : k # j => ~Less(q[k], q[Parent(k)]),
         \A k \in 2..Len(q) : Parent(k) = j /\ j > 1 => ~Less(q[k], q[Parent(j)])
  PROVE  HeapOrdered(Up(q, j))
<1> DEFINE D == Displaced(q, j)
           Lands(k) == k = j \/ \E c \in D : Parent(c) = k
           r == Up(q, j)
<1>1. Len(r) = Len(q)
  BY Zenon, UpType
<1>2. \A k \in 1..Len(q) : r[k] = IF k \in D THEN q[Parent(k)]
                                  ELSE IF Lands(k) THEN q[j] ELSE q[k]
  BY DisplacedPath DEF Up
<1> SUFFICES ASSUME NEW k \in 2..Len(q)
             PROVE  ~Less(r[k], r[Parent(k)])
  BY Zenon, <1>1 DEF HeapOrdered
<1> DEFINE p == Parent(k)
<1>3. p \in 1..Len(q) /\ p < k /\ k \in 1..Len(q)
  <2>1. k \in Nat \ {0} /\ k > 1 /\ Len(q) \in Nat /\ k <= Len(q)
    OBVIOUS
  <2>2. p \in 1..(k - 1)
    BY Zenon, <2>1, ParentAbove
  <2> QED
    BY <2>1, <2>2
<1>4. p > 1 => Parent(p) \in 1..Len(q) /\ p \in 2..Len(q)
  BY <1>3, ParentAbove
<1>5. q[k] \in J /\ q[p] \in J /\ q[j] \in J /\ (p > 1 => q[Parent(p)] \in J)
  BY <1>3, <1>4
<1>6. D \subseteq 2..j
  BY Zenon, DisplacedPath
<1>7. CASE k \in D
  <2>1. r[k] = q[p] /\ p # j /\ Less(q[j], q[p])
    BY <1>2, <1>3, <1>7, DisplacedPath
  <2>2. CASE p \in D
    <3>1. r[p] = q[Parent(p)] /\ p > 1
      BY <1>2, <1>3, <1>6, <2>2
    <3> QED
      BY Zenon, <1>4, <2>1, <3>1
  <2>3. CASE p \notin D
    <3>1. r[p] = q[j]
      BY Zenon, <1>2, <1>3, <1>7, <2>3
    <3> QED
      BY Zenon, <1>5, <2>1, <3>1, LessOrders
  <2> QED
    BY Zenon, <2>2, <2>3
<1>8. CASE k \notin D /\ Lands(k)
  <2>1. r[k] = q[j]
    BY Zenon, <1>2, <1>3, <1>8
  <2>2. k \in 2..j
    BY <1>3, <1>6, <1>8, ParentAbove
  <2>3. k \in Ancestors(j) /\ ~Less(q[j], q[p])
    BY Zenon, <1>8, <2>2, DisplacedPath
  <2>4. p \notin D
    BY Zenon, <1>8, <2>2, <2>3, DisplacedPath
  <2>5. ~Lands(p)
    BY <1>3, <1>8, <2>2, <2>3, DisplacedPath
  <2>6. r[p] = q[p]
    BY Zenon, <1>2, <1>3, <2>4, <2>5
  <2> QED
    BY Zenon, <2>1, <2>3, <2>6
<1>9. CASE k \notin D /\ ~Lands(k)
  <2>1. r[k] = q[k] /\ ~Less(q[k], q[p])
    BY Zenon, <1>2, <1>3, <1>9
  <2>2. CASE p \in D
    <3>1. r[p] = q[Parent(p)] /\ p > 1
      BY <1>2, <1>3, <1>6, <2>2
    <3>2. CASE p = j
      BY Zenon, <2>1, <3>1, <3>2
    <3>3. CASE p # j
      BY Zenon, <1>4, <1>5, <2>1, <3>1, <3>3, LessOrders
    <3> QED
      BY Zenon, <3>2, <3>3
  <2>3. CASE p \notin D /\ Lands(p)
    <3>1. r[p] = q[j]
      BY Zenon, <1>2, <1>3, <2>3
    <3>2. CASE p = j
      BY Zenon, <2>1, <3>1, <3>2
    <3>3. ASSUME NEW c \in D, Parent(c) = p
          PROVE  ~Less(q[k], q[j])
      <4>1. Less(q[j], q[p])
        BY Zenon, <3>3, DisplacedPath
      <4> QED
        BY Zenon, <1>5, <2>1, <4>1, LessOrders
    <3> QED
      BY Zenon, <2>1, <2>3, <3>1, <3>2, <3>3
  <2>4. CASE p \notin D /\ ~Lands(p)
    BY Zenon, <1>2, <1>3, <2>1, <2>4
  <2> QED
    BY Zenon, <2>2, <2>3, <2>4
<1> QED
  BY Zenon, <1>7, <1>8, <1>9

\* The child heap.down compares with is one of the two, and the other does
\* not go before it.
LEMMA FirstChildFirst ==
  ASSUME NEW J, Ranked(J), NEW q \in Seq(J), NEW k \in 2..Len(q)
  PROVE  /\ FirstChild(q, Parent(k)) \in 2..Len(q)
         /\ Parent(FirstChild(q, Parent(k))) = Parent(k)
         /\ ~Less(q[k], q[FirstChild(q, Parent(k))])
<1> DEFINE p == Parent(k)
<1>1. p \in Nat \ {0} /\ (k = 2 * p \/ k = 2 * p + 1)
  BY ParentAbove
<1>2. FirstChild(q, p) = 2 * p \/ (FirstChild(q, p) = 2 * p + 1 /\ 2 * p + 1 <= Len(q))
  BY Zenon DEF FirstChild
<1>3. Len(q) \in Nat /\ k <= Len(q)
  OBVIOUS
<1>4. FirstChild(q, p) \in 2..Len(q)
  BY <1>1, <1>2, <1>3
<1>5. Parent(FirstChild(q, p)) = p
  BY <1>1, <1>2 DEF Parent
<1>6. ~Less(q[k], q[FirstChild(q, p)])
  <2>1. k \in 1..Len(q) /\ 2 * p \in 1..Len(q)
    BY <1>1, <1>3
  <2>2. q[k] \in J /\ q[2 * p] \in J
    BY <2>1
  <2>3. CASE 2 * p + 1 <= Len(q) /\ Less(q[2 * p + 1], q[2 * p])
    <3>1. FirstChild(q, p) = 2 * p + 1
      BY Zenon, <2>3 DEF FirstChild
    <3> QED
      BY <1>1, <2>2, <2>3, <3>1, LessOrders
  <2>4. CASE ~(2 * p + 1 <= Len(q) /\ Less(q[2 * p + 1], q[2 * p]))
    <3>1. FirstChild(q, p) = 2 * p
      BY Zenon, <2>4 DEF FirstChild
    <3> QED
      BY Zenon, <1>1, <1>3, <2>2, <2>4, <3>1, LessOrders
  <2> QED
    BY Zenon, <2>3, <2>4
<1> QED
  BY Zenon, <1>4, <1>5, <1>6

\* The positions that rise past q[i] are a path downward from i, from each
\* position to its first child: each goes before q[i], its parent is i or
\* rises too, and where the path ends the next first child does not go
\* before q[i].
LEMMA RisenPath ==
  ASSUME NEW J, NEW q \in Seq(J), NEW i \in 1..Len(q)
  PROVE  /\ Risen(q, i) \subseteq (i + 1)..Len(q)
         /\ \A k \in Risen(q, i) :
              /\ Less(q[k], q[i])
              /\ k = FirstChild(q, Parent(k))
              /\ Parent(k) = i \/ Parent(k) \in Risen(q, i)
         /\ \A k \in 2..Len(q) :
              /\ Parent(k) = i \/ Parent(k) \in Risen(q, i)
              /\ k = FirstChild(q, Parent(k))
              /\ Less(q[k], q[i])
              => k \in Risen(q, i)
         /\ Risen(q, i) # {} => \E k \in Risen(q, i) : Parent(k) = i
<1> DEFINE R == Risen(q, i)
<1>1. R \subseteq (i + 1)..Len(q)
  BY Zenon DEF Risen
<1>2. ASSUME NEW k \in R
      PROVE  /\ Less(q[k], q[i]) /\ k = FirstChild(q, Parent(k))
             /\ Parent(k) = i \/ Parent(k) \in R
  <2>1. k \in (i + 1)..Len(q) /\ k \in Nat \ {0} /\ k > 1 /\ k > i
    BY <1>1
  <2>2. k \in Ancestors(k)
    BY Zenon, <2>1, AncestorsSelf
  <2>3. Less(q[k], q[i]) /\ k = FirstChild(q, Parent(k))
    BY Zenon, <2>1, <2>2 DEF Risen
  <2>4. i \in Ancestors(k)
    BY Zenon DEF Risen
  <2>5. i \in Ancestors(Parent(k)) /\ Ancestors(Parent(k)) \subseteq Ancestors(k)
    BY <2>1, <2>4, AncestorsStep
  <2>6. Parent(k) \in 1..(k - 1)
    BY Zenon, <2>1, ParentAbove
  <2>7. i <= Parent(k)
    BY <2>5, <2>6, AncestorsSelf
  <2>8. ASSUME Parent(k) # i
        PROVE  Parent(k) \in R
    <3>1. Parent(k) \in (i + 1)..Len(q)
      BY <2>1, <2>6, <2>7, <2>8
    <3> QED
      BY Zenon, <2>5, <3>1 DEF Risen
  <2> QED
    BY Zenon, <2>3, <2>8
<1>3. ASSUME NEW k \in 2..Len(q), Parent(k) = i \/ Parent(k) \in R,
             k = FirstChild(q, Parent(k)), Less(q[k], q[i])
      PROVE  k \in R
  <2>1. k \in Nat \ {0} /\ k > 1 /\ Parent(k) \in 1..(k - 1)
    BY ParentAbove
  <2>2. Ancestors(k) = {k} \cup Ancestors(Parent(k))
    BY Zenon, <2>1, AncestorsStep
  <2>3. i \in Ancestors(Parent(k)) /\ i <= Parent(k)
    BY <1>1, <1>3, AncestorsSelf DEF Risen
  <2>4. k \in (i + 1)..Len(q)
    BY <2>1, <2>3
  <2>5. ASSUME NEW a \in Ancestors(k), a > i
        PROVE  a = FirstChild(q, Parent(a)) /\ Less(q[a], q[i])
    <3>1. CASE a = k
      BY Zenon, <1>3, <3>1
    <3>2. CASE a # k
      <4>1. a \in Ancestors(Parent(k))
        BY Zenon, <2>2, <3>2
      <4>2. Parent(k) # i
        <5>1. a <= Parent(k) /\ a \in Nat
          BY <2>1, <4>1, AncestorsSelf
        <5> QED
          BY <2>5, <5>1
      <4> QED
        BY Zenon, <1>3, <2>5, <4>1, <4>2 DEF Risen
    <3> QED
      BY Zenon, <3>1, <3>2
  <2> QED
    BY Zenon, <2>2, <2>3, <2>4, <2>5 DEF Risen
<1>4. ASSUME NEW k \in R, \A c \in R : Parent(c) # i
      PROVE  FALSE
  <2> DEFINE S == R \cap Ancestors(k)
  <2>1. k \in (i + 1)..Len(q) /\ k \in Nat \ {0} /\ i \in Ancestors(k)
    BY <1>1 DEF Risen
  <2>2. Climbs(S)
    <3> SUFFICES ASSUME NEW s \in S, s > 1
                 PROVE  Parent(s) \in S
      BY Zenon DEF Climbs
    <3>1. Parent(s) \in R
      BY Zenon, <1>2, <1>4
    <3>2. Parent(s) \in Ancestors(k)
      BY Zenon, <2>1, AncestorsClimb DEF Climbs
    <3> QED
      BY Zenon, <3>1, <3>2
  <2>3. S \in SUBSET (1..k) /\ k \in S
    BY Zenon, <2>1, AncestorsSelf
  <2>4. Ancestors(k) \subseteq S
    BY Zenon, <2>1, <2>2, <2>3, AncestorsLeast
  <2> QED
    BY <1>1, <2>1, <2>4
<1> QED
  BY Zenon, <1>1, <1>2, <1>3, <1>4

\* heap.down restores the order of a heap in which only i may be out of
\* place, when it moves the element at all: no element but i and its children
\* goes before its parent, and no child of i before the parent of i.
LEMMA DownOrdered ==
  ASSUME NEW J, Ranked(J), NEW q \in Seq(J), NEW i \in 1..Len(q),
         \A k \in 2..Len(q) : k # i /\ Parent(k) # i => ~Less(q[k], q[Parent(k)]),
         \A k \in 2..Len(q) : Parent(k) = i /\ i > 1 => ~Less(q[k], q[Parent(i)]),
         Risen(q, i) # {}
  PROVE  HeapOrdered(Down(q, i))
<1> DEFINE R == Risen(q, i)
           First(k) == FirstChild(q, k)
           r == Down(q, i)
<1>1. Len(r) = Len(q) /\ Len(q) \in Nat
  BY DownType
<1>2. R \subseteq (i + 1)..Len(q)
  BY Zenon, RisenPath
<1>3. \A k \in 1..Len(q) : r[k] = IF First(k) \in R THEN q[First(k)]
                                  ELSE IF k = i \/ k \in R THEN q[i] ELSE q[k]
  <2>1. \A k \in 1..Len(q) : First(k) \in R => 2 * k <= Len(q)
    BY <1>1, <1>2 DEF FirstChild
  <2> QED
    BY Zenon, <2>1 DEF Down
<1>4. \A k \in 1..Len(q) : First(k) \in R => Parent(First(k)) = k
  BY DEF FirstChild, Parent
<1> SUFFICES ASSUME NEW k \in 2..Len(q)
             PROVE  ~Less(r[k], r[Parent(k)])
  BY Zenon, <1>1 DEF HeapOrdered
<1> DEFINE p == Parent(k)
<1>5. p \in 1..Len(q) /\ p < k /\ k \in 1..Len(q)
  <2>1. p \in 1..(k - 1)
    BY ParentAbove
  <2> QED
    BY <1>1, <2>1
<1>6. q[k] \in J /\ q[p] \in J /\ q[i] \in J
  BY <1>5
<1>7. CASE First(k) \in R
  <2>1. r[k] = q[First(k)] /\ Parent(First(k)) = k /\ First(k) \in 2..Len(q)
    BY <1>2, <1>3, <1>4, <1>5, <1>7
  <2>2. CASE k = i
    <3>1. p \notin R /\ p # i
      BY <1>2, <1>5, <2>2
    <3>2. First(p) \notin R
      BY Zenon, <1>4, <1>5, <2>2, <3>1, RisenPath
    <3>3. r[p] = q[p]
      BY Zenon, <1>3, <1>5, <3>1, <3>2
    <3> QED
      BY <1>5, <2>1, <2>2, <3>3
  <2>3. CASE k # i
    <3>1. k \in R
      BY <1>7, <2>1, <2>3, RisenPath
    <3>2. r[p] = q[k]
      BY <1>3, <1>5, <3>1, RisenPath
    <3>3. First(k) # i
      BY <1>2, <1>7
    <3> QED
      BY Zenon, <2>1, <2>3, <3>2, <3>3
  <2> QED
    BY Zenon, <2>2, <2>3
<1>8. CASE First(k) \notin R /\ (k = i \/ k \in R)
  <2>1. r[k] = q[i]
    BY Zenon, <1>3, <1>5, <1>8
  <2>2. k \in R
    BY <1>8, RisenPath
  <2>3. r[p] = q[k] /\ Less(q[k], q[i])
    BY <1>3, <1>5, <2>2, RisenPath
  <2> QED
    BY Zenon, <1>6, <2>1, <2>3, LessOrders
<1>9. CASE First(k) \notin R /\ k # i /\ k \notin R
  <2>1. r[k] = q[k]
    BY Zenon, <1>3, <1>5, <1>9
  <2>2. First(p) \in 2..Len(q) /\ Parent(First(p)) = p /\ ~Less(q[k], q[First(p)])
    BY Zenon, FirstChildFirst
  <2>3. CASE First(p) \in R
    BY Zenon, <1>3, <1>5, <2>1, <2>2, <2>3
  <2>4. CASE First(p) \notin R /\ (p = i \/ p \in R)
    <3>1. r[p] = q[i]
      BY Zenon, <1>3, <1>5, <2>4
    <3>2. ~Less(q[First(p)], q[i])
      BY <2>2, <2>4, RisenPath
    <3>3. q[First(p)] \in J
      BY <2>2
    <3> QED
      BY Zenon, <1>6, <2>1, <2>2, <3>1, <3>2, <3>3, LessOrders
  <2>5. CASE First(p) \notin R /\ p # i /\ p \notin R
    BY Zenon, <1>3, <1>5, <1>9, <2>1, <2>5
  <2> QED
    BY Zenon, <2>3, <2>4, <2>5
<1> QED
  BY Zenon, <1>7, <1>8, <1>9

\* heap.Push keeps the heap order.
LEMMA PushOrdered ==
  ASSUME NEW J, Ranked(J), NEW q \in Seq(J), NEW x \in J, HeapOrdered(q)
  PROVE  HeapOrdered(Push(q, x))
<1> DEFINE a == Append(q, x)
           j == Len(q) + 1
<1>1. a \in Seq(J) /\ Len(a) = j /\ j \in 1..Len(a) /\ Len(q) \in Nat
  OBVIOUS
<1>2. \A k \in 1..Len(q) : a[k] = q[k]
  OBVIOUS
<1> HIDE DEF a
<1>3. \A k \in 2..Len(a) : Parent(k) \in 1..Len(q) /\ Parent(k) # j
  <2> TAKE k \in 2..Len(a)
  <2>1. Parent(k) \in 1..(k - 1) /\ k \in Nat
    BY <1>1, ParentAbove
  <2> QED
    BY <1>1, <2>1
<1>4. \A k \in 2..Len(a) : k # j => ~Less(a[k], a[Parent(k)])
  <2> SUFFICES ASSUME NEW k \in 2..Len(a), k # j
               PROVE  ~Less(a[k], a[Parent(k)])
    BY Zenon
  <2>1. k \in 2..Len(q) /\ k \in 1..Len(q)
    BY <1>1
  <2> QED
    BY Zenon, <1>2, <1>3, <2>1 DEF HeapOrdered
<1> QED
  BY Zenon, <1>1, <1>3, <1>4, UpOrdered DEF Push, a

\* heap.Remove keeps the heap order, at whatever position it is called.
LEMMA RemoveOrdered ==
  ASSUME NEW J, Ranked(J), NEW q \in Seq(J), NEW i \in 1..Len(q), HeapOrdered(q)
  PROVE  HeapOrdered(Remove(q, i))
<1> DEFINE n == Len(q)
           m == [k \in 1..(n - 1) |-> IF k = i THEN q[n] ELSE q[k]]
<1>1. n \in Nat /\ n > 0 /\ n - 1 \in Nat /\ n \in 1..Len(q)
  OBVIOUS
<1>2. m \in [1..(n - 1) -> J]
  BY <1>1
<1>3. \A k \in 1..(n - 1) : m[k] = IF k = i THEN q[n] ELSE q[k]
  BY Zenon
<1>4. Remove(q, i) = IF i = n THEN m ELSE IF Risen(m, i) # {} THEN Down(m, i) ELSE Up(m, i)
  BY Zenon DEF Remove
<1> HIDE DEF m
<1>5. m \in Seq(J) /\ Len(m) = n - 1
  BY Zenon, <1>1, <1>2, FunctionIsSeq
<1>6. \A k \in 2..Len(m) : /\ k \in 1..(n - 1) /\ k \in 2..n
                           /\ Parent(k) \in 1..(n - 1) /\ Parent(k) < k
  <2> TAKE k \in 2..Len(m)
  <2>1. Parent(k) \in 1..(k - 1) /\ k \in Nat /\ k > 1 /\ k <= n - 1
    BY <1>1, <1>5, ParentAbove
  <2> QED
    BY <1>1, <2>1
<1>7. \A k \in 2..Len(m) : k # i /\ Parent(k) # i => ~Less(m[k], m[Parent(k)])
  BY Zenon, <1>3, <1>6 DEF HeapOrdered
<1>8. CASE i = n
  <2>1. \A k \in 2..Len(m) : k # i /\ Parent(k) # i
    BY <1>1, <1>6, <1>8
  <2> QED
    BY Zenon, <1>4, <1>7, <1>8, <2>1 DEF HeapOrdered
<1>9. CASE i # n
  <2>1. i \in 1..Len(m)
    BY <1>1, <1>5, <1>9
  <2>2. \A k \in 2..Len(m) : Parent(k) = i /\ i > 1 => ~Less(m[k], m[Parent(i)])
    <3> SUFFICES ASSUME NEW k \in 2..Len(m), Parent(k) = i, i > 1
                 PROVE  ~Less(m[k], m[Parent(i)])
      BY Zenon
    <3>1. i \in 2..Len(m) /\ k # i /\ Parent(i) # i
      BY <1>6, <2>1
    <3>2. m[k] = q[k] /\ m[Parent(i)] = q[Parent(i)]
      BY Zenon, <1>3, <1>6, <3>1
    <3>3. ~Less(q[k], q[i]) /\ ~Less(q[i], q[Parent(i)])
      BY Zenon, <1>6, <3>1 DEF HeapOrdered
    <3>4. q[k] \in J /\ q[i] \in J /\ q[Parent(i)] \in J
      BY <1>1, <1>6, <3>1
    <3> QED
      BY Zenon, <3>2, <3>3, <3>4, LessOrders
  <2>3. CASE Risen(m, i) # {}
    BY Zenon, <1>4, <1>5, <1>7, <1>9, <2>1, <2>2, <2>3, DownOrdered
  <2>4. CASE Risen(m, i) = {}
    <3>1. \A k \in 2..Len(m) : k # i => ~Less(m[k], m[Parent(k)])
      <4> SUFFICES ASSUME NEW k \in 2..Len(m), Parent(k) = i
                   PROVE  ~Less(m[k], m[i])
        BY Zenon, <1>7
      <4> DEFINE c == FirstChild(m, i)
      <4>1. c \in 2..Len(m) /\ Parent(c) = i /\ ~Less(m[k], m[c])
        BY Zenon, <1>5, FirstChildFirst
      <4>2. ~Less(m[c], m[i])
        BY Zenon, <1>5, <2>1, <2>4, <4>1, RisenPath
      <4>3. m[k] \in J /\ m[c] \in J /\ m[i] \in J
        BY <1>2, <1>5, <2>1, <4>1
      <4> QED
        BY Zenon, <4>1, <4>2, <4>3, LessOrders
    <3>2. HeapOrdered(Up(m, i))
      BY Zenon, <1>5, <2>1, <2>2, <3>1, UpOrdered
    <3> QED
      BY Zenon, <1>4, <1>9, <2>4, <3>2
  <2> QED
    BY Zenon, <2>3, <2>4
<1> QED
  BY Zenon, <1>8, <1>9

-----------------------------------------------------------------------------
(* No element is lost or doubled. *)

\* r holds the elements of q, each once, in some order.
Rearranges(r, q) ==
    /\ Len(r) = Len(q)
    /\ \E f \in Bijection(1..Len(q), 1..Len(q)) : \A k \in 1..Len(q) : r[k] = q[f[k]]

\* A function from 1..n to 1..n takes every value once if it takes none twice,
\* and also if it takes all.
LEMMA FiniteBijection ==
  ASSUME NEW n \in Nat, NEW f \in [1..n -> 1..n]
  PROVE  /\ (\A k, l \in 1..n : f[k] = f[l] => k = l) => f \in Bijection(1..n, 1..n)
         /\ (\A l \in 1..n : \E k \in 1..n : f[k] = l) => f \in Bijection(1..n, 1..n)
<1>1. IsFiniteSet(1..n)
  BY FS_Interval
<1>2. ASSUME \A k, l \in 1..n : f[k] = f[l] => k = l
      PROVE  f \in Bijection(1..n, 1..n)
  <2>1. f \in Injection(1..n, 1..n)
    BY Zenon, <1>2 DEF Injection, IsInjective
  <2>2. f \in Surjection(1..n, 1..n)
    BY Zenon, <1>1, <2>1, FS_Injection
  <2> QED
    BY Zenon, <2>1, <2>2 DEF Bijection
<1>3. ASSUME \A l \in 1..n : \E k \in 1..n : f[k] = l
      PROVE  f \in Bijection(1..n, 1..n)
  <2>1. f \in Surjection(1..n, 1..n)
    BY Zenon, <1>3 DEF Surjection
  <2>2. f \in Injection(1..n, 1..n)
    BY Zenon, <1>1, <2>1, FS_Surjection
  <2> QED
    BY Zenon, <2>1, <2>2 DEF Bijection
<1> QED
  BY Zenon, <1>2, <1>3

\* heap.up moves elements about and keeps each.
LEMMA UpRearranges ==
  ASSUME NEW J, NEW q \in Seq(J), NEW j \in 1..Len(q)
  PROVE  Rearranges(Up(q, j), q)
<1> DEFINE n == Len(q)
           D == Displaced(q, j)
           A == Ancestors(j)
           Lands(k) == k = j \/ \E c \in D : Parent(c) = k
           f == [k \in 1..n |-> IF k \in D THEN Parent(k) ELSE IF Lands(k) THEN j ELSE k]
<1>1. n \in Nat /\ j \in Nat \ {0} /\ j <= n
  OBVIOUS
<1>2. D \subseteq 2..j /\ D \subseteq A
  BY Zenon, DisplacedPath
<1>3. \A c \in D, k \in A : c <= k => k \in D
  BY Zenon, DisplacedPath
<1>4. \A c \in D : Parent(c) \in 1..n /\ Parent(c) < j /\ Parent(c) \in A /\ Parent(c) < c
  <2> SUFFICES ASSUME NEW c \in D
               PROVE  Parent(c) \in 1..n /\ Parent(c) < j /\ Parent(c) \in A /\ Parent(c) < c
    BY Zenon
  <2>1. c \in 2..j /\ c \in A
    BY Zenon, <1>2
  <2>2. Parent(c) \in 1..(c - 1)
    BY <2>1, ParentAbove
  <2>3. Parent(c) \in A
    BY <1>1, <2>1, AncestorsClimb DEF Climbs
  <2> QED
    BY <1>1, <2>1, <2>2, <2>3
<1>5. \A c, k \in D : Parent(c) = Parent(k) => c = k
  BY <1>2, DisplacedPath
<1>6. f \in [1..n -> 1..n]
  BY Zenon, <1>4
<1>7. \A k \in 1..n : f[k] = IF k \in D THEN Parent(k) ELSE IF Lands(k) THEN j ELSE k
  BY Zenon
<1>8. ASSUME NEW k \in 1..n, NEW l \in 1..n, k \notin D, l \notin D, Lands(k), Lands(l)
      PROVE  k = l
  <2>1. j \in A
    BY Zenon, <1>1, AncestorsSelf
  <2>2. j \in D \/ D = {}
    BY <1>2, <1>3, <2>1
  <2>3. ASSUME NEW c \in D, NEW d \in D, Parent(c) = k, Parent(d) = l
        PROVE  ~(c < d) /\ ~(d < c)
    <3>1. c < d => c <= l
      BY Zenon, <1>1, <1>2, <2>3, AncestorsChain
    <3>2. d < c => d <= k
      BY Zenon, <1>1, <1>2, <2>3, AncestorsChain
    <3>3. k \in A /\ l \in A
      BY Zenon, <1>4, <2>3
    <3> QED
      BY Zenon, <1>3, <1>8, <3>1, <3>2, <3>3
  <2>4. ASSUME NEW c \in D, NEW d \in D, Parent(c) = k, Parent(d) = l
        PROVE  k = l
    BY <1>2, <2>3, <2>4
  <2> QED
    BY <1>8, <2>2, <2>4
<1> HIDE DEF f
<1>9. ASSUME NEW k \in 1..n, NEW l \in 1..n, f[k] = f[l]
      PROVE  k = l
  <2>1. CASE k \in D /\ l \in D
    BY Zenon, <1>5, <1>7, <1>9, <2>1
  <2>2. CASE k \in D /\ l \notin D
    BY <1>4, <1>7, <1>9, <2>2
  <2>3. CASE k \notin D /\ l \in D
    BY <1>4, <1>7, <1>9, <2>3
  <2>4. CASE k \notin D /\ l \notin D
    BY Zenon, <1>7, <1>8, <1>9, <2>4
  <2> QED
    BY Zenon, <2>1, <2>2, <2>3, <2>4
<1>10. f \in Bijection(1..n, 1..n)
  BY Zenon, <1>1, <1>6, <1>9, FiniteBijection
<1>11. \A k \in 1..n : Up(q, j)[k] = q[f[k]]
  BY <1>2, <1>7 DEF Up
<1>12. Len(Up(q, j)) = n
  BY Zenon, UpType
<1> QED
  BY Zenon, <1>10, <1>11, <1>12 DEF Rearranges

\* heap.down moves elements about and keeps each.
LEMMA DownRearranges ==
  ASSUME NEW J, NEW q \in Seq(J), NEW i \in 1..Len(q)
  PROVE  Rearranges(Down(q, i), q)
<1> DEFINE n == Len(q)
           R == Risen(q, i)
           First(k) == FirstChild(q, k)
           Lands(k) == k = i \/ k \in R
           f == [k \in 1..n |-> IF First(k) \in R THEN First(k) ELSE IF Lands(k) THEN i ELSE k]
<1>1. n \in Nat /\ i \in 1..n
  OBVIOUS
<1>2. R \subseteq (i + 1)..n
  BY Zenon, RisenPath
<1>3. \A k \in 1..n : First(k) \in R => Parent(First(k)) = k /\ 2 * k <= n
  BY <1>1, <1>2 DEF FirstChild, Parent
<1>4. \A k \in R : First(Parent(k)) = k /\ Lands(Parent(k)) /\ Parent(k) \in 1..n
  BY <1>1, <1>2, RisenPath
<1>5. f \in [1..n -> 1..n]
  BY <1>1, <1>2
<1>6. \A k \in 1..n : f[k] = IF First(k) \in R THEN First(k) ELSE IF Lands(k) THEN i ELSE k
  BY Zenon
<1> HIDE DEF f
<1>7. \E k \in 1..n : f[k] = i
  <2>1. SUFFICES ASSUME \A k \in 1..n : f[k] # i
                 PROVE  FALSE
    BY Zenon
  <2>2. \A k \in 1..n : f[k] = IF First(k) \in R THEN First(k) ELSE k
    BY Zenon, <1>6, <2>1
  <2>3. ASSUME NEW k \in 1..n, NEW l \in 1..n, f[k] = f[l]
        PROVE  k = l
    <3>1. ASSUME NEW x \in 1..n, First(x) \notin R
          PROVE  x \notin R
      BY Zenon, <1>6, <2>1, <3>1
    <3> QED
      BY <1>3, <2>2, <2>3, <3>1
  <2>4. f \in Bijection(1..n, 1..n)
    BY Zenon, <1>1, <1>5, <2>3, FiniteBijection
  <2> QED
    BY Zenon, <1>1, <2>1, <2>4 DEF Bijection, Surjection
<1>8. ASSUME NEW l \in 1..n
      PROVE  \E k \in 1..n : f[k] = l
  <2>1. CASE l \in R
    BY <1>4, <1>6, <2>1
  <2>2. CASE l = i
    BY Zenon, <1>7, <2>2
  <2>3. CASE l \notin R /\ l # i
    <3>1. First(l) \notin R
      BY Zenon, <1>3, <1>4, <2>3
    <3> QED
      BY Zenon, <1>6, <2>3, <3>1
  <2> QED
    BY Zenon, <2>1, <2>2, <2>3
<1>9. f \in Bijection(1..n, 1..n)
  BY Zenon, <1>1, <1>5, <1>8, FiniteBijection
<1>10. \A k \in 1..n : Down(q, i)[k] = q[f[k]]
  BY Zenon, <1>3, <1>6 DEF Down
<1>11. Len(Down(q, i)) = n
  BY Zenon, DownType
<1> QED
  BY Zenon, <1>9, <1>10, <1>11 DEF Rearranges

\* The positions of the jobs of a call.
Holding(q, c) == { k \in 1..Len(q) : q[k].call = c }

\* An array is finite, and so are the positions of a call's jobs.
LEMMA HoldingFinite ==
  ASSUME NEW J, NEW q \in Seq(J), NEW c
  PROVE  IsFiniteSet(Holding(q, c)) /\ Cardinality(Holding(q, c)) \in Nat
<1>1. IsFiniteSet(1..Len(q))
  BY FS_Interval
<1>2. IsFiniteSet(Holding(q, c))
  BY Zenon, <1>1, FS_Subset DEF Holding
<1> QED
  BY Zenon, <1>2, FS_CardinalityType

\* Rearranging an array changes no call's number of jobs.
LEMMA RearrangedCount ==
  ASSUME NEW J, NEW q \in Seq(J), NEW r, Rearranges(r, q), NEW c
  PROVE  Cardinality(Holding(r, c)) = Cardinality(Holding(q, c))
<1> DEFINE n == Len(q)
           S == Holding(r, c)
           T == Holding(q, c)
<1>1. PICK f \in Bijection(1..n, 1..n) : \A k \in 1..n : r[k] = q[f[k]]
  BY Zenon DEF Rearranges
<1>2. Len(r) = n
  BY Zenon DEF Rearranges
<1>3. f \in [1..n -> 1..n] /\ (\A k, l \in 1..n : f[k] = f[l] => k = l)
  BY Zenon DEF Bijection, Injection, IsInjective
<1>4. \A l \in 1..n : \E k \in 1..n : f[k] = l
  BY Zenon DEF Bijection, Surjection
<1>5. S \subseteq 1..n /\ T \subseteq 1..n
  BY Zenon, <1>2 DEF Holding
<1>6. \A k \in 1..n : k \in S <=> f[k] \in T
  BY Zenon, <1>1, <1>2, <1>3 DEF Holding
<1> DEFINE g == [k \in S |-> f[k]]
<1> HIDE DEF S, T
<1>7. g \in [S -> T]
  BY Zenon, <1>5, <1>6
<1>8. g \in Injection(S, T)
  BY Zenon, <1>3, <1>5, <1>7 DEF Injection, IsInjective
<1>9. g \in Surjection(S, T)
  BY Zenon, <1>4, <1>5, <1>6, <1>7 DEF Surjection
<1>10. g \in Bijection(S, T)
  BY Zenon, <1>8, <1>9 DEF Bijection
<1>11. ExistsBijection(S, T)
  BY Zenon, <1>10 DEF ExistsBijection
<1>12. IsFiniteSet(S)
  <2>1. IsFiniteSet(1..n)
    BY FS_Interval
  <2> QED
    BY Zenon, <1>5, <2>1, FS_Subset
<1>13. Cardinality(T) = Cardinality(S)
  BY Zenon, <1>11, <1>12, FS_Bijection
<1> QED
  BY Zenon, <1>13 DEF S, T

\* heap.Push adds one job of one call.
LEMMA PushCount ==
  ASSUME NEW J, NEW q \in Seq(J), NEW x \in J, NEW c
  PROVE  Cardinality(Holding(Push(q, x), c))
           = Cardinality(Holding(q, c)) + (IF x.call = c THEN 1 ELSE 0)
<1> DEFINE a == Append(q, x)
           j == Len(q) + 1
<1>1. a \in Seq(J) /\ Len(a) = j /\ j \in 1..Len(a) /\ Len(q) \in Nat
  OBVIOUS
<1>2. a[j] = x /\ \A k \in 1..Len(q) : a[k] = q[k]
  OBVIOUS
<1> HIDE DEF a
<1>3. Cardinality(Holding(Push(q, x), c)) = Cardinality(Holding(a, c))
  <2>1. Rearranges(Up(a, j), a)
    BY Zenon, <1>1, UpRearranges
  <2>2. Push(q, x) = Up(a, j)
    BY Zenon DEF Push, a
  <2> QED
    BY Zenon, <1>1, <2>1, <2>2, RearrangedCount
<1>4. Holding(a, c) = IF x.call = c THEN Holding(q, c) \cup {j} ELSE Holding(q, c)
  BY <1>1, <1>2 DEF Holding
<1>5. j \notin Holding(q, c)
  BY <1>1 DEF Holding
<1>6. IsFiniteSet(Holding(q, c)) /\ Cardinality(Holding(q, c)) \in Nat
  BY Zenon, HoldingFinite
<1>7. Cardinality(Holding(q, c) \cup {j}) = Cardinality(Holding(q, c)) + 1
  BY Zenon, <1>5, <1>6, FS_AddElement
<1> QED
  BY <1>3, <1>4, <1>6, <1>7

\* heap.Remove takes out the job at its position and no other.
LEMMA RemoveCount ==
  ASSUME NEW J, NEW q \in Seq(J), NEW i \in 1..Len(q), NEW c
  PROVE  Cardinality(Holding(Remove(q, i), c))
           = Cardinality(Holding(q, c)) - (IF q[i].call = c THEN 1 ELSE 0)
<1> DEFINE n == Len(q)
           m == [k \in 1..(n - 1) |-> IF k = i THEN q[n] ELSE q[k]]
<1>1. n \in Nat /\ n > 0 /\ n - 1 \in Nat /\ n \in 1..Len(q)
  OBVIOUS
<1>2. m \in [1..(n - 1) -> J]
  BY <1>1
<1>3. \A k \in 1..(n - 1) : m[k] = IF k = i THEN q[n] ELSE q[k]
  BY Zenon
<1>4. Remove(q, i) = IF i = n THEN m ELSE IF Risen(m, i) # {} THEN Down(m, i) ELSE Up(m, i)
  BY Zenon DEF Remove
<1> HIDE DEF m
<1>5. m \in Seq(J) /\ Len(m) = n - 1
  BY Zenon, <1>1, <1>2, FunctionIsSeq
<1>6. Cardinality(Holding(Remove(q, i), c)) = Cardinality(Holding(m, c))
  <2>1. CASE i = n
    BY Zenon, <1>4, <2>1
  <2>2. CASE i # n
    <3>1. i \in 1..Len(m)
      BY <1>1, <1>5, <2>2
    <3>2. Rearranges(Down(m, i), m) /\ Rearranges(Up(m, i), m)
      BY Zenon, <1>5, <3>1, DownRearranges, UpRearranges
    <3>3. Rearranges(Remove(q, i), m)
      BY Zenon, <1>4, <2>2, <3>2
    <3> QED
      BY Zenon, <1>5, <3>3, RearrangedCount
  <2> QED
    BY Zenon, <2>1, <2>2
<1> DEFINE S == Holding(m, c)
           T == Holding(q, c) \ {i}
           g == [k \in S |-> IF k = i THEN n ELSE k]
<1>7. S \subseteq 1..(n - 1) /\ T \subseteq 1..n /\ i \notin T
  BY Zenon, <1>5 DEF Holding
<1>8. \A k \in 1..(n - 1) : k \in S <=> (IF k = i THEN n ELSE k) \in T
  BY <1>1, <1>3, <1>5 DEF Holding
<1>9. IsFiniteSet(S) /\ IsFiniteSet(Holding(q, c)) /\ Cardinality(Holding(q, c)) \in Nat
  BY Zenon, <1>5, HoldingFinite
<1> HIDE DEF S
<1>10. Cardinality(T) = Cardinality(Holding(q, c)) - (IF q[i].call = c THEN 1 ELSE 0)
  <2>1. i \in Holding(q, c) <=> q[i].call = c
    BY Zenon DEF Holding
  <2>2. Cardinality(Holding(q, c) \ {i})
          = IF i \in Holding(q, c) THEN Cardinality(Holding(q, c)) - 1 ELSE Cardinality(Holding(q, c))
    BY Zenon, <1>9, FS_RemoveElement
  <2> QED
    BY <1>9, <2>1, <2>2
<1> HIDE DEF T
<1>11. g \in [S -> T]
  BY Zenon, <1>7, <1>8
<1>12. g \in Injection(S, T)
  BY <1>1, <1>7, <1>11 DEF Injection, IsInjective
<1>13. g \in Surjection(S, T)
  <2> SUFFICES ASSUME NEW t \in T
               PROVE  \E s \in S : g[s] = t
    BY Zenon, <1>11 DEF Surjection
  <2>1. CASE t # n
    <3>1. t \in 1..(n - 1) /\ t # i
      BY <1>1, <1>7, <2>1
    <3> QED
      BY Zenon, <1>8, <3>1
  <2>2. CASE t = n
    <3>1. i \in 1..(n - 1)
      BY <1>1, <1>7, <2>2
    <3> QED
      BY Zenon, <1>8, <2>2, <3>1
  <2> QED
    BY Zenon, <2>1, <2>2
<1>14. ExistsBijection(S, T)
  BY Zenon, <1>12, <1>13 DEF Bijection, ExistsBijection
<1>15. Cardinality(T) = Cardinality(S)
  BY Zenon, <1>9, <1>14, FS_Bijection
<1> QED
  BY Zenon, <1>6, <1>10, <1>15 DEF S

-----------------------------------------------------------------------------
(* The dispatcher: type correctness. *)

\* The groups of variables an action leaves alone.
USE DEF pool, counters, workers, callers

\* The assumptions on the constants, for the leaves below.
LEMMA ResolveType ==
  ASSUME NEW p \in Priorities
  PROVE  ResolvePriority(p) \in Nat
BY Zenon, PriorityAssumption DEF ResolvePriority

\* A wake-up changes no worker that holds a job, and gives none a job.
LEMMA AwakeType ==
  ASSUME worker \in [Workers -> WorkerStates]
  PROVE  /\ Awake \in [Workers -> WorkerStates]
         /\ \A w \in Workers :
              /\ Awake[w] # "waiting"
              /\ worker[w] # "waiting" => Awake[w] = worker[w]
              /\ worker[w] = "waiting" => Awake[w] = "idle"
BY Zenon DEF Awake, WorkerStates

\* Every step of the dispatcher keeps TypeOK: in particular the queue stays
\* within QueueSize and a worker has a job exactly from dequeue to release.
LEMMA TypeStep == TypeOK /\ [Next]_vars => TypeOK'
<1> SUFFICES ASSUME TypeOK, [Next]_vars PROVE TypeOK'
  BY Zenon
<1>0. QueueOK /\ CountersOK /\ WorkersOK /\ CallsOK
  BY Zenon DEF TypeOK
<1> SUFFICES QueueOK' /\ CountersOK' /\ WorkersOK' /\ CallsOK'
  BY Zenon DEF TypeOK
<1> USE <1>0
<1> DEFINE Goal == QueueOK' /\ CountersOK' /\ WorkersOK' /\ CallsOK'
<1>1. ASSUME NEW c \in Calls, SubmitRejected(c) PROVE Goal
  BY <1>1, Zenon DEF SubmitRejected, QueueOK, CountersOK, WorkersOK, CallsOK
<1>2. ASSUME NEW c \in Calls, NEW p \in Priorities,
             NEW g \in Groups \cup {NoGroup}, SubmitAccepted(c, p, g)
      PROVE  Goal
  <2> DEFINE j == [call |-> c, priority |-> ResolvePriority(p),
                   group |-> g, seq |-> seq + 1]
  <2>1. j \in Job
    <3>1. seq + 1 \in Nat
      BY DEF CountersOK
    <3> QED
      BY Zenon, <3>1, ResolveType DEF Job
  <2>2. queue \in Seq(Job) /\ Len(queue) < QueueSize /\ queue' = Push(queue, j)
    BY <1>2, QueueSizeAssumption DEF QueueOK, SubmitAccepted, Full
  <2> HIDE DEF j
  <2>3. Push(queue, j) \in Seq(Job) /\ Len(Push(queue, j)) = Len(queue) + 1
    BY Zenon, <2>1, <2>2, PushType
  <2>4. QueueOK'
    BY <2>2, <2>3, QueueSizeAssumption DEF QueueOK
  <2>5. CountersOK'
    BY <1>2 DEF CountersOK, SubmitAccepted
  <2>6. WorkersOK'
    BY Zenon, <1>2, AwakeType DEF WorkersOK, SubmitAccepted
  <2>7. CallsOK'
    BY <1>2, Zenon DEF CallsOK, SubmitAccepted
  <2> QED
    BY Zenon, <2>4, <2>5, <2>6, <2>7
<1>3. ASSUME NEW c \in Calls, SubmitReturns(c) PROVE Goal
  BY <1>3, Zenon DEF SubmitReturns, QueueOK, CountersOK, WorkersOK, CallsOK, Outcomes
<1>4. ASSUME NEW c \in Calls, SubmitCancelled(c) PROVE Goal
  BY <1>4, Zenon DEF SubmitCancelled, QueueOK, CountersOK, WorkersOK, CallsOK
<1>5. ASSUME NEW s \in Closers, Shutdown(s) PROVE Goal
  BY <1>5, AwakeType, Zenon DEF Shutdown, QueueOK, CountersOK, WorkersOK, CallsOK
<1>6. ASSUME NEW s \in Closers, ShutdownReturns(s) \/ ShutdownCancelled(s)
      PROVE  Goal
  BY <1>6, Zenon DEF ShutdownReturns, ShutdownCancelled, QueueOK, CountersOK,
              WorkersOK, CallsOK
<1>7. ASSUME NEW w \in Workers, Dequeue(w) PROVE Goal
  <2>1. PICK i \in Eligible :
          /\ queue' = Remove(queue, i)
          /\ job' = [job EXCEPT ![w] = queue[i]]
          /\ acquire(queue[i].group)
    BY <1>7, Zenon DEF Dequeue
  <2>2. queue \in Seq(Job) /\ i \in 1..Len(queue)
    BY Zenon, <2>1 DEF Eligible, QueueOK
  <2>3. queue[i] \in Job /\ queue[i].group \in Groups \cup {NoGroup}
    <3>1. queue[i] \in Job
      BY <2>2
    <3> QED
      BY Zenon, <3>1 DEF Job
  <2>4. queue' \in Seq(Job) /\ Len(queue') = Len(queue) - 1
    BY Zenon, <2>1, <2>2, RemoveType
  <2>5. QueueOK'
    BY <2>2, <2>4, QueueSizeAssumption DEF QueueOK
  <2>6. active' \in [Groups -> Nat]
    BY <2>1, <2>3 DEF acquire, CountersOK
  <2>7. CountersOK'
    BY Zenon, <1>7, <2>6 DEF Dequeue, CountersOK
  <2>8. WorkersOK'
    BY Zenon, <1>7, <2>1, <2>3, NoneAssumption DEF Dequeue, WorkersOK, WorkerStates
  <2>9. CallsOK'
    BY <1>7, Zenon DEF Dequeue, CallsOK
  <2> QED
    BY Zenon, <2>5, <2>7, <2>8, <2>9
<1>8. ASSUME NEW w \in Workers, Wait(w) \/ Exit(w) PROVE Goal
  BY <1>8, Zenon DEF Wait, Exit, QueueOK, CountersOK, WorkersOK, CallsOK, WorkerStates
<1>9. ASSUME NEW w \in Workers, HandlerStarts(w) PROVE Goal
  <2>1. CountersOK'
    BY <1>9 DEF HandlerStarts, CountersOK
  <2>3. QueueOK' /\ CallsOK'
    BY <1>9, Zenon DEF HandlerStarts, QueueOK, CallsOK
  <2>2. WorkersOK'
    BY Zenon, <1>9 DEF HandlerStarts, WorkersOK, WorkerStates
  <2> QED
    BY Zenon, <2>1, <2>2, <2>3
<1>10. ASSUME NEW w \in Workers, NEW r \in Outcomes, HandlerReturns(w, r)
       PROVE  Goal
  <2>1. CountersOK'
    BY <1>10 DEF HandlerReturns, CountersOK
  <2>3. QueueOK' /\ CallsOK'
    BY <1>10, Zenon DEF HandlerReturns, QueueOK, CallsOK
  <2>2. WorkersOK'
    BY Zenon, <1>10 DEF HandlerReturns, WorkersOK, WorkerStates
  <2> QED
    BY Zenon, <2>1, <2>2, <2>3
<1>11. ASSUME NEW w \in Workers, Count(w) PROVE Goal
  <2>1. CountersOK'
    BY <1>11 DEF Count, CountersOK
  <2>3. QueueOK' /\ CallsOK'
    BY <1>11, Zenon DEF Count, QueueOK, CallsOK
  <2>2. WorkersOK'
    BY Zenon, <1>11 DEF Count, WorkersOK, WorkerStates
  <2> QED
    BY Zenon, <2>1, <2>2, <2>3
<1>12. ASSUME NEW w \in Workers, Send(w) PROVE Goal
  <2>1. CountersOK' /\ QueueOK'
    BY <1>12 DEF Send, CountersOK, QueueOK
  <2>2. WorkersOK'
    BY Zenon, <1>12 DEF Send, WorkersOK, WorkerStates
  <2>3. CallsOK'
    BY <1>12, Zenon DEF Send, CallsOK, WorkersOK, Outcomes
  <2> QED
    BY Zenon, <2>1, <2>2, <2>3
<1>13. ASSUME NEW w \in Workers, Release(w) PROVE Goal
  <2>1. job[w] \in Job
    BY Zenon, <1>13 DEF WorkersOK, Release
  <2>2. job[w].group \in Groups \cup {NoGroup}
    BY Zenon, <2>1 DEF Job
  <2>3. active' \in [Groups -> Nat]
    BY <1>13, <2>2 DEF Release, release, CountersOK
  <2>4. CountersOK' /\ QueueOK' /\ CallsOK'
    BY <1>13, <2>3, Zenon DEF Release, CountersOK, QueueOK, CallsOK
  <2>5. WorkersOK'
    BY Zenon, <1>13, AwakeType DEF Release, WorkersOK, WorkerStates, Outcomes
  <2> QED
    BY Zenon, <2>4, <2>5
<1>14. CASE UNCHANGED vars
  BY <1>14, Zenon DEF vars, QueueOK, CountersOK, WorkersOK, CallsOK
<1> QED
  BY Zenon, <1>1, <1>2, <1>3, <1>4, <1>5, <1>6, <1>7, <1>8, <1>9, <1>10, <1>11,
     <1>12, <1>13, <1>14 DEF Next, WorkerStep, CallStep, CloserStep

\* The dispatcher is type correct in every reachable state.
THEOREM TypeCorrect == Spec => []TypeOK
<1>1. Init => TypeOK
  <2> SUFFICES ASSUME Init PROVE TypeOK
    BY Zenon
  <2>1. QueueOK
    BY QueueSizeAssumption DEF Init, QueueOK
  <2>2. CountersOK
    BY DEF Init, CountersOK
  <2>3. WorkersOK
    BY Zenon DEF Init, WorkersOK, WorkerStates, Outcomes
  <2>4. CallsOK
    BY Zenon DEF Init, CallsOK
  <2> QED
    BY Zenon, <2>1, <2>2, <2>3, <2>4 DEF TypeOK
<1> QED
  BY <1>1, TypeStep, PTL DEF Spec

-----------------------------------------------------------------------------
(* Concurrency groups. *)

\* Every step keeps the group counters exact and within their limits.
LEMMA GroupStep ==
  TypeOK /\ GroupAccounting /\ GroupBound /\ [Next]_vars
    => GroupAccounting' /\ GroupBound'
<1> SUFFICES ASSUME TypeOK, GroupAccounting, GroupBound, [Next]_vars
             PROVE  GroupAccounting' /\ GroupBound'
  BY Zenon
<1>0. \A g : IsFiniteSet(Holders(g)) /\ Cardinality(Holders(g)) \in Nat
  BY Zenon, WorkersAssumption, FS_Subset, FS_CardinalityType DEF Holders
<1>1. CASE UNCHANGED <<job, active>>
  <2>1. \A g : Holders(g)' = Holders(g)
    BY Zenon, <1>1 DEF Holders
  <2> QED
    BY Zenon, <1>1, <2>1 DEF GroupAccounting, GroupBound
<1>2. ASSUME NEW w \in Workers, Dequeue(w)
      PROVE  GroupAccounting' /\ GroupBound'
  <2>1. PICK i \in Eligible : /\ job' = [job EXCEPT ![w] = queue[i]]
                             /\ acquire(queue[i].group)
    BY <1>2, Zenon DEF Dequeue
  <2> DEFINE h == queue[i].group
  <2>2. queue[i] \in Job /\ canAcquire(h)
    <3>1. i \in 1..Len(queue) /\ queue \in Seq(Job)
      BY Zenon, <2>1 DEF Eligible, TypeOK, QueueOK
    <3> QED
      BY <2>1, <3>1 DEF Eligible
  <2>3. job[w] = None /\ queue[i] # None
    BY Zenon, <1>2, <2>2, NoneAssumption DEF Dequeue, TypeOK, WorkersOK
  <2>4. ASSUME NEW g \in Groups, g # h PROVE Holders(g)' = Holders(g)
    BY Zenon, <2>1, <2>3, <2>4 DEF Holders, TypeOK, WorkersOK
  <2>5. ASSUME NEW g \in Groups, g = h
        PROVE  Holders(g)' = Holders(g) \cup {w} /\ w \notin Holders(g)
    BY Zenon, <2>1, <2>3, <2>5 DEF Holders, TypeOK, WorkersOK
  <2>6. ASSUME NEW g \in Groups, g = h
        PROVE  Cardinality(Holders(g)') = Cardinality(Holders(g)) + 1
    BY Zenon, <1>0, <2>5, <2>6, FS_AddElement
  <2>7. /\ h \in Groups => active'[h] = active[h] + 1
        /\ \A g \in Groups : g # h => active'[g] = active[g]
    BY Zenon, <2>1, LimitsAssumption DEF acquire, TypeOK, CountersOK
  <2>8. GroupAccounting'
    BY Zenon, <2>4, <2>6, <2>7 DEF GroupAccounting
  <2>9. GroupBound'
    BY <2>2, <2>7, LimitsAssumption
    DEF GroupBound, canAcquire, TypeOK, CountersOK
  <2> QED
    BY Zenon, <2>8, <2>9
<1>3. ASSUME NEW w \in Workers, Release(w)
      PROVE  GroupAccounting' /\ GroupBound'
  <2> DEFINE h == job[w].group
  <2>1. job[w] # None /\ job' = [job EXCEPT ![w] = None] /\ release(h)
    BY Zenon, <1>3 DEF Release, TypeOK, WorkersOK
  <2>2. ASSUME NEW g \in Groups, g # h PROVE Holders(g)' = Holders(g)
    BY Zenon, <2>1, <2>2 DEF Holders, TypeOK, WorkersOK
  <2>3. ASSUME NEW g \in Groups, g = h
        PROVE  Holders(g)' = Holders(g) \ {w} /\ w \in Holders(g)
    BY Zenon, <2>1, <2>3 DEF Holders, TypeOK, WorkersOK
  <2>4. ASSUME NEW g \in Groups, g = h
        PROVE  Cardinality(Holders(g)') = Cardinality(Holders(g)) - 1
    BY <1>0, <2>3, <2>4, FS_RemoveElement
  <2>5. ASSUME NEW g \in Groups, g = h PROVE Cardinality(Holders(g)) > 0
    BY <1>0, <2>3, <2>5, FS_EmptySet
  <2>6. /\ h \in Groups => active'[h] = active[h] - 1
        /\ \A g \in Groups : g # h => active'[g] = active[g]
    BY <2>1, <2>5, LimitsAssumption DEF release, GroupAccounting, TypeOK, CountersOK
  <2>7. GroupAccounting'
    BY Zenon, <2>2, <2>4, <2>6 DEF GroupAccounting
  <2>8. GroupBound'
    BY <2>6, LimitsAssumption, SMTT(15) DEF GroupBound, TypeOK, CountersOK
  <2> QED
    BY Zenon, <2>7, <2>8
<1>4. \/ UNCHANGED <<job, active>>
      \/ \E w \in Workers : Dequeue(w) \/ Release(w)
  BY Zenon DEF Next, WorkerStep, CallStep, CloserStep, vars, SubmitRejected,
         SubmitAccepted, SubmitReturns, SubmitCancelled, Shutdown,
         ShutdownReturns, ShutdownCancelled, Wait, Exit, HandlerStarts,
         HandlerReturns, Count, Send
<1> QED
  BY Zenon, <1>1, <1>2, <1>3, <1>4

\* Initially no worker holds a job.
LEMMA GroupInit == Init => GroupAccounting /\ GroupBound
<1> SUFFICES ASSUME Init PROVE GroupAccounting /\ GroupBound
  BY Zenon
<1>1. \A g \in Groups : Holders(g) = {}
  BY Zenon DEF Init, Holders
<1>2. \A g \in Groups : active[g] = 0
  BY Zenon DEF Init
<1>3. GroupAccounting
  BY Zenon, <1>1, <1>2, FS_EmptySet DEF GroupAccounting
<1>4. GroupBound
  BY <1>2, LimitsAssumption DEF GroupBound
<1> QED
  BY Zenon, <1>3, <1>4

\* groupManager.active is exact in every reachable state.
THEOREM GroupsExact == Spec => []GroupAccounting
<1> QED
  BY GroupInit, GroupStep, TypeCorrect, PTL DEF Spec

\* No group ever has more jobs with the workers than its limit allows.
THEOREM GroupsLimited == Spec => []GroupLimit
<1>1. GroupAccounting /\ GroupBound => GroupLimit
  BY Zenon DEF GroupAccounting, GroupBound, GroupLimit
<1> QED
  BY <1>1, GroupInit, GroupStep, TypeCorrect, PTL DEF Spec

-----------------------------------------------------------------------------
(* Wake-ups. *)

\* Every step keeps NoLostWakeup: what could make a job eligible broadcasts,
\* and a dequeue that empties a closed queue leaves its worker holding a job.
LEMMA WakeupStep == TypeOK /\ NoLostWakeup /\ [Next]_vars => NoLostWakeup'
<1> SUFFICES ASSUME TypeOK, NoLostWakeup, [Next]_vars PROVE NoLostWakeup'
  BY Zenon
<1>1. CASE \A w \in Workers : worker'[w] # "waiting"
  BY Zenon, <1>1 DEF NoLostWakeup
<1>2. ASSUME NEW w \in Workers, Wait(w) PROVE NoLostWakeup'
  BY Zenon, <1>2 DEF NoLostWakeup, Wait, Eligible, canAcquire, Drained
<1>3. CASE /\ UNCHANGED <<queue, closed, active, job>>
           /\ \A w \in Workers : worker'[w] = "waiting" => worker[w] = "waiting"
  BY Zenon, <1>3 DEF NoLostWakeup, Eligible, canAcquire, Drained
<1>4. ASSUME NEW c \in Calls, NEW p \in Priorities,
             NEW g \in Groups \cup {NoGroup}, SubmitAccepted(c, p, g)
      PROVE  NoLostWakeup'
  BY Zenon, <1>1, <1>4, AwakeType DEF SubmitAccepted, TypeOK, WorkersOK
<1>5. ASSUME NEW s \in Closers, Shutdown(s) PROVE NoLostWakeup'
  BY Zenon, <1>1, <1>5, AwakeType DEF Shutdown, TypeOK, WorkersOK
<1>6. ASSUME NEW w \in Workers, Release(w) PROVE NoLostWakeup'
  BY Zenon, <1>1, <1>6, AwakeType DEF Release, TypeOK, WorkersOK
<1>7. ASSUME NEW w \in Workers, Dequeue(w) PROVE NoLostWakeup'
  <2>1. Eligible # {}
    BY Zenon, <1>7 DEF Dequeue
  <2>2. \A v \in Workers : worker[v] # "waiting"
    BY Zenon, <2>1 DEF NoLostWakeup
  <2> QED
    BY Zenon, <1>1, <1>7, <2>2 DEF Dequeue, TypeOK, WorkersOK
<1>8. ASSUME NEW c \in Calls,
             SubmitRejected(c) \/ SubmitReturns(c) \/ SubmitCancelled(c)
      PROVE  NoLostWakeup'
  BY <1>3, <1>8, Zenon DEF SubmitRejected, SubmitReturns, SubmitCancelled
<1>9. ASSUME NEW s \in Closers, ShutdownReturns(s) \/ ShutdownCancelled(s)
      PROVE  NoLostWakeup'
  BY Zenon, <1>3, <1>9 DEF ShutdownReturns, ShutdownCancelled
<1>10. ASSUME NEW w \in Workers,
              \/ Exit(w) \/ HandlerStarts(w) \/ Count(w) \/ Send(w)
              \/ \E r \in Outcomes : HandlerReturns(w, r)
       PROVE  NoLostWakeup'
  BY Zenon, <1>3, <1>10 DEF Exit, HandlerStarts, Count, Send, HandlerReturns, TypeOK,
                     WorkersOK
<1>11. CASE UNCHANGED vars
  BY Zenon, <1>3, <1>11 DEF vars
<1> QED
  BY Zenon, <1>2, <1>4, <1>5, <1>6, <1>7, <1>8, <1>9, <1>10, <1>11
  DEF Next, WorkerStep, CallStep, CloserStep

\* No worker ever sleeps through a job it could take or a drained shutdown.
THEOREM WakeupsNotLost == Spec => []NoLostWakeup
<1>1. Init => NoLostWakeup
  BY Zenon DEF Init, NoLostWakeup
<1> QED
  BY <1>1, WakeupStep, TypeCorrect, PTL DEF Spec

-----------------------------------------------------------------------------
(* The first job. *)

\* What Less looks at is there in every job.
LEMMA JobsRanked == Ranked(Job)
BY Zenon DEF Ranked, Job

\* The queue changes only where a job is pushed or removed.
LEMMA QueueSteps ==
  TypeOK /\ [Next]_vars =>
    \/ UNCHANGED queue
    \/ \E x \in Job : queue' = Push(queue, x)
    \/ \E i \in 1..Len(queue) : queue' = Remove(queue, i)
<1> SUFFICES ASSUME TypeOK, [Next]_vars, queue' # queue
             PROVE  \/ \E x \in Job : queue' = Push(queue, x)
                    \/ \E i \in 1..Len(queue) : queue' = Remove(queue, i)
  BY Zenon
<1>1. \/ \E c \in Calls, p \in Priorities, g \in Groups \cup {NoGroup} : SubmitAccepted(c, p, g)
      \/ \E w \in Workers : Dequeue(w)
  BY Zenon DEF Next, WorkerStep, CallStep, CloserStep, vars, SubmitRejected,
         SubmitReturns, SubmitCancelled, Shutdown, ShutdownReturns,
         ShutdownCancelled, Wait, Exit, HandlerStarts, HandlerReturns, Count,
         Send, Release
<1>2. ASSUME NEW c \in Calls, NEW p \in Priorities,
             NEW g \in Groups \cup {NoGroup}, SubmitAccepted(c, p, g)
      PROVE  \E x \in Job : queue' = Push(queue, x)
  <2>1. seq + 1 \in Nat
    BY DEF TypeOK, CountersOK
  <2> QED
    BY Zenon, <1>2, <2>1, ResolveType DEF Job, SubmitAccepted
<1>3. ASSUME NEW w \in Workers, Dequeue(w)
      PROVE  \E i \in 1..Len(queue) : queue' = Remove(queue, i)
  BY Zenon, <1>3 DEF Dequeue, Eligible
<1> QED
  BY Zenon, <1>1, <1>2, <1>3

\* The queue is a heap in every reachable state.
THEOREM QueueStaysHeap == Spec => []QueueOrdered
<1>1. Init => QueueOrdered
  BY DEF Init, QueueOrdered, HeapOrdered
<1>2. TypeOK /\ QueueOrdered /\ [Next]_vars => QueueOrdered'
  <2> SUFFICES ASSUME TypeOK, QueueOrdered, [Next]_vars PROVE QueueOrdered'
    BY Zenon
  <2>1. queue \in Seq(Job) /\ HeapOrdered(queue)
    BY Zenon DEF TypeOK, QueueOK, QueueOrdered
  <2>2. CASE UNCHANGED queue
    BY Zenon, <2>1, <2>2 DEF QueueOrdered
  <2>3. ASSUME NEW x \in Job, queue' = Push(queue, x) PROVE QueueOrdered'
    BY Zenon, <2>1, <2>3, JobsRanked, PushOrdered DEF QueueOrdered
  <2>4. ASSUME NEW i \in 1..Len(queue), queue' = Remove(queue, i) PROVE QueueOrdered'
    BY Zenon, <2>1, <2>4, JobsRanked, RemoveOrdered DEF QueueOrdered
  <2> QED
    BY Zenon, <2>2, <2>3, <2>4, QueueSteps
<1> QED
  BY <1>1, <1>2, TypeCorrect, PTL DEF Spec

\* A step that gives a worker a job takes the first one that may run.
LEMMA TakeStep == TypeOK /\ QueueOrdered /\ [Next]_vars => [FirstTaken]_vars
<1> SUFFICES ASSUME TypeOK, QueueOrdered, [Next]_vars,
                    NEW w \in Workers, NEW i \in 1..Len(queue), NEW k \in 1..Len(queue),
                    Takes(w, i),
                    \A m \in 1..Len(queue) : m = k \/ Less(queue[k], queue[m]),
                    canAcquire(queue[k].group)
             PROVE  i = k
  BY Zenon DEF FirstTaken
<1>1. queue \in Seq(Job) /\ HeapOrdered(queue) /\ Len(queue) \in Nat
  BY DEF TypeOK, QueueOK, QueueOrdered
<1>2. \A m \in 1..Len(queue) : queue[m] \in Job
  BY <1>1
<1>3. job[w] = None /\ job'[w] = queue[i] /\ queue[i] # None
  BY Zenon, <1>2, NoneAssumption DEF Takes
<1>4. \E v \in Workers : Dequeue(v)
  <2>1. \/ UNCHANGED job
        \/ \E v \in Workers : Dequeue(v)
        \/ \E v \in Workers : job' = [job EXCEPT ![v] = None]
    BY Zenon DEF Next, WorkerStep, CallStep, CloserStep, vars, SubmitRejected,
           SubmitAccepted, SubmitReturns, SubmitCancelled, Shutdown,
           ShutdownReturns, ShutdownCancelled, Wait, Exit, HandlerStarts,
           HandlerReturns, Count, Send, Release
  <2> QED
    BY Zenon, <1>3, <2>1 DEF TypeOK, WorkersOK
<1>5. PICK v \in Workers, e \in Eligible :
        /\ \A m \in Eligible : e <= m
        /\ job' = [job EXCEPT ![v] = queue[e]]
  BY Zenon, <1>4 DEF Dequeue
<1>6. queue[e] = queue[i] /\ e \in 1..Len(queue)
  BY Zenon, <1>3, <1>5 DEF TypeOK, WorkersOK, Eligible
<1>7. k = 1
  <2>1. SUFFICES ASSUME k \in 2..Len(queue) PROVE FALSE
    BY <1>1
  <2>2. Parent(k) \in 1..Len(queue) /\ Parent(k) # k
    <3>1. Parent(k) \in 1..(k - 1)
      BY <1>1, <2>1, ParentAbove
    <3> QED
      BY <1>1, <2>1, <3>1
  <2> QED
    BY Zenon, <1>1, <2>1, <2>2 DEF HeapOrdered
<1>8. k \in Eligible
  BY Zenon DEF Eligible
<1>9. e = 1
  BY <1>1, <1>5, <1>6, <1>7, <1>8
<1>10. ~Less(queue[k], queue[k])
  BY Zenon, <1>2, JobsRanked, LessOrders
<1> QED
  BY Zenon, <1>6, <1>7, <1>9, <1>10

\* When the first job in the order of Less may run, no worker takes another.
THEOREM FirstJobTaken == Spec => FirstJobFirst
<1> QED
  BY TakeStep, TypeCorrect, QueueStaysHeap, PTL DEF Spec, FirstJobFirst

-----------------------------------------------------------------------------
(* Every job has one home. *)

\* The homes of the call c: one once its job is accepted, none before.
Housed(c) ==
    Cardinality(Queued(c)) + Cardinality(HeldBy(c)) + (IF Delivered(c) THEN 1 ELSE 0)
      = IF Accepted(c) THEN 1 ELSE 0

\* A step that leaves the four parts of a call's home alone leaves it housed.
LEMMA HousedFrame ==
  ASSUME NEW c, Housed(c), Queued(c)' = Queued(c), HeldBy(c)' = HeldBy(c),
         Delivered(c)' <=> Delivered(c), Accepted(c)' <=> Accepted(c)
  PROVE  Housed(c)'
BY Zenon DEF Housed

\* A call's queued jobs and the workers that hold one can be counted.
LEMMA HomesFinite ==
  TypeOK => \A c : /\ Cardinality(Queued(c)) \in Nat
                   /\ IsFiniteSet(HeldBy(c)) /\ Cardinality(HeldBy(c)) \in Nat
<1> SUFFICES ASSUME TypeOK, NEW c
             PROVE  /\ Cardinality(Queued(c)) \in Nat
                    /\ IsFiniteSet(HeldBy(c)) /\ Cardinality(HeldBy(c)) \in Nat
  BY Zenon
<1>1. Queued(c) = Holding(queue, c) /\ queue \in Seq(Job)
  BY Zenon DEF Queued, Holding, TypeOK, QueueOK
<1>2. IsFiniteSet(HeldBy(c))
  BY Zenon, WorkersAssumption, FS_Subset DEF HeldBy
<1> QED
  BY Zenon, <1>1, <1>2, HoldingFinite, FS_CardinalityType

\* A job that is accepted moves into the queue.
LEMMA AcceptHoused ==
  ASSUME TypeOK, OneHome, NEW a \in Calls, NEW p \in Priorities,
         NEW g \in Groups \cup {NoGroup}, SubmitAccepted(a, p, g), NEW c \in Calls
  PROVE  Housed(c)'
<1> DEFINE x == [call |-> a, priority |-> ResolvePriority(p), group |-> g, seq |-> seq + 1]
<1>1. x \in Job /\ x.call = a
  <2>1. seq + 1 \in Nat
    BY DEF TypeOK, CountersOK
  <2> QED
    BY Zenon, <2>1, ResolveType DEF Job
<1>2. queue' = Push(queue, x) /\ queue \in Seq(Job)
  BY Zenon DEF SubmitAccepted, TypeOK, QueueOK
<1> HIDE DEF x
<1>3. Cardinality(Queued(c))' = Cardinality(Queued(c)) + (IF a = c THEN 1 ELSE 0)
  <2>1. Queued(c) = Holding(queue, c) /\ Queued(c)' = Holding(Push(queue, x), c)
    BY Zenon, <1>2 DEF Queued, Holding
  <2>2. Cardinality(Holding(Push(queue, x), c))
          = Cardinality(Holding(queue, c)) + (IF x.call = c THEN 1 ELSE 0)
    BY Zenon, <1>1, <1>2, PushCount
  <2> QED
    BY Zenon, <1>1, <2>1, <2>2
<1>4. HeldBy(c)' = HeldBy(c)
  BY Zenon, AwakeType DEF SubmitAccepted, HeldBy, TypeOK, WorkersOK
<1>5. Housed(c)
  BY Zenon DEF OneHome, Housed
<1>6. Cardinality(Queued(c)) \in Nat /\ Cardinality(HeldBy(c)) \in Nat
  BY Zenon, HomesFinite
<1>7. CASE a # c
  <2>1. Delivered(c)' <=> Delivered(c)
    BY Zenon, <1>7 DEF SubmitAccepted, Delivered, TypeOK, CallsOK
  <2>2. Accepted(c)' <=> Accepted(c)
    BY Zenon, <1>7 DEF SubmitAccepted, Accepted, TypeOK, CallsOK
  <2> QED
    BY <1>3, <1>4, <1>5, <1>6, <1>7, <2>1, <2>2 DEF Housed
<1>8. CASE a = c
  <2>1. ~Accepted(c) /\ Accepted(c)'
    BY Zenon, <1>8 DEF SubmitAccepted, Accepted, TypeOK, CallsOK
  <2>2. Cardinality(Queued(c)) = 0 /\ Cardinality(HeldBy(c)) = 0 /\ ~Delivered(c)
    BY <1>5, <1>6, <2>1 DEF Housed
  <2>3. ~Delivered(c)'
    BY Zenon, <1>8, <2>2 DEF SubmitAccepted, Delivered, TypeOK, CallsOK, Outcomes
  <2> QED
    BY <1>3, <1>4, <1>8, <2>1, <2>2, <2>3 DEF Housed
<1> QED
  BY Zenon, <1>7, <1>8

\* A job that is dequeued moves from the queue to the worker.
LEMMA DequeueHoused ==
  ASSUME TypeOK, OneHome, NEW w \in Workers, Dequeue(w), NEW c \in Calls
  PROVE  Housed(c)'
<1>1. PICK i \in Eligible : queue' = Remove(queue, i) /\ job' = [job EXCEPT ![w] = queue[i]]
  BY Zenon DEF Dequeue
<1>2. i \in 1..Len(queue) /\ queue \in Seq(Job)
  BY Zenon DEF Eligible, TypeOK, QueueOK
<1>3. queue[i] # None
  <2>1. queue[i] \in Job
    BY <1>2
  <2> QED
    BY Zenon, <2>1, NoneAssumption
<1> DEFINE moved == queue[i].call = c
<1>4. Cardinality(Queued(c))' = Cardinality(Queued(c)) - (IF moved THEN 1 ELSE 0)
  <2>1. Queued(c) = Holding(queue, c) /\ Queued(c)' = Holding(Remove(queue, i), c)
    BY Zenon, <1>1 DEF Queued, Holding
  <2>2. Cardinality(Holding(Remove(queue, i), c))
          = Cardinality(Holding(queue, c)) - (IF queue[i].call = c THEN 1 ELSE 0)
    BY Zenon, <1>2, RemoveCount
  <2> QED
    BY Zenon, <2>1, <2>2
<1>5. w \notin HeldBy(c)
  BY Zenon DEF Dequeue, HeldBy, TypeOK, WorkersOK
<1>6. HeldBy(c)' = IF moved THEN HeldBy(c) \cup {w} ELSE HeldBy(c)
  <2>1. \A v \in Workers : v # w => (v \in HeldBy(c)' <=> v \in HeldBy(c))
    BY Zenon, <1>1 DEF Dequeue, HeldBy, TypeOK, WorkersOK
  <2>2. w \in HeldBy(c)' <=> moved
    BY Zenon, <1>1, <1>3 DEF Dequeue, HeldBy, TypeOK, WorkersOK
  <2>3. HeldBy(c) \subseteq Workers /\ HeldBy(c)' \subseteq Workers
    BY Zenon DEF HeldBy
  <2> QED
    BY <1>5, <2>1, <2>2, <2>3
<1>7. Cardinality(Queued(c)) \in Nat /\ IsFiniteSet(HeldBy(c)) /\ Cardinality(HeldBy(c)) \in Nat
  BY Zenon, HomesFinite
<1>8. Cardinality(HeldBy(c))' = Cardinality(HeldBy(c)) + (IF moved THEN 1 ELSE 0)
  <2>1. Cardinality(HeldBy(c) \cup {w}) = Cardinality(HeldBy(c)) + 1
    BY Zenon, <1>5, <1>7, FS_AddElement
  <2> QED
    BY <1>6, <1>7, <2>1
<1>9. (Delivered(c)' <=> Delivered(c)) /\ (Accepted(c)' <=> Accepted(c))
  BY Zenon DEF Dequeue, Delivered, Accepted
<1>10. Housed(c)
  BY Zenon DEF OneHome, Housed
<1> QED
  BY <1>4, <1>7, <1>8, <1>9, <1>10 DEF Housed

\* A job whose result is sent moves from the worker to its channel.
LEMMA SendHoused ==
  ASSUME TypeOK, OneHome, NEW w \in Workers, Send(w), NEW c \in Calls
  PROVE  Housed(c)'
<1> DEFINE moved == job[w].call = c
<1>1. job[w] # None /\ job[w] \in Job /\ job[w].call \in Calls
  <2>1. job[w] # None /\ job[w] \in Job
    BY Zenon DEF Send, TypeOK, WorkersOK
  <2> QED
    BY Zenon, <2>1 DEF Job
<1>2. Queued(c)' = Queued(c) /\ (Accepted(c)' <=> Accepted(c))
  BY Zenon DEF Send, Queued, Accepted
<1>3. HeldBy(c)' = HeldBy(c) \ {w} /\ (w \in HeldBy(c) <=> moved)
  <2>1. \A v \in Workers : v # w => (v \in HeldBy(c)' <=> v \in HeldBy(c))
    BY Zenon DEF Send, HeldBy, TypeOK, WorkersOK
  <2>2. w \notin HeldBy(c)' /\ (w \in HeldBy(c) <=> moved)
    BY Zenon, <1>1 DEF Send, HeldBy, TypeOK, WorkersOK
  <2>3. HeldBy(c) \subseteq Workers /\ HeldBy(c)' \subseteq Workers
    BY Zenon DEF HeldBy
  <2> QED
    BY Zenon, <2>1, <2>2, <2>3
<1>4. Cardinality(Queued(c)) \in Nat /\ IsFiniteSet(HeldBy(c)) /\ Cardinality(HeldBy(c)) \in Nat
  BY Zenon, HomesFinite
<1>5. Housed(c)
  BY Zenon DEF OneHome, Housed
<1>6. CASE moved
  <2>1. Cardinality(HeldBy(c))' = Cardinality(HeldBy(c)) - 1
    BY Zenon, <1>3, <1>4, <1>6, FS_RemoveElement
  <2>2. Cardinality(HeldBy(c)) # 0
    BY Zenon, <1>3, <1>4, <1>6, FS_EmptySet
  <2>3. Accepted(c) /\ Cardinality(HeldBy(c)) = 1 /\ Cardinality(Queued(c)) = 0 /\ ~Delivered(c)
    BY <1>4, <1>5, <2>2 DEF Housed
  <2>4. Delivered(c)'
    BY Zenon, <1>1, <1>6 DEF Send, Delivered, TypeOK, CallsOK, WorkersOK, Outcomes
  <2> QED
    BY <1>2, <2>1, <2>3, <2>4 DEF Housed
<1>7. CASE ~moved
  <2>1. HeldBy(c)' = HeldBy(c)
    BY Zenon, <1>3, <1>7
  <2>2. Delivered(c)' <=> Delivered(c)
    BY Zenon, <1>1, <1>7 DEF Send, Delivered, TypeOK, CallsOK
  <2> QED
    BY Zenon, <1>2, <1>5, <2>1, <2>2, HousedFrame
<1> QED
  BY Zenon, <1>6, <1>7

\* Every step keeps every call housed.
LEMMA HomeStep == TypeOK /\ OneHome /\ [Next]_vars => OneHome'
<1> SUFFICES ASSUME TypeOK, OneHome, [Next]_vars, NEW c \in Calls PROVE Housed(c)'
  BY Zenon DEF OneHome, Housed
<1>0. Housed(c)
  BY Zenon DEF OneHome, Housed
<1>1. CASE /\ UNCHANGED <<queue, job, chan, call>>
           /\ \A w \in Workers : job[w] # None => (worker'[w] = "sent" <=> worker[w] = "sent")
  <2>1. Queued(c)' = Queued(c) /\ HeldBy(c)' = HeldBy(c)
    BY Zenon, <1>1 DEF Queued, HeldBy
  <2>2. (Delivered(c)' <=> Delivered(c)) /\ (Accepted(c)' <=> Accepted(c))
    BY Zenon, <1>1 DEF Delivered, Accepted
  <2> QED
    BY Zenon, <1>0, <2>1, <2>2, HousedFrame
<1>2. ASSUME NEW a \in Calls, SubmitRejected(a) \/ SubmitReturns(a) \/ SubmitCancelled(a)
      PROVE  Housed(c)'
  <2>1. Queued(c)' = Queued(c) /\ HeldBy(c)' = HeldBy(c)
    BY Zenon, <1>2 DEF Queued, HeldBy, SubmitRejected, SubmitReturns, SubmitCancelled
  <2>2. (Delivered(c)' <=> Delivered(c)) /\ (Accepted(c)' <=> Accepted(c))
    <3>1. CASE SubmitRejected(a)
      BY Zenon, <3>1 DEF SubmitRejected, Delivered, Accepted, TypeOK, CallsOK, Outcomes
    <3>2. CASE SubmitReturns(a)
      BY Zenon, <3>2 DEF SubmitReturns, Delivered, Accepted, TypeOK, CallsOK, Outcomes
    <3>3. CASE SubmitCancelled(a)
      BY Zenon, <3>3 DEF SubmitCancelled, Delivered, Accepted, TypeOK, CallsOK, Outcomes
    <3> QED
      BY Zenon, <1>2, <3>1, <3>2, <3>3
  <2> QED
    BY Zenon, <1>0, <2>1, <2>2, HousedFrame
<1>3. ASSUME NEW a \in Calls, NEW p \in Priorities,
             NEW g \in Groups \cup {NoGroup}, SubmitAccepted(a, p, g)
      PROVE  Housed(c)'
  BY Zenon, <1>3, AcceptHoused
<1>4. ASSUME NEW s \in Closers, CloserStep(s) PROVE Housed(c)'
  BY Zenon, <1>1, <1>4, AwakeType DEF CloserStep, Shutdown, ShutdownReturns,
     ShutdownCancelled, TypeOK, WorkersOK
<1>5. ASSUME NEW w \in Workers, Dequeue(w) PROVE Housed(c)'
  BY Zenon, <1>5, DequeueHoused
<1>6. ASSUME NEW w \in Workers, Send(w) PROVE Housed(c)'
  BY Zenon, <1>6, SendHoused
<1>7. ASSUME NEW w \in Workers,
             \/ Wait(w) \/ Exit(w) \/ HandlerStarts(w) \/ Count(w)
             \/ \E r \in Outcomes : HandlerReturns(w, r)
      PROVE  Housed(c)'
  BY Zenon, <1>1, <1>7 DEF Wait, Exit, HandlerStarts, Count, HandlerReturns, TypeOK, WorkersOK
<1>8. ASSUME NEW w \in Workers, Release(w) PROVE Housed(c)'
  <2>1. \A v \in Workers : v # w => (v \in HeldBy(c)' <=> v \in HeldBy(c))
    BY Zenon, <1>8, AwakeType DEF Release, HeldBy, TypeOK, WorkersOK
  <2>2. w \notin HeldBy(c)' /\ w \notin HeldBy(c)
    BY Zenon, <1>8 DEF Release, HeldBy, TypeOK, WorkersOK
  <2>3. HeldBy(c) \subseteq Workers /\ HeldBy(c)' \subseteq Workers
    BY Zenon DEF HeldBy
  <2>4. HeldBy(c)' = HeldBy(c)
    BY <2>1, <2>2, <2>3
  <2>5. Queued(c)' = Queued(c) /\ (Delivered(c)' <=> Delivered(c)) /\ (Accepted(c)' <=> Accepted(c))
    BY Zenon, <1>8 DEF Release, Queued, Delivered, Accepted
  <2> QED
    BY Zenon, <1>0, <2>4, <2>5, HousedFrame
<1>9. CASE UNCHANGED vars
  BY Zenon, <1>1, <1>9 DEF vars
<1> QED
  BY Zenon, <1>2, <1>3, <1>4, <1>5, <1>6, <1>7, <1>8, <1>9 DEF Next, WorkerStep, CallStep

\* No accepted job is ever lost, queued twice, run twice or answered twice.
THEOREM OneHomeEach == Spec => []OneHome
<1>1. Init => OneHome
  <2> SUFFICES ASSUME Init, NEW c \in Calls PROVE Housed(c)
    BY Zenon DEF OneHome, Housed
  <2>1. Queued(c) = {}
    BY DEF Init, Queued
  <2>2. HeldBy(c) = {} /\ ~Delivered(c) /\ ~Accepted(c)
    BY Zenon DEF Init, HeldBy, Delivered, Accepted, Outcomes
  <2>3. Cardinality({}) = 0
    BY Zenon, FS_EmptySet
  <2> QED
    BY <2>1, <2>2, <2>3 DEF Housed
<1> QED
  BY <1>1, HomeStep, TypeCorrect, PTL DEF Spec

=============================================================================
