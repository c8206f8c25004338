---------------------------- MODULE FleetProofs -----------------------------
(***************************************************************************)
(* Proofs about the worktree pool, for any number of sessions, keepers and *)
(* worktrees and every pool size, and about the R&D cycle, for any number  *)
(* of starts, any thresholds and any costs.                                *)
(***************************************************************************)
EXTENDS WorktreePool, RDCycle, FiniteSetTheorems, TLAPS

-----------------------------------------------------------------------------
(* The worktree pool: types. *)

USE DEF call

\* Every step keeps the types.
LEMMA TypeStep == TypeOK /\ [Next]_vars => TypeOK'
<1> SUFFICES ASSUME TypeOK, [Next]_vars PROVE TypeOK'
  BY Zenon
<1> USE PoolAssumption DEF TypeOK, Points, Pooled, Pools, At, Advance, Out
<1>1. ASSUME NEW c \in Callers, NEW to \in {"acquire", "release", "warm", "drain", "sweep"}, Enter(c, to) PROVE TypeOK'
  BY Zenon, <1>1 DEF Enter
<1>2. ASSUME NEW c \in Callers, NEW from \in Points, NEW to \in {"pop", "clean", "count", "take"}, getOrCreateRepoPool(c, from, to) PROVE TypeOK'
  BY <1>2 DEF getOrCreateRepoPool
<1>3. ASSUME NEW c \in Callers, NoRepoRoot(c) \/ DestroyTaken(c) \/ CleanFails(c) PROVE TypeOK'
  <2>1. /\ Destroy(hand[c]) /\ hand' = [hand EXCEPT ![c] = {}] /\ Out(c)
        /\ UNCHANGED <<closed, close, repos, idle>>
    BY Zenon, <1>3 DEF NoRepoRoot, DestroyTaken, CleanFails
  <2> QED
    BY <2>1 DEF Destroy
<1>4. ASSUME NEW c \in Callers, AcquireFresh(c) PROVE TypeOK'
  BY <1>4 DEF AcquireFresh, createFreshWorktree
<1>5. ASSUME NEW c \in Callers, WarmFresh(c) PROVE TypeOK'
  BY <1>5 DEF WarmFresh, createFreshWorktree
<1>6. ASSUME NEW c \in Callers, AcquireIdle(c) PROVE TypeOK'
  BY <1>6 DEF AcquireIdle, Pop
<1>7. ASSUME NEW c \in Callers, AcquireNone(c) \/ AcquireFails(c) PROVE TypeOK'
  <2>1. CASE AcquireNone(c)
    BY Zenon, <2>1 DEF AcquireNone
  <2>2. CASE AcquireFails(c)
    <3>1. disk' \in [Trees -> {"new", "clean", "dirty", "removed", "gone", "left"}]
      BY Zenon, <2>2 DEF AcquireFails, CreateFails
    <3> QED
      BY <2>2, <3>1 DEF AcquireFails
  <2> QED
    BY Zenon, <1>7, <2>1, <2>2
<1>8. ASSUME NEW c \in Callers, resetWorktree(c) PROVE TypeOK'
  BY Zenon, <1>8 DEF resetWorktree, GitResets
<1>9. ASSUME NEW c \in Callers, cleanWorktree(c) PROVE TypeOK'
  BY Zenon, <1>9 DEF cleanWorktree, GitResets
<1>10. ASSUME NEW c \in Callers, ResetFails(c) PROVE TypeOK'
  BY Zenon, <1>10 DEF ResetFails, Destroy
<1>11. ASSUME NEW c \in Callers, Use(c) PROVE TypeOK'
  BY Zenon, <1>11 DEF Use
<1>12. CASE Removed
  BY Zenon, <1>12 DEF Removed
<1>13. ASSUME NEW c \in Callers, ReleaseClosed(c) PROVE TypeOK'
  BY <1>13 DEF ReleaseClosed
<1>14. ASSUME NEW c \in Callers, PutBack(c), rp[c] \in Pools
       PROVE  /\ idle' \in [Pools -> Seq(Trees)] /\ hand' \in [Callers -> SUBSET Trees]
              /\ disk' \in [Trees -> {"new", "clean", "dirty", "removed", "gone", "left"}]
  <2>1. PICK t \in hand[c] :
            /\ hand' = [hand EXCEPT ![c] = {}]
            /\ \/ Destroy({t}) /\ UNCHANGED idle
               \/ idle' = [idle EXCEPT ![rp[c]] = Append(@, t)] /\ UNCHANGED disk
    BY Zenon, <1>14 DEF PutBack
  <2>2. CASE Destroy({t}) /\ UNCHANGED idle
    BY Zenon, <2>1, <2>2 DEF Destroy
  <2>3. CASE idle' = [idle EXCEPT ![rp[c]] = Append(@, t)] /\ UNCHANGED disk
    BY <1>14, <2>1, <2>3
  <2> QED
    BY Zenon, <2>1, <2>2, <2>3
<1>15. ASSUME NEW c \in Callers, Return(c) PROVE TypeOK'
  BY <1>15, <1>14 DEF Return
<1>16. ASSUME NEW c \in Callers, WarmPuts(c) PROVE TypeOK'
  BY <1>16, <1>14 DEF WarmPuts
<1>17. ASSUME NEW c \in Callers, Need(c) PROVE TypeOK'
  <2>1. CASE Out(c)
    BY <1>17, <2>1 DEF Need
  <2>2. ASSUME NEW n \in Nat, need' = [need EXCEPT ![c] = n], at' = [at EXCEPT ![c] = "make"], UNCHANGED rp PROVE TypeOK'
    BY Zenon, <1>17, <2>2 DEF Need
  <2>3. PoolSize - Len(idle[rp[c]]) \in Int
    BY <1>17 DEF Need
  <2>4. \A n \in 1 .. PoolSize - Len(idle[rp[c]]) : n \in Nat
    BY <2>3
  <2>5. CASE ~Out(c)
    <3>1. PICK n \in 1 .. PoolSize - Len(idle[rp[c]]) : need' = [need EXCEPT ![c] = n]
      BY Zenon, <1>17, <2>5 DEF Need
    <3>2. n \in Nat /\ at' = [at EXCEPT ![c] = "make"] /\ UNCHANGED rp
      BY Zenon, <1>17, <2>4, <2>5 DEF Need
    <3> QED
      BY Zenon, <2>2, <3>1, <3>2
  <2> QED
    BY Zenon, <2>1, <2>5
<1>18. ASSUME NEW c \in Callers, WarmSkips(c) PROVE TypeOK'
  <2>1. CASE Out(c)
    <3>1. disk' \in [Trees -> {"new", "clean", "dirty", "removed", "gone", "left"}]
      BY Zenon, <1>18 DEF WarmSkips, CreateFails
    <3> QED
      BY <1>18, <2>1, <3>1 DEF WarmSkips
  <2>2. CASE need[c] > 0 /\ CreateFails /\ need' = [need EXCEPT ![c] = @ - 1] /\ UNCHANGED <<at, rp>>
    <3>1. disk' \in [Trees -> {"new", "clean", "dirty", "removed", "gone", "left"}]
      BY Zenon, <2>2 DEF CreateFails
    <3> QED
      BY <1>18, <2>2, <3>1 DEF WarmSkips
  <2> QED
    BY Zenon, <1>18, <2>1, <2>2 DEF WarmSkips
<1>19. ASSUME NEW c \in Callers, NEW pool \in Pools, NEW n \in 0 .. Len(idle[pool]), Take(c, pool, n), rp[c] \in Pools
       PROVE  TypeOK'
  BY <1>19 DEF Take, Range
<1>20. ASSUME NEW c \in Callers, DrainTakes(c) \/ StaleTakes(c) PROVE TypeOK'
  BY <1>20, <1>19 DEF DrainTakes, StaleTakes
<1>21. ASSUME NEW c \in Callers, CopyRepos(c) PROVE TypeOK'
  <2>1. CASE repos = 0
    <3>1. Out(c) /\ UNCHANGED <<closed, close, repos, idle, disk, hand>>
      BY Zenon, <1>21, <2>1 DEF CopyRepos
    <3> QED
      BY <3>1
  <2>2. CASE repos # 0
    <3>1. /\ at' = [at EXCEPT ![c] = "stale"] /\ rp' = [rp EXCEPT ![c] = repos] /\ UNCHANGED need
          /\ UNCHANGED <<closed, close, repos, idle, disk, hand>>
      BY Zenon, <1>21, <2>2 DEF CopyRepos
    <3> QED
      BY <2>2, <3>1
  <2> QED
    BY Zenon, <2>1, <2>2
<1>22. CASE Close \/ CloseTakes
  <2>1. CASE Close
    BY Zenon, <2>1 DEF Close
  <2>2. CASE CloseTakes
    BY <2>2 DEF CloseTakes
  <2> QED
    BY Zenon, <1>22, <2>1, <2>2
<1>23. CASE CloseEmpties
  BY <1>23 DEF CloseEmpties, Destroy
<1>24. CASE UNCHANGED vars
  BY Zenon, <1>24 DEF vars
<1>25. Sessions \subseteq Callers /\ Keepers \subseteq Callers
  BY Zenon DEF Callers
<1>26. ASSUME NEW s \in Sessions, SessionStep(s) PROVE TypeOK'
  BY Zenon, <1>1, <1>2, <1>3, <1>4, <1>6, <1>7, <1>8, <1>9, <1>10, <1>11, <1>13, <1>15, <1>25, <1>26
  DEF SessionStep, Acquire, Release
<1>27. ASSUME NEW k \in Keepers, KeeperStep(k) PROVE TypeOK'
  BY Zenon, <1>1, <1>2, <1>3, <1>5, <1>16, <1>17, <1>18, <1>20, <1>21, <1>25, <1>27
  DEF KeeperStep, Warm, Drain, CleanupStale
<1> QED
  BY Zenon, <1>3, <1>12, <1>22, <1>23, <1>24, <1>26, <1>27 DEF Next

\* The pool's state is type correct in every reachable state.
THEOREM TypeCorrect == Spec => []TypeOK
<1>1. Init => TypeOK
  <2> SUFFICES ASSUME Init PROVE TypeOK
    BY Zenon
  <2>1. /\ at \in [Callers -> Points] /\ rp \in [Callers -> 0 .. 2] /\ need \in [Callers -> Nat]
        /\ \A c \in Callers : at[c] = "out"
    BY DEF Init, Points
  <2>2. idle \in [Pools -> Seq(Trees)] /\ hand \in [Callers -> SUBSET Trees]
    BY DEF Init, Pools
  <2>3. disk \in [Trees -> {"new", "clean", "dirty", "removed", "gone", "left"}] /\ repos \in 0 .. 2
    BY DEF Init
  <2>4. closed \in BOOLEAN /\ close \in {"open", "marked", "taken", "done"}
    BY Zenon DEF Init
  <2> QED
    BY Zenon, <2>1, <2>2, <2>3, <2>4 DEF TypeOK, Pooled
<1> QED
  BY <1>1, TypeStep, PTL DEF Spec

-----------------------------------------------------------------------------
(* The steps, by what they do to the worktrees. *)

\* The call lets go of what it holds, and destroys it.
Discards(c) == Destroy(hand[c]) /\ hand' = [hand EXCEPT ![c] = {}] /\ UNCHANGED idle

\* The call drops what it holds, or nothing moves.
Drops(c) == hand' = [hand EXCEPT ![c] = {}] /\ UNCHANGED <<idle, disk>>

\* A worktree on disk is written or removed where it is.
Rewrites ==
    /\ \E t \in Trees, to \in {"clean", "dirty", "removed"} :
           disk[t] \notin {"new", "gone", "left"} /\ disk' = [disk EXCEPT ![t] = to]
    /\ UNCHANGED <<idle, hand>>

\* A worktree is made only half.
Spoils == CreateFails /\ UNCHANGED <<idle, hand>>

\* A worktree is made.
Makes(c) ==
    /\ \E t \in Trees : disk[t] = "new" /\ disk' = [disk EXCEPT ![t] = "clean"] /\ hand' = [hand EXCEPT ![c] = {t}]
    /\ UNCHANGED idle

\* Entries are taken out of a repoPool.
Takes(c) == \E p \in Pools, n \in Nat :
    /\ n <= Len(idle[p])
    /\ idle' = [idle EXCEPT ![p] = SubSeq(@, n + 1, Len(@))]
    /\ hand' = [hand EXCEPT ![c] = Range(SubSeq(idle[p], 1, n))]
    /\ UNCHANGED disk

\* The newest entry is taken out of a repoPool, by Acquire.
Pops(c) == \E p \in Pools :
    /\ idle[p] # <<>>
    /\ idle' = [idle EXCEPT ![p] = SubSeq(@, 1, Len(@) - 1)]
    /\ hand' = [hand EXCEPT ![c] = {idle[p][Len(idle[p])]}]
    /\ UNCHANGED disk

\* What a step may do to the worktrees.
Moves ==
    \/ \E c \in Callers : Discards(c) \/ Drops(c) \/ Makes(c) \/ Takes(c) \/ Pops(c)
    \/ \E c \in Callers : rp[c] \in Pools /\ PutBack(c)
    \/ Rewrites \/ Spoils
    \/ CloseEmpties
    \/ UNCHANGED <<idle, hand, disk>>

\* Every step is one of these, if no call is given a worktree it does not hold.
LEMMA StepMoves ==
  ASSUME TypeOK, OneHome, [Next]_vars
  PROVE  Moves
<1> USE DEF At, Advance, Out
<1>0. Sessions \subseteq Callers /\ Keepers \subseteq Callers
  BY Zenon DEF Callers
<1>1. ASSUME NEW c \in Callers, NEW to, Enter(c, to) PROVE Moves
  BY Zenon, <1>1 DEF Enter, Moves
<1>2. ASSUME NEW c \in Callers, NEW from, NEW to, getOrCreateRepoPool(c, from, to) PROVE Moves
  BY Zenon, <1>2 DEF getOrCreateRepoPool, Moves
<1>3. ASSUME NEW c \in Callers, NoRepoRoot(c) \/ DestroyTaken(c) \/ CleanFails(c) \/ ResetFails(c) PROVE Moves
  BY Zenon, <1>3 DEF NoRepoRoot, DestroyTaken, CleanFails, ResetFails, Discards, Moves
<1>4. ASSUME NEW c \in Callers, AcquireFresh(c) \/ WarmFresh(c) PROVE Moves
  BY Zenon, <1>4 DEF AcquireFresh, WarmFresh, createFreshWorktree, Makes, Moves
<1>5. ASSUME NEW c \in Callers, AcquireIdle(c) PROVE Moves
  <2>1. Pops(c)
    BY Zenon, <1>5 DEF AcquireIdle, Pop, Pops, TypeOK, Pooled
  <2> QED
    BY Zenon, <2>1 DEF Moves
<1>6. ASSUME NEW c \in Callers, AcquireNone(c) \/ AcquireFails(c) \/ Need(c) \/ WarmSkips(c) \/ CopyRepos(c) PROVE Moves
  BY Zenon, <1>6 DEF AcquireNone, AcquireFails, Need, WarmSkips, CopyRepos, Spoils, Moves
<1>7. ASSUME NEW c \in Callers, resetWorktree(c) \/ cleanWorktree(c) PROVE Moves
  <2>1. PICK t \in hand[c] : GitResets(t)
    BY Zenon, <1>7 DEF resetWorktree, cleanWorktree
  <2>2. t \in Trees /\ disk[t] \notin {"new", "gone", "left"}
    BY Zenon, <2>1 DEF TypeOK, OneHome
  <2>3. UNCHANGED <<idle, hand>>
    BY Zenon, <1>7 DEF resetWorktree, cleanWorktree
  <2> QED
    BY Zenon, <2>1, <2>2, <2>3 DEF GitResets, Rewrites, Moves
<1>8. ASSUME NEW c \in Callers, Use(c) PROVE Moves
  <2>1. Rewrites
    BY Zenon, <1>8 DEF Use, Rewrites, TypeOK
  <2> QED
    BY Zenon, <2>1 DEF Moves
<1>9. CASE Removed
  <2>1. Rewrites
    BY Zenon, <1>9 DEF Removed, Rewrites
  <2> QED
    BY Zenon, <2>1 DEF Moves
<1>10. ASSUME NEW c \in Callers, ReleaseClosed(c) PROVE Moves
  BY Zenon, <1>10 DEF ReleaseClosed, Drops, Moves
<1>11. ASSUME NEW c \in Callers, Return(c) \/ WarmPuts(c) PROVE Moves
  <2>1. rp[c] \in Pools /\ PutBack(c)
    BY Zenon, <1>11 DEF Return, WarmPuts, TypeOK, Pooled
  <2> QED
    BY Zenon, <2>1 DEF Moves
<1>12. ASSUME NEW c \in Callers, DrainTakes(c) \/ StaleTakes(c) PROVE Moves
  <2>1. rp[c] \in Pools
    BY Zenon, <1>12 DEF DrainTakes, StaleTakes, TypeOK, Pooled
  <2>2. Len(idle[rp[c]]) \in Nat
    BY <2>1 DEF TypeOK
  <2>3. PICK n \in 0 .. Len(idle[rp[c]]) : Take(c, rp[c], n)
    BY <1>12, <2>2 DEF DrainTakes, StaleTakes
  <2>4. n \in Nat /\ n <= Len(idle[rp[c]])
    BY <2>2
  <2>5. Takes(c)
    BY Zenon, <2>1, <2>3, <2>4 DEF Take, Takes
  <2> QED
    BY Zenon, <2>5 DEF Moves
<1>13. CASE Close \/ CloseTakes \/ CloseEmpties \/ UNCHANGED vars
  BY Zenon, <1>13 DEF Close, CloseTakes, vars, Moves
<1>14. ASSUME NEW s \in Sessions, SessionStep(s) PROVE Moves
  BY Zenon, <1>0, <1>1, <1>2, <1>3, <1>4, <1>5, <1>6, <1>7, <1>8, <1>10, <1>11, <1>14 DEF SessionStep, Acquire, Release
<1>15. ASSUME NEW k \in Keepers, KeeperStep(k) PROVE Moves
  BY Zenon, <1>0, <1>1, <1>2, <1>3, <1>4, <1>6, <1>11, <1>12, <1>15 DEF KeeperStep, Warm, Drain, CleanupStale
<1> QED
  BY Zenon, <1>3, <1>9, <1>13, <1>14, <1>15 DEF Next

-----------------------------------------------------------------------------
(* One home. *)

\* A sequence without its last element.
LEMMA PopLength ==
  ASSUME NEW S, NEW q \in Seq(S), q # <<>>
  PROVE  Len(q) \in Nat /\ Len(q) > 0 /\ Len(SubSeq(q, 1, Len(q) - 1)) = Len(q) - 1
<1>1. Len(q) \in Nat /\ Len(q) > 0
  OBVIOUS
<1>2. \A i \in 1 .. Len(q) - 1 : q[i] \in S
  BY <1>1
<1>3. PICK n \in Int : n = Len(q) - 1 /\ n >= 0
  BY <1>1
<1>4. Len(SubSeq(q, 1, n)) = IF 1 <= n THEN n - 1 + 1 ELSE 0
  BY <1>2, <1>3
<1>5. (IF 1 <= n THEN n - 1 + 1 ELSE 0) = n
  BY <1>3
<1> QED
  BY Zenon, <1>1, <1>3, <1>4, <1>5

\* Every step leaves each worktree in one place.
LEMMA OneHomeStep == TypeOK /\ OneHome /\ [Next]_vars => OneHome'
<1> SUFFICES ASSUME TypeOK, OneHome, [Next]_vars PROVE OneHome'
  BY Zenon
<1> USE DEF OneHome
<1>distinct. \A q, r \in Pools : \A i \in 1 .. Len(idle[q]), j \in 1 .. Len(idle[r]) :
          idle[q][i] = idle[r][j] => q = r /\ i = j
  BY Zenon
<1>0. /\ idle \in [Pools -> Seq(Trees)] /\ hand \in [Callers -> SUBSET Trees]
      /\ disk \in [Trees -> {"new", "clean", "dirty", "removed", "gone", "left"}]
  BY Zenon DEF TypeOK
<1>1. ASSUME NEW c \in Callers, Discards(c) PROVE OneHome'
  BY <1>0, <1>1 DEF Discards, Destroy
<1>2. ASSUME NEW c \in Callers, Drops(c) PROVE OneHome'
  BY <1>0, <1>2 DEF Drops
<1>3. ASSUME NEW c \in Callers, Makes(c) PROVE OneHome'
  BY <1>0, <1>3 DEF Makes
<1>4. ASSUME NEW c \in Callers, Takes(c) PROVE OneHome'
  <2>1. PICK p \in Pools, n \in Nat :
            /\ n <= Len(idle[p])
            /\ idle' = [idle EXCEPT ![p] = SubSeq(@, n + 1, Len(@))]
            /\ hand' = [hand EXCEPT ![c] = Range(SubSeq(idle[p], 1, n))]
            /\ UNCHANGED disk
    BY Zenon, <1>4 DEF Takes
  <2>2. /\ Len(idle'[p]) = Len(idle[p]) - n
        /\ \A i \in 1 .. Len(idle'[p]) : i + n \in 1 .. Len(idle[p]) /\ idle'[p][i] = idle[p][i + n]
    BY <1>0, <2>1
  <2>3. \A t \in hand'[c] : \E i \in 1 .. Len(idle[p]) : i <= n /\ t = idle[p][i]
    BY <1>0, <2>1 DEF Range
  <2>4. \A q \in Pools \ {p} : idle'[q] = idle[q]
    BY Zenon, <1>0, <2>1
  <2>5. \A d \in Callers \ {c} : hand'[d] = hand[d]
    BY Zenon, <1>0, <2>1
  <2>6. Len(idle[p]) \in Nat
    BY <1>0
  <2>7. \A d, e \in Callers : d # e => hand'[d] \cap hand'[e] = {}
    BY <1>0, <2>3, <2>5
  <2>8. \A q, r \in Pools : \A i \in 1 .. Len(idle'[q]), j \in 1 .. Len(idle'[r]) :
            idle'[q][i] = idle'[r][j] => q = r /\ i = j
    <3> DEFINE off(q) == IF q = p THEN n ELSE 0
    <3>1. \A q \in Pools : \A i \in 1 .. Len(idle'[q]) :
              i + off(q) \in 1 .. Len(idle[q]) /\ idle'[q][i] = idle[q][i + off(q)]
      <4>1. ASSUME NEW q \in Pools, q # p, NEW i \in 1 .. Len(idle'[q])
            PROVE  i + 0 \in 1 .. Len(idle[q]) /\ idle'[q][i] = idle[q][i + 0]
        BY <1>0, <2>4, <4>1
      <4> QED
        BY Zenon, <2>2, <4>1
    <3>2. \A q \in Pools : off(q) \in Nat
      BY Zenon
    <3> HIDE DEF off
    <3>3. SUFFICES ASSUME NEW q \in Pools, NEW r \in Pools, NEW i \in 1 .. Len(idle'[q]), NEW j \in 1 .. Len(idle'[r]),
                          idle'[q][i] = idle'[r][j]
                   PROVE  q = r /\ i = j
      BY Zenon
    <3>4. q = r /\ i + off(q) = j + off(r)
      <4>1. /\ i + off(q) \in 1 .. Len(idle[q]) /\ j + off(r) \in 1 .. Len(idle[r])
            /\ idle[q][i + off(q)] = idle[r][j + off(r)]
        BY Zenon, <3>1, <3>3
      <4>2. \A k \in 1 .. Len(idle[q]), l \in 1 .. Len(idle[r]) : idle[q][k] = idle[r][l] => q = r /\ k = l
        BY Zenon
      <4> QED
        BY Zenon, <4>1, <4>2
    <3>5. i \in Int /\ j \in Int
      OBVIOUS
    <3> QED
      BY <3>2, <3>4, <3>5
  <2>9. \A d \in Callers : \A t \in hand'[d] :
            /\ \A q \in Pools : \A i \in 1 .. Len(idle'[q]) : idle'[q][i] # t
            /\ disk'[t] \notin {"new", "gone", "left"}
    <3>1. ASSUME NEW t \in hand'[c], NEW q \in Pools, NEW i \in 1 .. Len(idle'[q]), idle'[q][i] = t PROVE FALSE
      <4>1. PICK k \in 1 .. Len(idle[p]) : k <= n /\ t = idle[p][k]
        BY Zenon, <2>3, <3>1
      <4>2. CASE q = p
        BY <2>1, <2>2, <2>6, <3>1, <4>1, <4>2
      <4>3. CASE q # p
        BY <2>4, <3>1, <4>1, <4>3
      <4> QED
        BY Zenon, <4>2, <4>3
    <3>2. \A t \in hand'[c] : disk'[t] \notin {"new", "gone", "left"}
      BY Zenon, <2>1, <2>3
    <3>3. ASSUME NEW d \in Callers \ {c}, NEW t \in hand'[d]
          PROVE  /\ \A q \in Pools : \A i \in 1 .. Len(idle'[q]) : idle'[q][i] # t
                 /\ disk'[t] \notin {"new", "gone", "left"}
      <4>1. t \in hand[d] /\ disk' = disk
        BY Zenon, <2>1, <2>5, <3>3
      <4>2. ASSUME NEW q \in Pools, NEW i \in 1 .. Len(idle'[q]) PROVE idle'[q][i] # t
        <5>1. \A j \in 1 .. Len(idle[q]) : idle[q][j] # t
          BY Zenon, <4>1
        <5>2. CASE q = p
          <6>1. i \in 1 .. Len(idle'[p]) /\ \A j \in 1 .. Len(idle[p]) : idle[p][j] # t
            BY Zenon, <5>1, <5>2
          <6>2. i + n \in 1 .. Len(idle[p]) /\ idle'[p][i] = idle[p][i + n]
            BY Zenon, <2>2, <6>1
          <6> QED
            BY Zenon, <5>2, <6>1, <6>2
        <5>3. CASE q # p
          BY Zenon, <2>4, <5>1, <5>3
        <5> QED
          BY Zenon, <5>2, <5>3
      <4> QED
        BY Zenon, <4>1, <4>2
    <3> QED
      BY Zenon, <3>1, <3>2, <3>3
  <2>10. \A q \in Pools : \A i \in 1 .. Len(idle'[q]) : disk'[idle'[q][i]] \notin {"new", "gone", "left"}
    <3>1. ASSUME NEW i \in 1 .. Len(idle'[p]) PROVE disk'[idle'[p][i]] \notin {"new", "gone", "left"}
      BY Zenon, <2>1, <2>2
    <3>2. ASSUME NEW q \in Pools \ {p}, NEW i \in 1 .. Len(idle'[q]) PROVE disk'[idle'[q][i]] \notin {"new", "gone", "left"}
      BY Zenon, <2>1, <2>4
    <3> QED
      BY Zenon, <3>1, <3>2
  <2> QED
    BY Zenon, <2>7, <2>8, <2>9, <2>10
<1>5. ASSUME NEW c \in Callers, Pops(c) PROVE OneHome'
  <2>1. PICK p \in Pools :
            /\ idle[p] # <<>>
            /\ idle' = [idle EXCEPT ![p] = SubSeq(@, 1, Len(@) - 1)]
            /\ hand' = [hand EXCEPT ![c] = {idle[p][Len(idle[p])]}]
            /\ UNCHANGED disk
    BY Zenon, <1>5 DEF Pops
  <2>2. /\ Len(idle[p]) \in Nat /\ Len(idle[p]) > 0 /\ Len(idle'[p]) = Len(idle[p]) - 1
        /\ \A i \in 1 .. Len(idle'[p]) : i \in 1 .. Len(idle[p]) /\ idle'[p][i] = idle[p][i]
    <3> DEFINE q == idle[p]
    <3>1. q \in Seq(Trees) /\ q # <<>> /\ idle'[p] = SubSeq(q, 1, Len(q) - 1)
      BY Zenon, <1>0, <2>1
    <3> HIDE DEF q
    <3>2. Len(q) \in Nat /\ Len(q) > 0 /\ Len(SubSeq(q, 1, Len(q) - 1)) = Len(q) - 1
      BY Zenon, <3>1, PopLength
    <3>4. \A i \in 1 .. Len(q) - 1 : i \in 1 .. Len(q) /\ SubSeq(q, 1, Len(q) - 1)[i] = q[i]
      BY <3>1, <3>2
    <3> QED
      BY Zenon, <3>1, <3>2, <3>4 DEF q
  <2>3. \A q \in Pools \ {p} : idle'[q] = idle[q]
    BY Zenon, <1>0, <2>1
  <2>4. hand'[c] = {idle[p][Len(idle[p])]} /\ \A d \in Callers \ {c} : hand'[d] = hand[d]
    BY Zenon, <1>0, <2>1
  <2>5. Len(idle[p]) \in 1 .. Len(idle[p])
    BY <2>2
  <2>6. \A q \in Pools : \A i \in 1 .. Len(idle'[q]) : idle'[q][i] # idle[p][Len(idle[p])]
    <3>1. \A i \in 1 .. Len(idle'[p]) : i # Len(idle[p])
      BY <2>2
    <3>2. ASSUME NEW i \in 1 .. Len(idle'[p]), idle'[p][i] = idle[p][Len(idle[p])] PROVE FALSE
      <4>1. i \in 1 .. Len(idle[p]) /\ idle[p][i] = idle[p][Len(idle[p])] /\ i # Len(idle[p])
        BY Zenon, <2>2, <3>1, <3>2
      <4> HIDE DEF OneHome
      <4> QED
        BY Zenon, <1>distinct, <2>5, <4>1
    <3>3. ASSUME NEW q \in Pools \ {p}, NEW i \in 1 .. Len(idle'[q]), idle'[q][i] = idle[p][Len(idle[p])] PROVE FALSE
      <4>1. i \in 1 .. Len(idle[q]) /\ idle[q][i] = idle[p][Len(idle[p])] /\ q # p
        BY Zenon, <2>3, <3>3
      <4> HIDE DEF OneHome
      <4> QED
        BY Zenon, <1>distinct, <2>5, <4>1
    <3> QED
      BY Zenon, <3>2, <3>3
  <2>7. \A q \in Pools : \A i \in 1 .. Len(idle'[q]) : i \in 1 .. Len(idle[q]) /\ idle'[q][i] = idle[q][i]
    BY Zenon, <2>2, <2>3
  <2>8. \A d, e \in Callers : d # e => hand'[d] \cap hand'[e] = {}
    BY <2>4, <2>5
  <2>9. \A q, r \in Pools : \A i \in 1 .. Len(idle'[q]), j \in 1 .. Len(idle'[r]) :
            idle'[q][i] = idle'[r][j] => q = r /\ i = j
    BY <2>7
  <2>10. \A d \in Callers : \A t \in hand'[d] :
            /\ \A q \in Pools : \A i \in 1 .. Len(idle'[q]) : idle'[q][i] # t
            /\ disk'[t] \notin {"new", "gone", "left"}
    <3>1. ASSUME NEW d \in Callers \ {c}, NEW t \in hand'[d]
          PROVE  /\ \A q \in Pools : \A i \in 1 .. Len(idle'[q]) : idle'[q][i] # t
                 /\ disk'[t] \notin {"new", "gone", "left"}
      BY <2>1, <2>4, <2>7, <3>1
    <3> QED
      BY <2>1, <2>4, <2>5, <2>6, <3>1
  <2>11. \A q \in Pools : \A i \in 1 .. Len(idle'[q]) : disk'[idle'[q][i]] \notin {"new", "gone", "left"}
    BY <2>1, <2>7
  <2> QED
    BY Zenon, <2>8, <2>9, <2>10, <2>11
<1>6. ASSUME NEW c \in Callers, rp[c] \in Pools, PutBack(c) PROVE OneHome'
  <2>1. PICK t \in hand[c] :
            /\ hand' = [hand EXCEPT ![c] = {}]
            /\ \/ Destroy({t}) /\ UNCHANGED idle
               \/ idle' = [idle EXCEPT ![rp[c]] = Append(@, t)] /\ UNCHANGED disk
    BY Zenon, <1>6 DEF PutBack
  <2>2. CASE Destroy({t}) /\ UNCHANGED idle
    BY <1>0, <2>1, <2>2 DEF Destroy
  <2>3. CASE idle' = [idle EXCEPT ![rp[c]] = Append(@, t)] /\ UNCHANGED disk
    <3> DEFINE p == rp[c]
    <3>1. /\ Len(idle[p]) \in Nat /\ Len(idle'[p]) = Len(idle[p]) + 1 /\ idle'[p][Len(idle[p]) + 1] = t
          /\ \A i \in 1 .. Len(idle[p]) : idle'[p][i] = idle[p][i]
      BY <1>0, <1>6, <2>1, <2>3
    <3>2. \A q \in Pools \ {p} : idle'[q] = idle[q]
      BY Zenon, <1>0, <2>3
    <3>3. hand'[c] = {} /\ \A d \in Callers \ {c} : hand'[d] = hand[d] /\ t \notin hand[d]
      BY Zenon, <1>0, <2>1
    <3>4. \A i \in 1 .. Len(idle'[p]) : i \in 1 .. Len(idle[p]) \/ i = Len(idle[p]) + 1
      BY <3>1
    <3>5. p \in Pools
      BY Zenon, <1>6
    <3> HIDE DEF p
    <3>6. \A q \in Pools : \A i \in 1 .. Len(idle'[q]) :
              \/ idle'[q][i] = t /\ q = p /\ i = Len(idle[p]) + 1
              \/ i \in 1 .. Len(idle[q]) /\ idle'[q][i] = idle[q][i]
      BY Zenon, <3>1, <3>2, <3>4
    <3>7. \A q \in Pools : \A i \in 1 .. Len(idle[q]) : idle[q][i] # t
      BY Zenon, <2>1
    <3>8. disk[t] \notin {"new", "gone", "left"} /\ disk' = disk
      BY Zenon, <2>1, <2>3
    <3>9. \A d, e \in Callers : d # e => hand'[d] \cap hand'[e] = {}
      BY <3>3
    <3>10. \A q, r \in Pools : \A i \in 1 .. Len(idle'[q]), j \in 1 .. Len(idle'[r]) :
               idle'[q][i] = idle'[r][j] => q = r /\ i = j
      <4> SUFFICES ASSUME NEW q \in Pools, NEW r \in Pools, NEW i \in 1 .. Len(idle'[q]), NEW j \in 1 .. Len(idle'[r]),
                          idle'[q][i] = idle'[r][j]
                   PROVE  q = r /\ i = j
        BY Zenon
      <4> HIDE DEF OneHome
      <4>1. CASE idle'[q][i] = t
        <5>1. q = p /\ i = Len(idle[p]) + 1
          BY Zenon, <3>6, <3>7, <4>1
        <5>2. r = p /\ j = Len(idle[p]) + 1
          BY Zenon, <3>6, <3>7, <4>1
        <5> QED
          BY Zenon, <5>1, <5>2
      <4>2. CASE idle'[q][i] # t
        <5>1. i \in 1 .. Len(idle[q]) /\ idle'[q][i] = idle[q][i]
          BY Zenon, <3>6, <4>2
        <5>2. j \in 1 .. Len(idle[r]) /\ idle'[r][j] = idle[r][j]
          BY Zenon, <3>6, <4>2
        <5>3. idle[q][i] = idle[r][j]
          BY Zenon, <5>1, <5>2
        <5>4. \A k \in 1 .. Len(idle[q]), l \in 1 .. Len(idle[r]) : idle[q][k] = idle[r][l] => q = r /\ k = l
          BY Zenon, <1>distinct
        <5> QED
          BY Zenon, <5>1, <5>2, <5>3, <5>4
      <4> QED
        BY Zenon, <4>1, <4>2
    <3>11. \A d \in Callers : \A u \in hand'[d] :
               /\ \A q \in Pools : \A i \in 1 .. Len(idle'[q]) : idle'[q][i] # u
               /\ disk'[u] \notin {"new", "gone", "left"}
      BY <3>3, <3>6, <3>8
    <3>12. \A q \in Pools : \A i \in 1 .. Len(idle'[q]) : disk'[idle'[q][i]] \notin {"new", "gone", "left"}
      BY <3>6, <3>8
    <3> QED
      BY Zenon, <3>9, <3>10, <3>11, <3>12
  <2> QED
    BY Zenon, <2>1, <2>2, <2>3
<1>7. CASE Rewrites
  BY <1>0, <1>7 DEF Rewrites
<1>10. CASE Spoils
  <2>1. \A t \in Trees : disk[t] # "new" => disk'[t] = disk[t]
    BY Zenon, <1>0, <1>10 DEF Spoils, CreateFails
  <2>2. \A c \in Callers : \A t \in hand[c] : disk'[t] \notin {"new", "gone", "left"}
    BY Zenon, <1>0, <2>1
  <2>3. \A p \in Pools : \A i \in 1 .. Len(idle[p]) : idle[p][i] \in Trees
    BY <1>0
  <2>4. \A p \in Pools : \A i \in 1 .. Len(idle[p]) : disk'[idle[p][i]] \notin {"new", "gone", "left"}
    BY Zenon, <2>1, <2>3
  <2>5. idle' = idle /\ hand' = hand
    BY Zenon, <1>10 DEF Spoils
  <2> QED
    BY <2>2, <2>4, <2>5
<1>8. CASE CloseEmpties
  <2>1. /\ idle'[1] = <<>> /\ hand' = hand
        /\ \A q \in Pools \ {1} : idle'[q] = idle[q]
    BY <1>0, <1>8 DEF CloseEmpties, Pools
  <2>2. \A t \in Trees : t \notin Range(idle[1]) => disk'[t] = disk[t]
    BY Zenon, <1>8 DEF CloseEmpties, Destroy
  <2>3. \A t \in Range(idle[1]) : \E i \in 1 .. Len(idle[1]) : idle[1][i] = t
    BY <1>0 DEF Range, Pools
  <2>4. 1 \in Pools /\ Len(idle'[1]) = 0
    BY <2>1 DEF Pools
  <2>5. \A c \in Callers : \A t \in hand[c] : t \in Trees /\ t \notin Range(idle[1])
    BY <1>0, <2>3, <2>4
  <2>6. \A q \in Pools \ {1} : \A i \in 1 .. Len(idle[q]) : idle[q][i] \in Trees /\ idle[q][i] \notin Range(idle[1])
    <3> SUFFICES ASSUME NEW q \in Pools \ {1}, NEW i \in 1 .. Len(idle[q])
                 PROVE  idle[q][i] \in Trees /\ idle[q][i] \notin Range(idle[1])
      BY Zenon
    <3>1. idle[q][i] \in Trees
      BY <1>0
    <3>2. \A j \in 1 .. Len(idle[1]) : idle[1][j] # idle[q][i]
      BY Zenon, <1>distinct, <2>4
    <3> QED
      BY Zenon, <2>3, <3>1, <3>2
  <2>7. \A i \in 1 .. Len(idle'[1]) : FALSE
    BY <2>4
  <2> QED
    BY <2>1, <2>2, <2>5, <2>6, <2>7
<1>9. CASE UNCHANGED <<idle, hand, disk>>
  BY <1>9
<1> QED
  BY Zenon, <1>1, <1>2, <1>3, <1>4, <1>5, <1>6, <1>7, <1>8, <1>9, <1>10, StepMoves DEF Moves

\* No worktree is shared by two calls, idle twice, or destroyed while somebody has
\* it, for any number of sessions and keepers of WorktreePool.
THEOREM NeverShared == Spec => []OneHome
<1>1. Init => OneHome
  BY DEF Init, OneHome
<1> QED
  BY <1>1, OneHomeStep, TypeCorrect, PTL DEF Spec

-----------------------------------------------------------------------------
(* The size of the pool. *)

\* No repoPool grows past poolSize: the room Warm counted is tested again when the
\* worktree is put back.
THEOREM NeverOverfull == Spec => []IdleBounded
<1>1. Init => IdleBounded
  BY PoolAssumption DEF Init, IdleBounded
<1>2. TypeOK /\ OneHome /\ IdleBounded /\ [Next]_vars => IdleBounded'
  <2> SUFFICES ASSUME TypeOK, OneHome, IdleBounded, [Next]_vars PROVE IdleBounded'
    BY Zenon
  <2> USE PoolAssumption DEF IdleBounded
  <2>0. idle \in [Pools -> Seq(Trees)] /\ hand \in [Callers -> SUBSET Trees]
    BY Zenon DEF TypeOK
  <2>1. ASSUME NEW c \in Callers, Discards(c) \/ Drops(c) \/ Makes(c) PROVE IdleBounded'
    BY Zenon, <2>1 DEF Discards, Drops, Makes
  <2>2. ASSUME NEW c \in Callers, Takes(c) PROVE IdleBounded'
    BY <2>0, <2>2 DEF Takes
  <2>3. ASSUME NEW c \in Callers, Pops(c) PROVE IdleBounded'
    BY <2>0, <2>3 DEF Pops
  <2>4. ASSUME NEW c \in Callers, rp[c] \in Pools, PutBack(c) PROVE IdleBounded'
    <3>1. CASE Full(rp[c])
      BY Zenon, <2>4, <3>1 DEF PutBack
    <3>2. CASE ~Full(rp[c])
      BY <2>0, <2>4, <3>2 DEF PutBack, Full
    <3> QED
      BY Zenon, <3>1, <3>2
  <2>5. CASE Rewrites \/ Spoils \/ UNCHANGED <<idle, hand, disk>>
    BY Zenon, <2>5 DEF Rewrites, Spoils
  <2>6. CASE CloseEmpties
    BY <2>0, <2>6 DEF CloseEmpties
  <2> QED
    BY Zenon, <2>1, <2>2, <2>3, <2>4, <2>5, <2>6, StepMoves DEF Moves
<1> QED
  BY <1>1, <1>2, TypeCorrect, NeverShared, PTL DEF Spec

-----------------------------------------------------------------------------
(* None lost. *)

\* No call has another repoPool than the map's before Close has begun.
LEMMA OnePoolStep == TypeOK /\ OnePool /\ [Next]_vars => OnePool'
<1> SUFFICES ASSUME TypeOK, OnePool, [Next]_vars PROVE OnePool'
  BY Zenon
<1>0. Sessions \subseteq Callers /\ Keepers \subseteq Callers
  BY Zenon DEF Callers
<1>1. ASSUME NEW c \in Callers, NEW from, NEW to, getOrCreateRepoPool(c, from, to) PROVE OnePool'
  BY <1>1 DEF getOrCreateRepoPool, OnePool, TypeOK
<1>2. ASSUME UNCHANGED <<closed, close, repos>>, \A d \in Callers : rp'[d] \in {rp[d], 0, repos}
      PROVE  OnePool'
  BY Zenon, <1>2 DEF OnePool
<1>3. ASSUME NEW c \in Callers, Out(c) \/ UNCHANGED rp \/ rp' = [rp EXCEPT ![c] = repos]
      PROVE  \A d \in Callers : rp'[d] \in {rp[d], 0, repos}
  BY Zenon, <1>3 DEF Out, TypeOK
<1>4. CASE Close \/ CloseTakes \/ CloseEmpties
  BY Zenon, <1>4 DEF Close, CloseTakes, CloseEmpties, OnePool
<1>5. CASE Removed \/ UNCHANGED vars
  BY Zenon, <1>2, <1>5 DEF Removed, vars
<1>6. ASSUME NEW c \in Callers, NoRepoRoot(c) PROVE OnePool'
  BY Zenon, <1>2, <1>3, <1>6 DEF NoRepoRoot
<1>7. ASSUME NEW s \in Sessions, SessionStep(s) PROVE OnePool'
  <2>1. CASE getOrCreateRepoPool(s, "acquire", "pop") \/ getOrCreateRepoPool(s, "release", "clean")
    BY Zenon, <1>0, <1>1, <2>1
  <2>2. CASE ~(getOrCreateRepoPool(s, "acquire", "pop") \/ getOrCreateRepoPool(s, "release", "clean"))
    <3>1. UNCHANGED <<closed, close, repos>> /\ (Out(s) \/ UNCHANGED rp)
      BY Zenon, <1>7, <2>2 DEF SessionStep, Acquire, Enter, AcquireIdle, AcquireNone, resetWorktree,
         ResetFails, AcquireFresh, createFreshWorktree, AcquireFails, Use, Release,
         ReleaseClosed, cleanWorktree, CleanFails, Return, Advance
    <3> QED
      BY Zenon, <1>0, <1>2, <1>3, <3>1
  <2> QED
    BY Zenon, <2>1, <2>2
<1>8. ASSUME NEW k \in Keepers, KeeperStep(k) PROVE OnePool'
  <2>1. CASE getOrCreateRepoPool(k, "warm", "count") \/ getOrCreateRepoPool(k, "drain", "take")
    BY Zenon, <1>0, <1>1, <2>1
  <2>2. CASE ~(getOrCreateRepoPool(k, "warm", "count") \/ getOrCreateRepoPool(k, "drain", "take"))
    <3>1. /\ UNCHANGED <<closed, close, repos>>
          /\ Out(k) \/ UNCHANGED rp \/ rp' = [rp EXCEPT ![k] = repos]
      BY Zenon, <1>8, <2>2 DEF KeeperStep, Warm, Enter, Need, WarmFresh, createFreshWorktree, WarmSkips,
         WarmPuts, Drain, DrainTakes, Take, CleanupStale, CopyRepos, StaleTakes, DestroyTaken, Advance
    <3> QED
      BY Zenon, <1>0, <1>2, <1>3, <3>1
  <2> QED
    BY Zenon, <2>1, <2>2
<1> QED
  BY Zenon, <1>4, <1>5, <1>6, <1>7, <1>8 DEF Next

\* A call that goes to another step with what is left or put in its hands.
HandMove(c, to, h) ==
    /\ at' = [at EXCEPT ![c] = to] /\ hand' = [hand EXCEPT ![c] = h]
    /\ to \in Empty => h = {}
    /\ to \in Single => \E t \in Trees : h = {t}

\* A call has one worktree or none wherever it is but at Drain's and
\* CleanupStale's destruction of what they took.
LEMMA HandsStep == TypeOK /\ HandsCounted /\ [Next]_vars => HandsCounted'
<1> SUFFICES ASSUME TypeOK, HandsCounted, [Next]_vars PROVE HandsCounted'
  BY Zenon
<1>0. /\ Sessions \subseteq Callers /\ Keepers \subseteq Callers
      /\ at \in [Callers -> Points] /\ hand \in [Callers -> SUBSET Trees]
  BY Zenon DEF Callers, TypeOK
<1>1. ASSUME NEW c \in Callers, NEW to, NEW h, HandMove(c, to, h) PROVE HandsCounted'
  BY Zenon, <1>0, <1>1 DEF HandMove, HandsCounted
<1>2. ASSUME NEW c \in Callers, NEW to, at' = [at EXCEPT ![c] = to], UNCHANGED hand,
             \/ at[c] \in Empty /\ to \in Empty
             \/ at[c] \in Single /\ to \in Single
      PROVE  HandsCounted'
  <2>1. hand' = [hand EXCEPT ![c] = hand[c]]
    BY Zenon, <1>0, <1>2
  <2>2. Empty \cap Single = {}
    BY Zenon DEF Empty, Single
  <2> QED
    BY Zenon, <1>1, <1>2, <2>1, <2>2 DEF HandMove, HandsCounted
<1>3. ASSUME UNCHANGED <<at, hand>> PROVE HandsCounted'
  BY Zenon, <1>3 DEF HandsCounted
<1>4. ASSUME NEW c \in Callers, Out(c), hand' = [hand EXCEPT ![c] = {}] PROVE HandsCounted'
  BY Zenon, <1>1, <1>4 DEF HandMove, Out, Empty, Single
<1>5. ASSUME NEW c \in Callers, Out(c), UNCHANGED hand, at[c] \in Empty PROVE HandsCounted'
  BY Zenon, <1>2, <1>5 DEF Out, Empty
<1>6. ASSUME NEW c \in Callers, NEW to \in Single, createFreshWorktree(c, to) PROVE HandsCounted'
  <2>1. PICK t \in Trees : hand' = [hand EXCEPT ![c] = {t}]
    BY Zenon, <1>6 DEF createFreshWorktree
  <2>2. to \notin Empty
    BY Zenon DEF Empty, Single
  <2> QED
    BY Zenon, <1>1, <1>6, <2>1, <2>2 DEF HandMove, createFreshWorktree, Advance
<1>7. ASSUME NEW c \in Callers, NEW pool, NEW n, Take(c, pool, n) PROVE HandsCounted'
  BY Zenon, <1>1, <1>7 DEF HandMove, Take, Advance, Empty, Single
<1>8. CASE Close \/ CloseTakes \/ CloseEmpties \/ Removed \/ UNCHANGED vars
  BY Zenon, <1>3, <1>8 DEF Close, CloseTakes, CloseEmpties, Removed, vars
<1>9. ASSUME NEW c \in Callers, NoRepoRoot(c) \/ CleanFails(c) \/ DestroyTaken(c) \/ ReleaseClosed(c)
      PROVE  HandsCounted'
  BY Zenon, <1>4, <1>9 DEF NoRepoRoot, CleanFails, DestroyTaken, ReleaseClosed
<1>10. ASSUME NEW s \in Sessions, SessionStep(s) PROVE HandsCounted'
  <2>0. s \in Callers
    BY Zenon, <1>0
  <2> USE DEF At, Advance
  <2>1. CASE Acquire(s) \/ Release(s)
    BY Zenon, <1>2, <2>0, <2>1 DEF Acquire, Release, Enter, Empty, Single
  <2>2. CASE getOrCreateRepoPool(s, "acquire", "pop") \/ getOrCreateRepoPool(s, "release", "clean")
    BY Zenon, <1>2, <2>0, <2>2 DEF getOrCreateRepoPool, Empty, Single
  <2>3. CASE AcquireIdle(s)
    <3>1. /\ rp[s] \in Pools /\ idle[rp[s]] \in Seq(Trees) /\ idle[rp[s]] # <<>>
      BY Zenon, <2>0, <2>3 DEF AcquireIdle, TypeOK, Pooled
    <3>2. idle[rp[s]][Len(idle[rp[s]])] \in Trees
      BY <3>1
    <3> QED
      BY Zenon, <1>1, <2>0, <2>3, <3>2 DEF AcquireIdle, HandMove, Empty, Single
  <2>4. CASE AcquireNone(s)
    BY Zenon, <1>2, <2>0, <2>4 DEF AcquireNone, Empty
  <2>5. CASE resetWorktree(s) \/ cleanWorktree(s)
    BY Zenon, <1>2, <2>0, <2>5 DEF resetWorktree, cleanWorktree, Single
  <2>6. CASE ResetFails(s)
    BY Zenon, <1>1, <2>0, <2>6 DEF ResetFails, HandMove, Empty, Single
  <2>7. CASE AcquireFresh(s)
    BY Zenon, <1>6, <2>0, <2>7 DEF AcquireFresh, Single
  <2>8. CASE AcquireFails(s)
    BY Zenon, <1>5, <2>0, <2>8 DEF AcquireFails, Empty
  <2>9. CASE Use(s)
    BY Zenon, <1>3, <2>9 DEF Use
  <2>10. CASE Return(s)
    BY Zenon, <1>4, <2>0, <2>10 DEF Return, PutBack
  <2> QED
    BY Zenon, <1>9, <1>10, <2>0, <2>1, <2>2, <2>3, <2>4, <2>5, <2>6, <2>7, <2>8, <2>9, <2>10 DEF SessionStep
<1>11. ASSUME NEW k \in Keepers, KeeperStep(k) PROVE HandsCounted'
  <2>0. k \in Callers
    BY Zenon, <1>0
  <2> USE DEF At, Advance
  <2>1. CASE Warm(k) \/ Drain(k) \/ CleanupStale(k)
    BY Zenon, <1>2, <2>0, <2>1 DEF Warm, Drain, CleanupStale, Enter, Empty
  <2>2. CASE getOrCreateRepoPool(k, "warm", "count") \/ getOrCreateRepoPool(k, "drain", "take")
    BY Zenon, <1>2, <2>0, <2>2 DEF getOrCreateRepoPool, Empty
  <2>3. CASE Need(k)
    BY Zenon, <1>2, <1>5, <2>0, <2>3 DEF Need, Empty
  <2>4. CASE WarmFresh(k)
    BY Zenon, <1>6, <2>0, <2>4 DEF WarmFresh, Single
  <2>5. CASE WarmSkips(k)
    BY Zenon, <1>3, <1>5, <2>0, <2>5 DEF WarmSkips, Empty
  <2>6. CASE WarmPuts(k)
    BY Zenon, <1>1, <2>0, <2>6 DEF WarmPuts, PutBack, HandMove, Empty, Single
  <2>7. CASE DrainTakes(k) \/ StaleTakes(k)
    BY Zenon, <1>7, <2>0, <2>7 DEF DrainTakes, StaleTakes
  <2>8. CASE CopyRepos(k)
    BY Zenon, <1>2, <1>5, <2>0, <2>8 DEF CopyRepos, Empty
  <2> QED
    BY Zenon, <1>9, <1>11, <2>0, <2>1, <2>2, <2>3, <2>4, <2>5, <2>6, <2>7, <2>8 DEF KeeperStep
<1> QED
  BY Zenon, <1>8, <1>9, <1>10, <1>11 DEF Next

\* A worktree on disk is somewhere: with a call, or in the map's repoPool.
Somewhere(t) ==
    \/ \E c \in Callers : t \in hand[c]
    \/ repos # 0 /\ \E i \in 1 .. Len(idle[repos]) : idle[repos][i] = t

\* git has the worktree t.
OnDisk(t) == disk[t] \in {"clean", "dirty"}

\* Until Close, no worktree on disk is forgotten.
AllSomewhere == ~closed => \A t \in Trees : OnDisk(t) => Somewhere(t)

\* NoneLost, by positions.
LEMMA NoneLostAt == TypeOK => (NoneLost <=> AllSomewhere)
<1> SUFFICES ASSUME TypeOK PROVE NoneLost <=> AllSomewhere
  BY Zenon
<1>1. ASSUME repos # 0, NEW t PROVE t \in Range(idle[repos]) <=> \E i \in 1 .. Len(idle[repos]) : idle[repos][i] = t
  <2>1. idle[repos] \in Seq(Trees)
    BY <1>1 DEF TypeOK, Pools
  <2> QED
    BY <2>1 DEF Range
<1> QED
  BY Zenon, <1>1 DEF NoneLost, AllSomewhere, Somewhere, OnDisk

\* Before Close, no step loses a worktree that stays on disk.
LEMMA NoneLostStep ==
  TypeOK /\ OneHome /\ OnePool /\ HandsCounted /\ NoneLost /\ [Next]_vars => NoneLost'
<1> SUFFICES ASSUME TypeOK, OneHome, OnePool, HandsCounted, NoneLost, [Next]_vars, ~closed', TypeOK',
                    NEW t \in Trees, OnDisk(t)'
             PROVE  Somewhere(t)'
  <2>1. TypeOK /\ [Next]_vars => TypeOK'
    BY Zenon, TypeStep
  <2>2. TypeOK' => (NoneLost' <=> AllSomewhere')
    BY NoneLostAt, PTL
  <2> QED
    BY Zenon, <2>1, <2>2 DEF AllSomewhere
<1>0. /\ Sessions \subseteq Callers /\ Keepers \subseteq Callers
      /\ idle \in [Pools -> Seq(Trees)] /\ hand \in [Callers -> SUBSET Trees]
  BY Zenon DEF Callers, TypeOK
<1>1. ~closed /\ close = "open"
  <2>1. ~closed
    BY Zenon DEF Next, SessionStep, KeeperStep, Acquire, Enter, getOrCreateRepoPool, AcquireIdle,
       AcquireNone, resetWorktree, ResetFails, AcquireFresh, createFreshWorktree, AcquireFails,
       Use, Release, ReleaseClosed, cleanWorktree, CleanFails, Return, Warm, Need, WarmFresh,
       WarmSkips, WarmPuts, Drain, DrainTakes, Take, CleanupStale, CopyRepos, StaleTakes,
       DestroyTaken, NoRepoRoot, Removed, Close, CloseTakes, CloseEmpties, vars
  <2> QED
    BY Zenon, <2>1 DEF OnePool
<1>2. OnDisk(t) => Somewhere(t)
  BY Zenon, <1>1, NoneLostAt DEF AllSomewhere
<1>3. ASSUME UNCHANGED <<hand, idle>>, OnDisk(t), repos' = repos \/ repos = 0 PROVE Somewhere(t)'
  BY Zenon, <1>2, <1>3 DEF Somewhere
<1>fails. CreateFails => OnDisk(t)
  BY Zenon DEF CreateFails, OnDisk, TypeOK
<1>4. ASSUME NEW c \in Callers, Discards(c), UNCHANGED repos PROVE Somewhere(t)'
  <2>1. t \notin hand[c] /\ OnDisk(t)
    BY Zenon, <1>4 DEF Discards, Destroy, OnDisk
  <2>2. \A d \in Callers : t \in hand[d] => t \in hand'[d]
    BY Zenon, <1>0, <1>4, <2>1 DEF Discards
  <2> QED
    BY Zenon, <1>2, <1>4, <2>1, <2>2 DEF Somewhere, Discards
<1>5. ASSUME NEW c \in Callers, Makes(c), hand[c] = {}, UNCHANGED repos PROVE Somewhere(t)'
  <2>1. PICK u \in Trees : disk' = [disk EXCEPT ![u] = "clean"] /\ hand' = [hand EXCEPT ![c] = {u}]
    BY Zenon, <1>5 DEF Makes
  <2>2. u \in hand'[c] /\ \A d \in Callers : hand[d] \subseteq hand'[d]
    BY Zenon, <1>0, <1>5, <2>1
  <2>3. t # u => OnDisk(t)
    BY Zenon, <2>1 DEF OnDisk, TypeOK
  <2> QED
    BY Zenon, <1>2, <1>5, <2>2, <2>3 DEF Somewhere, Makes
<1>6. ASSUME NEW c \in Callers, NEW n \in Nat, rp[c] \in Pools, n <= Len(idle[rp[c]]), Take(c, rp[c], n),
             hand[c] = {}
      PROVE  Somewhere(t)'
  <2>1. PICK p \in Pools : p = rp[c] /\ p = repos
    BY <1>1, <1>6 DEF OnePool, Pools
  <2>2. /\ hand' = [hand EXCEPT ![c] = Range(SubSeq(idle[p], 1, n))]
        /\ idle' = [idle EXCEPT ![p] = SubSeq(idle[p], n + 1, Len(idle[p]))]
        /\ UNCHANGED <<repos, disk>>
    BY Zenon, <1>6, <2>1 DEF Take
  <2>3. OnDisk(t)
    BY Zenon, <2>2 DEF OnDisk
  <2>4. CASE \E d \in Callers : t \in hand[d]
    BY Zenon, <1>0, <1>6, <2>2, <2>4 DEF Somewhere
  <2>5. ASSUME NEW i \in 1 .. Len(idle[p]), idle[p][i] = t, p # 0 PROVE Somewhere(t)'
    <3>1. idle[p] \in Seq(Trees) /\ Len(idle[p]) \in Nat /\ n <= Len(idle[p])
      BY <1>0, <1>6, <2>1
    <3>2. CASE i <= n
      <4>1. i \in 1 .. n /\ SubSeq(idle[p], 1, n)[i] = t /\ DOMAIN SubSeq(idle[p], 1, n) = 1 .. n
        BY <2>5, <3>1, <3>2
      <4>2. t \in hand'[c]
        BY Zenon, <1>0, <2>2, <4>1 DEF Range
      <4> QED
        BY Zenon, <4>2 DEF Somewhere
    <3>3. CASE i > n
      <4>1. idle'[p] = SubSeq(idle[p], n + 1, Len(idle[p]))
        BY Zenon, <1>0, <2>2
      <4>2. Len(idle'[p]) = Len(idle[p]) - n /\ i - n \in 1 .. Len(idle'[p]) /\ idle'[p][i - n] = t
        BY <2>5, <3>1, <3>3, <4>1
      <4> QED
        BY Zenon, <2>1, <2>2, <2>5, <4>2 DEF Somewhere
    <3> QED
      BY <3>1, <3>2, <3>3
  <2> QED
    BY Zenon, <1>2, <2>1, <2>3, <2>4, <2>5 DEF Somewhere
<1>7. ASSUME NEW c \in Callers, AcquireIdle(c) PROVE Somewhere(t)'
  <2>1. PICK p \in Pools : p = rp[c] /\ p = repos
    <3>1. rp[c] \in Pools
      BY Zenon, <1>7 DEF AcquireIdle, At, TypeOK, Pooled
    <3> QED
      BY <1>1, <3>1 DEF OnePool, Pools
  <2>2. /\ idle[p] # <<>> /\ hand' = [hand EXCEPT ![c] = {idle[p][Len(idle[p])]}]
        /\ idle' = [idle EXCEPT ![p] = SubSeq(idle[p], 1, Len(idle[p]) - 1)]
        /\ UNCHANGED <<repos, disk>> /\ hand[c] = {}
    BY Zenon, <1>7, <2>1 DEF AcquireIdle, Pop, HandsCounted, At, Empty
  <2>3. OnDisk(t)
    BY Zenon, <2>2 DEF OnDisk
  <2>4. CASE \E d \in Callers : t \in hand[d]
    BY Zenon, <1>0, <2>2, <2>4 DEF Somewhere
  <2>5. ASSUME NEW i \in 1 .. Len(idle[p]), idle[p][i] = t, p # 0 PROVE Somewhere(t)'
    <3> DEFINE q == idle[p]
    <3>1. q \in Seq(Trees) /\ q # <<>> /\ idle'[p] = SubSeq(q, 1, Len(q) - 1)
      BY Zenon, <1>0, <2>2
    <3>2. CASE i = Len(q)
      <4>1. t \in hand'[c]
        BY Zenon, <1>0, <2>2, <2>5, <3>2
      <4> QED
        BY Zenon, <4>1 DEF Somewhere
    <3>3. CASE i # Len(q)
      <4> HIDE DEF q
      <4>1. Len(q) \in Nat /\ Len(SubSeq(q, 1, Len(q) - 1)) = Len(q) - 1
        BY Zenon, <3>1, PopLength
      <4>2. i \in 1 .. Len(q)
        BY Zenon, <2>5 DEF q
      <4>3. i \in 1 .. Len(q) - 1 /\ SubSeq(q, 1, Len(q) - 1)[i] = q[i]
        BY <3>1, <3>3, <4>1, <4>2
      <4>4. i \in 1 .. Len(idle'[p]) /\ idle'[p][i] = t
        BY Zenon, <2>5, <3>1, <4>1, <4>3 DEF q
      <4> QED
        BY Zenon, <2>1, <2>2, <2>5, <4>4 DEF Somewhere
    <3> QED
      BY Zenon, <3>2, <3>3
  <2> QED
    BY Zenon, <1>2, <2>1, <2>3, <2>4, <2>5 DEF Somewhere
<1>8. ASSUME NEW c \in Callers, at[c] \in Single \cap Pooled, PutBack(c), UNCHANGED repos PROVE Somewhere(t)'
  <2>1. PICK p \in Pools : p = rp[c] /\ p = repos
    BY <1>1, <1>8 DEF OnePool, Pools, TypeOK
  <2>2. PICK u \in Trees : hand[c] = {u}
    BY Zenon, <1>8 DEF HandsCounted
  <2>3. /\ hand' = [hand EXCEPT ![c] = {}]
        /\ \/ Destroy({u}) /\ UNCHANGED idle
           \/ idle' = [idle EXCEPT ![p] = Append(idle[p], u)] /\ UNCHANGED disk
    BY Zenon, <1>8, <2>1, <2>2 DEF PutBack
  <2>4. \A d \in Callers : t # u /\ t \in hand[d] => t \in hand'[d]
    BY <1>0, <2>2, <2>3
  <2>5. CASE Destroy({u}) /\ UNCHANGED idle
    <3>1. t # u /\ OnDisk(t)
      BY Zenon, <2>5 DEF Destroy, OnDisk
    <3> QED
      BY Zenon, <1>2, <1>8, <2>4, <2>5, <3>1 DEF Somewhere
  <2>6. CASE idle' = [idle EXCEPT ![p] = Append(idle[p], u)] /\ UNCHANGED disk
    <3>1. idle[p] \in Seq(Trees) /\ idle'[p] = Append(idle[p], u) /\ p # 0 /\ repos' = p
      BY <1>0, <1>8, <2>1, <2>6 DEF Pools
    <3>2. /\ Len(idle[p]) \in Nat /\ Len(idle'[p]) = Len(idle[p]) + 1 /\ idle'[p][Len(idle[p]) + 1] = u
          /\ \A i \in 1 .. Len(idle[p]) : i \in 1 .. Len(idle'[p]) /\ idle'[p][i] = idle[p][i]
      BY <3>1
    <3>3. OnDisk(t)
      BY Zenon, <2>6 DEF OnDisk
    <3>4. CASE t = u
      <4>1. Len(idle[p]) + 1 \in 1 .. Len(idle'[p])
        BY <3>2
      <4> QED
        BY Zenon, <3>1, <3>2, <3>4, <4>1 DEF Somewhere
    <3>5. CASE t # u
      BY Zenon, <1>2, <2>1, <2>4, <3>1, <3>2, <3>3, <3>5 DEF Somewhere
    <3> QED
      BY Zenon, <3>4, <3>5
  <2> QED
    BY Zenon, <2>3, <2>5, <2>6
<1>9. ASSUME NEW s \in Sessions, SessionStep(s) PROVE Somewhere(t)'
  <2>0. s \in Callers
    BY Zenon, <1>0
  <2> USE DEF At, Advance, Out
  <2>1. CASE \/ Acquire(s) \/ AcquireNone(s) \/ AcquireFails(s) \/ Release(s)
             \/ getOrCreateRepoPool(s, "acquire", "pop") \/ getOrCreateRepoPool(s, "release", "clean")
    BY Zenon, <1>3, <1>fails, <2>1 DEF Acquire, Release, Enter, AcquireNone, AcquireFails, getOrCreateRepoPool, OnDisk
  <2>2. CASE resetWorktree(s) \/ cleanWorktree(s)
    <3>1. PICK u \in hand[s] : GitResets(u)
      BY Zenon, <2>2 DEF resetWorktree, cleanWorktree
    <3>2. u \in Trees /\ OnDisk(u)
      BY Zenon, <1>0, <2>0, <3>1 DEF OneHome, OnDisk, GitResets, TypeOK
    <3>3. OnDisk(t)
      BY Zenon, <3>1, <3>2 DEF GitResets, OnDisk, TypeOK
    <3> QED
      BY Zenon, <1>3, <2>2, <3>3 DEF resetWorktree, cleanWorktree
  <2>3. CASE ResetFails(s) \/ CleanFails(s)
    BY Zenon, <1>4, <2>0, <2>3 DEF ResetFails, CleanFails, Discards
  <2>4. CASE AcquireFresh(s)
    <3>1. hand[s] = {} /\ Makes(s) /\ UNCHANGED repos
      BY Zenon, <2>0, <2>4 DEF AcquireFresh, createFreshWorktree, Makes, HandsCounted, Empty
    <3> QED
      BY Zenon, <1>5, <2>0, <3>1
  <2>5. CASE Use(s)
    <3>1. OnDisk(t)
      BY Zenon, <2>5 DEF Use, OnDisk, TypeOK
    <3> QED
      BY Zenon, <1>3, <2>5, <3>1 DEF Use
  <2>6. CASE Return(s)
    BY Zenon, <1>8, <2>0, <2>6 DEF Return, Single, Pooled
  <2>7. CASE ReleaseClosed(s)
    BY Zenon, <1>1, <2>7 DEF ReleaseClosed
  <2> QED
    BY Zenon, <1>7, <1>9, <2>0, <2>1, <2>2, <2>3, <2>4, <2>5, <2>6, <2>7 DEF SessionStep
<1>10. ASSUME NEW k \in Keepers, KeeperStep(k) PROVE Somewhere(t)'
  <2>0. k \in Callers
    BY Zenon, <1>0
  <2> USE DEF At, Advance, Out
  <2>1. CASE \/ Warm(k) \/ Drain(k) \/ CleanupStale(k) \/ Need(k) \/ WarmSkips(k) \/ CopyRepos(k)
             \/ getOrCreateRepoPool(k, "warm", "count") \/ getOrCreateRepoPool(k, "drain", "take")
    BY Zenon, <1>3, <1>fails, <2>1 DEF Warm, Drain, CleanupStale, Enter, Need, WarmSkips, CopyRepos,
       getOrCreateRepoPool, OnDisk
  <2>2. CASE WarmFresh(k)
    <3>1. hand[k] = {} /\ Makes(k) /\ UNCHANGED repos
      BY Zenon, <2>0, <2>2 DEF WarmFresh, createFreshWorktree, Makes, HandsCounted, Empty
    <3> QED
      BY Zenon, <1>5, <2>0, <3>1
  <2>3. CASE WarmPuts(k)
    BY Zenon, <1>8, <2>0, <2>3 DEF WarmPuts, Single, Pooled
  <2>4. CASE DrainTakes(k) \/ StaleTakes(k)
    <3>1. rp[k] \in Pools /\ hand[k] = {}
      BY Zenon, <2>0, <2>4 DEF DrainTakes, StaleTakes, TypeOK, Pooled, HandsCounted, Empty
    <3>2. Len(idle[rp[k]]) \in Nat
      BY <1>0, <3>1
    <3>3. PICK n \in 0 .. Len(idle[rp[k]]) : Take(k, rp[k], n)
      BY <2>4, <3>2 DEF DrainTakes, StaleTakes
    <3>4. n \in Nat /\ n <= Len(idle[rp[k]])
      BY <3>2
    <3> QED
      BY Zenon, <1>6, <2>0, <3>1, <3>3, <3>4
  <2>5. CASE DestroyTaken(k)
    BY Zenon, <1>4, <2>0, <2>5 DEF DestroyTaken, Discards
  <2> QED
    BY Zenon, <1>10, <2>1, <2>2, <2>3, <2>4, <2>5 DEF KeeperStep
<1>11. ASSUME NEW c \in Callers, NoRepoRoot(c) PROVE Somewhere(t)'
  BY Zenon, <1>4, <1>11 DEF NoRepoRoot, Discards
<1>12. CASE Removed
  <2>1. OnDisk(t)
    BY Zenon, <1>12 DEF Removed, OnDisk, TypeOK
  <2> QED
    BY Zenon, <1>3, <1>12, <2>1 DEF Removed
<1>13. CASE Close \/ CloseTakes \/ CloseEmpties
  BY Zenon, <1>1, <1>13 DEF Close, CloseTakes, CloseEmpties
<1>14. CASE UNCHANGED vars
  BY Zenon, <1>3, <1>14 DEF vars, OnDisk
<1> QED
  BY Zenon, <1>9, <1>10, <1>11, <1>12, <1>13, <1>14 DEF Next

\* Until Close no worktree on disk is lost: it is with a call, or idle in the
\* map's repoPool, unless creating or removing it failed.
THEOREM NothingLost == Spec => []NoneLost
<1>1. Init => OnePool /\ HandsCounted /\ NoneLost
  <2>1. Init => OnePool
    BY DEF Init, OnePool
  <2>2. Init => HandsCounted
    BY Zenon DEF Init, HandsCounted, Single
  <2>3. Init => NoneLost
    BY Zenon DEF Init, NoneLost
  <2> QED
    BY Zenon, <2>1, <2>2, <2>3
<1> QED
  BY <1>1, OnePoolStep, HandsStep, NoneLostStep, TypeCorrect, NeverShared, PTL DEF Spec

-----------------------------------------------------------------------------
(* The R&D cycle: types. *)

\* The breaker's operations return breakers.
LEMMA BreakerTypes ==
    ASSUME NEW b \in Breakers
    PROVE  /\ NewBreaker \in Breakers /\ Admitted(b) \in Breakers
           /\ NoProgress(b) \in Breakers /\ [b EXCEPT !.cooled = TRUE] \in Breakers
<1>1. NewBreaker \in Breakers
  BY Zenon DEF NewBreaker, Breakers
<1>2. Admitted(b) \in Breakers
  BY Zenon DEF Admitted, HalfOpen, Breakers
<1>3. NoProgress(b) \in Breakers
  BY DEF NoProgress, Breakers
<1>4. [b EXCEPT !.cooled = TRUE] \in Breakers
  BY Zenon DEF Breakers
<1> QED
  BY Zenon, <1>1, <1>2, <1>3, <1>4

\* The orchestrator starts with the types.
LEMMA CycleTypeInit == CycleInit => CycleTypeOK
<1> SUFFICES ASSUME CycleInit PROVE CycleTypeOK
  BY Zenon
<1>1. breaker \in [Orchs -> Breakers]
  BY Zenon DEF CycleInit, NewBreaker, Breakers
<1>2. history \in [Orchs -> Seq([cost : Costs, productive : BOOLEAN])]
  BY DEF CycleInit
<1>3. pc \in [Orchs -> Steps] /\ running \in [Orchs -> BOOLEAN] /\ stopped \in [Orchs -> BOOLEAN]
  BY Zenon DEF CycleInit, Steps
<1> QED
  <2>1. \A o \in Orchs : (running[o] <=> pc[o] \notin {"none", "started", "ended"}) /\ (o > orchState <=> pc[o] = "none")
    BY ConfigAssumption DEF CycleInit, Orchs
  <2>2. orchState \in 0..MaxStarts /\ cycleNum \in [Orchs -> Nat]
    BY ConfigAssumption DEF CycleInit
  <2>3. raced \in BOOLEAN
    BY Zenon DEF CycleInit
  <2> QED
    BY Zenon, <1>1, <1>2, <1>3, <2>1, <2>2, <2>3 DEF CycleTypeOK

\* A step of a running orchestrator to another of its steps keeps the types.
LEMMA CycleTypeMove ==
    ASSUME CycleTypeOK, NEW o \in Orchs, NEW l \in {"head", "result", "ralph"} \cup Stages,
           pc[o] \in {"head", "result", "ralph"} \cup Stages, pc' = [pc EXCEPT ![o] = l],
           UNCHANGED <<orchState, running, stopped, raced>>,
           cycleNum' \in [Orchs -> Nat], breaker' \in [Orchs -> Breakers],
           history' \in [Orchs -> Seq([cost : Costs, productive : BOOLEAN])]
    PROVE  CycleTypeOK'
<1>1. pc' \in [Orchs -> Steps]
  BY Zenon DEF CycleTypeOK, Steps
<1>2. ASSUME NEW p \in Orchs PROVE pc'[p] \notin {"none", "started", "ended"} <=> pc[p] \notin {"none", "started", "ended"}
  BY Zenon DEF CycleTypeOK, Stages
<1>3. ASSUME NEW p \in Orchs PROVE pc'[p] = "none" <=> pc[p] = "none"
  BY Zenon DEF CycleTypeOK, Stages
<1>4. ASSUME NEW p \in Orchs PROVE running'[p] <=> pc'[p] \notin {"none", "started", "ended"}
  BY Zenon, <1>2 DEF CycleTypeOK
<1>5. ASSUME NEW p \in Orchs PROVE p > orchState' <=> pc'[p] = "none"
  BY Zenon, <1>3 DEF CycleTypeOK
<1>6. raced' \in BOOLEAN
  BY Zenon DEF CycleTypeOK
<1>7. orchState' \in 0..MaxStarts /\ running' \in [Orchs -> BOOLEAN] /\ stopped' \in [Orchs -> BOOLEAN]
  BY Zenon DEF CycleTypeOK
<1> QED
  BY Zenon, <1>1, <1>4, <1>5, <1>6, <1>7 DEF CycleTypeOK

\* Every step of the tools, of Run and of a cycle keeps the types.
LEMMA CycleTypeStep == CycleTypeOK /\ [CycleNext]_cycleVars => CycleTypeOK'
<1> SUFFICES ASSUME CycleTypeOK, [CycleNext]_cycleVars PROVE CycleTypeOK'
  BY Zenon
<1> USE ConfigAssumption DEF Orchs
<1>1. CASE handlePerpetualStart
  <2>1. orchState + 1 \in Orchs /\ orchState' = orchState + 1
    BY <1>1 DEF handlePerpetualStart, CycleTypeOK
  <2>2. raced' \in BOOLEAN
    BY Zenon, <1>1 DEF handlePerpetualStart
  <2>3. pc' = [pc EXCEPT ![orchState + 1] = "started"] /\ pc' \in [Orchs -> Steps]
    BY Zenon, <1>1 DEF handlePerpetualStart, CycleTypeOK, Goto, Steps
  <2> QED
    <3>1. ASSUME NEW p \in Orchs PROVE p > orchState' <=> pc'[p] = "none"
      BY <2>1, <2>3 DEF CycleTypeOK
    <3>2. ASSUME NEW p \in Orchs PROVE running'[p] <=> pc'[p] \notin {"none", "started", "ended"}
      <4>1. running' = running
        BY Zenon, <1>1 DEF handlePerpetualStart
      <4>2. pc[orchState + 1] = "none"
        BY <2>1 DEF CycleTypeOK
      <4> QED
        BY Zenon, <2>1, <2>3, <4>1, <4>2 DEF CycleTypeOK
    <3>3. orchState' \in 0..MaxStarts /\ UNCHANGED <<running, stopped, cycleNum, breaker, history>>
      BY <1>1, <2>1 DEF handlePerpetualStart, cycle
    <3> QED
      BY Zenon, <2>2, <2>3, <3>1, <3>2, <3>3 DEF CycleTypeOK
<1>2. CASE handlePerpetualStop
  BY Zenon, <1>2 DEF handlePerpetualStop, CycleTypeOK, cycle, Running
<1>3. ASSUME NEW o \in Orchs, Orchestrator(o) PROVE CycleTypeOK'
  <2>1. CASE Run(o)
    BY Zenon, <2>1 DEF Run, CycleTypeOK, Goto, cycle, Steps
  <2>2. CASE Halted(o)
    BY Zenon, <2>2 DEF Halted, Returns, CycleTypeOK, Goto, cycle, Steps
  <2>3. CASE BeginCycle(o)
    <3>1. breaker' \in [Orchs -> Breakers]
      BY Zenon, <2>3, BreakerTypes DEF BeginCycle, CycleTypeOK
    <3>2. PICK l \in {"scan", "result"} : pc' = [pc EXCEPT ![o] = l]
      BY Zenon, <2>3 DEF BeginCycle, Goto
    <3>3. cycleNum' \in [Orchs -> Nat]
      BY <2>3 DEF BeginCycle, Counted, CycleTypeOK
    <3>4. pc[o] = "head" /\ UNCHANGED <<orchState, running, stopped, history, raced>>
      BY Zenon, <2>3 DEF BeginCycle
    <3>5. history' \in [Orchs -> Seq([cost : Costs, productive : BOOLEAN])]
      BY Zenon, <3>4 DEF CycleTypeOK
    <3> QED
      BY Zenon, <3>1, <3>2, <3>3, <3>4, <3>5, CycleTypeMove DEF Stages
  <2>4. CASE StageFails(o)
    <3>1. breaker' \in [Orchs -> Breakers]
      BY Zenon, <2>4, BreakerTypes DEF StageFails, CycleTypeOK
    <3>2. pc[o] \in Stages /\ pc' = [pc EXCEPT ![o] = "result"]
      BY Zenon, <2>4 DEF StageFails, Goto
    <3>3. UNCHANGED <<orchState, running, stopped, cycleNum, history, raced>>
      BY Zenon, <2>4 DEF StageFails
    <3>4. cycleNum' \in [Orchs -> Nat] /\ history' \in [Orchs -> Seq([cost : Costs, productive : BOOLEAN])]
      BY Zenon, <3>3 DEF CycleTypeOK
    <3> QED
      BY Zenon, <3>1, <3>2, <3>3, <3>4, CycleTypeMove
  <2>5. CASE Scanned(o) \/ Planned(o) \/ Synthesized(o)
    <3>1. pc[o] \in Stages
      BY Zenon, <2>5 DEF Scanned, Planned, Synthesized, Stages
    <3>2. PICK l \in {"ralph"} \cup Stages : pc' = [pc EXCEPT ![o] = l]
      BY Zenon, <2>5 DEF Scanned, Planned, Synthesized, Goto, Stages
    <3>3. UNCHANGED <<orchState, running, stopped, cycleNum, breaker, history, raced>>
      BY Zenon, <2>5 DEF Scanned, Planned, Synthesized, cycle
    <3>4. /\ cycleNum' \in [Orchs -> Nat] /\ breaker' \in [Orchs -> Breakers]
          /\ history' \in [Orchs -> Seq([cost : Costs, productive : BOOLEAN])]
      BY Zenon, <3>3 DEF CycleTypeOK
    <3> QED
      BY Zenon, <3>1, <3>2, <3>3, <3>4, CycleTypeMove
  <2>6. ASSUME NEW cost \in Costs, RalphFails(o, cost) \/ RalphSucceeds(o, cost) PROVE CycleTypeOK'
    <3>1. breaker' \in [Orchs -> Breakers]
      <4>1. CASE RalphFails(o, cost)
        BY Zenon, <4>1, BreakerTypes DEF RalphFails, RalphFailed, CycleTypeOK
      <4>2. CASE RalphSucceeds(o, cost)
        <5>1. NewBreaker \in Breakers
          BY Zenon DEF NewBreaker, Breakers
        <5> QED
          BY Zenon, <4>2, <5>1 DEF RalphSucceeds, Progress, CycleTypeOK
      <4> QED
        BY Zenon, <2>6, <4>1, <4>2
    <3>2. history' \in [Orchs -> Seq([cost : Costs, productive : BOOLEAN])]
      <4>1. PICK e \in [cost : Costs, productive : BOOLEAN] : history' = [history EXCEPT ![o] = Append(@, e)]
        BY Zenon, <2>6 DEF RalphFails, RalphSucceeds, Record
      <4>2. history[o] \in Seq([cost : Costs, productive : BOOLEAN])
        BY Zenon DEF CycleTypeOK
      <4>3. Append(history[o], e) \in Seq([cost : Costs, productive : BOOLEAN])
        BY <4>2
      <4> QED
        BY Zenon, <4>1, <4>3 DEF CycleTypeOK
    <3>3. pc[o] = "ralph" /\ pc' = [pc EXCEPT ![o] = "result"]
      BY Zenon, <2>6 DEF RalphFails, RalphSucceeds, Goto
    <3>4. UNCHANGED <<orchState, running, stopped, cycleNum, raced>>
      BY Zenon, <2>6 DEF RalphFails, RalphSucceeds
    <3>5. cycleNum' \in [Orchs -> Nat]
      BY Zenon, <3>4 DEF CycleTypeOK
    <3> QED
      BY Zenon, <3>1, <3>2, <3>3, <3>4, <3>5, CycleTypeMove
  <2>7. CASE EndCycle(o)
    <3>1. CASE pc' = [pc EXCEPT ![o] = "head"] /\ UNCHANGED running
      <4>1. pc[o] = "result" /\ UNCHANGED <<orchState, running, stopped, cycleNum, breaker, history, raced>>
        BY Zenon, <2>7, <3>1 DEF EndCycle
      <4>2. /\ cycleNum' \in [Orchs -> Nat] /\ breaker' \in [Orchs -> Breakers]
            /\ history' \in [Orchs -> Seq([cost : Costs, productive : BOOLEAN])]
        BY Zenon, <4>1 DEF CycleTypeOK
      <4> QED
        BY Zenon, <3>1, <4>1, <4>2, CycleTypeMove
    <3>2. CASE Returns(o)
      <4>1. pc[o] = "result" /\ UNCHANGED <<orchState, stopped, cycleNum, breaker, history, raced>>
        BY Zenon, <2>7 DEF EndCycle
      <4> QED
        BY Zenon, <3>2, <4>1 DEF Returns, CycleTypeOK, Goto, Steps
    <3> QED
      BY Zenon, <2>7, <3>1, <3>2 DEF EndCycle, Goto
  <2> QED
    BY Zenon, <1>3, <2>1, <2>2, <2>3, <2>4, <2>5, <2>6, <2>7 DEF Orchestrator
<1>4. ASSUME NEW o \in Orchs, Cooldown(o) PROVE CycleTypeOK'
  <2>1. breaker' \in [Orchs -> Breakers]
    BY Zenon, <1>4, BreakerTypes DEF Cooldown, CycleTypeOK
  <2> QED
    BY Zenon, <1>4, <2>1 DEF Cooldown, CycleTypeOK
<1>5. CASE UNCHANGED cycleVars
  BY Zenon, <1>5 DEF CycleTypeOK, cycleVars, cycle
<1> QED
  BY Zenon, <1>1, <1>2, <1>3, <1>4, <1>5 DEF CycleNext

\* CycleTypeCorrect: the orchestrators keep their types, and Running() is true
\* exactly from the first step of Run to its last.
THEOREM CycleTypeCorrect == CycleSpec => []CycleTypeOK
BY CycleTypeInit, CycleTypeStep, PTL DEF CycleSpec

-----------------------------------------------------------------------------
(* The breaker. *)

\* A breaker is closed exactly while its count is below the threshold.
Agrees(b) == b.state = "closed" <=> b.noProgress < NoProgressThreshold

\* What a step may do to the breaker of an orchestrator.
LEMMA BreakerSteps ==
    ASSUME CycleTypeOK, [CycleNext]_cycleVars, NEW o \in Orchs
    PROVE  breaker'[o] \in {breaker[o], Admitted(breaker[o]), NoProgress(breaker[o]), NewBreaker,
                            [breaker[o] EXCEPT !.cooled = TRUE]}
<1>1. CASE UNCHANGED breaker
  BY Zenon, <1>1
<1>2. ASSUME NEW q \in Orchs, BeginCycle(q) PROVE breaker'[o] \in {breaker[o], Admitted(breaker[o])}
  BY Zenon, <1>2 DEF BeginCycle, CycleTypeOK
<1>3. ASSUME NEW q \in Orchs, StageFails(q) PROVE breaker'[o] \in {breaker[o], NoProgress(breaker[o])}
  BY Zenon, <1>3 DEF StageFails, CycleTypeOK
<1>4. ASSUME NEW q \in Orchs, NEW cost \in Costs, RalphFails(q, cost)
      PROVE  breaker'[o] \in {breaker[o], NoProgress(breaker[o])}
  BY Zenon, <1>4 DEF RalphFails, RalphFailed, CycleTypeOK
<1>5. ASSUME NEW q \in Orchs, NEW cost \in Costs, RalphSucceeds(q, cost)
      PROVE  breaker'[o] \in {breaker[o], NewBreaker}
  BY Zenon, <1>5 DEF RalphSucceeds, Progress, CycleTypeOK
<1>6. ASSUME NEW q \in Orchs, Cooldown(q)
      PROVE  breaker'[o] \in {breaker[o], [breaker[o] EXCEPT !.cooled = TRUE]}
  BY Zenon, <1>6 DEF Cooldown, CycleTypeOK
<1> QED
  BY Zenon, <1>1, <1>2, <1>3, <1>4, <1>5, <1>6
  DEF CycleNext, Orchestrator, handlePerpetualStart, handlePerpetualStop, Run, Halted, Scanned, Planned, Synthesized,
      EndCycle, cycleVars, cycle

\* An operation of the breaker keeps its state and its count in agreement.
LEMMA BreakerAgrees ==
    ASSUME NEW b \in Breakers, Agrees(b)
    PROVE  /\ Agrees(Admitted(b)) /\ Agrees(NoProgress(b)) /\ Agrees(NewBreaker)
           /\ Agrees([b EXCEPT !.cooled = TRUE])
<1> USE ConfigAssumption DEF Agrees, Breakers
<1>1. Agrees(Admitted(b))
  BY Zenon DEF Admitted, HalfOpen
<1>2. Agrees(NoProgress(b))
  BY DEF NoProgress
<1>3. Agrees(NewBreaker)
  BY DEF NewBreaker
<1>4. Agrees([b EXCEPT !.cooled = TRUE])
  BY Zenon
<1> QED
  BY Zenon, <1>1, <1>2, <1>3, <1>4

\* FailedProbeReopens: a breaker is closed exactly while its count is below the
\* threshold, so one failure of a probe cycle opens it again.
THEOREM FailedProbeReopens == CycleSpec => []ProbeReopens
<1>1. CycleInit => ProbeReopens
  BY ConfigAssumption DEF CycleInit, ProbeReopens, NewBreaker
<1>2. CycleTypeOK /\ ProbeReopens /\ [CycleNext]_cycleVars => ProbeReopens'
  <2> SUFFICES ASSUME CycleTypeOK, ProbeReopens, [CycleNext]_cycleVars, NEW o \in Orchs
               PROVE  Agrees(breaker'[o])
    BY Zenon DEF ProbeReopens, Agrees
  <2>1. breaker[o] \in Breakers /\ Agrees(breaker[o])
    BY Zenon DEF CycleTypeOK, ProbeReopens, Agrees
  <2> QED
    BY Zenon, <2>1, BreakerSteps, BreakerAgrees
<1> QED
  BY <1>1, <1>2, CycleTypeCorrect, PTL DEF CycleSpec

-----------------------------------------------------------------------------
(* One orchestrator. *)

\* What a step other than a start does: it moves at most one orchestrator that
\* has been started and has not ended, which may write its own spec file.
LEMMA RunSteps ==
    ASSUME CycleTypeOK, [CycleNext]_cycleVars, ~handlePerpetualStart
    PROVE  /\ UNCHANGED <<orchState, raced>>
           /\ \/ UNCHANGED <<pc, cycleNum, specs>>
              \/ \E o \in Orchs :
                    /\ pc[o] \notin {"none", "ended"}
                    /\ \A p \in Orchs \ {o} : pc'[p] = pc[p] /\ cycleNum'[p] = cycleNum[p]
                    /\ \/ pc'[o] # "ralph" /\ UNCHANGED specs
                       \/ /\ cycleNum' = cycleNum /\ pc' = [pc EXCEPT ![o] = "ralph"]
                          /\ specs' = [n \in DOMAIN specs \cup {cycleNum[o]} |->
                                         IF n = cycleNum[o] THEN o ELSE specs[n]]
<1> DEFINE Stepped(o) ==
             /\ pc[o] \notin {"none", "ended"}
             /\ \A p \in Orchs \ {o} : pc'[p] = pc[p] /\ cycleNum'[p] = cycleNum[p]
             /\ \/ pc'[o] # "ralph" /\ UNCHANGED specs
                \/ /\ cycleNum' = cycleNum /\ pc' = [pc EXCEPT ![o] = "ralph"]
                   /\ specs' = [n \in DOMAIN specs \cup {cycleNum[o]} |->
                                  IF n = cycleNum[o] THEN o ELSE specs[n]]
<1>1. ASSUME NEW o \in Orchs, Orchestrator(o) PROVE Stepped(o) /\ UNCHANGED <<orchState, raced>>
  <2> USE DEF CycleTypeOK, Goto, cycle
  <2>1. CASE Run(o)
    BY Zenon, <2>1 DEF Run
  <2>2. CASE Halted(o)
    BY Zenon, <2>2 DEF Halted, Returns
  <2>3. CASE BeginCycle(o)
    BY Zenon, <2>3 DEF BeginCycle
  <2>4. CASE StageFails(o)
    BY Zenon, <2>4 DEF StageFails, Stages
  <2>5. CASE Scanned(o) \/ Planned(o)
    BY Zenon, <2>5 DEF Scanned, Planned
  <2>6. CASE Synthesized(o)
    BY Zenon, <2>6 DEF Synthesized
  <2>7. ASSUME NEW cost \in Costs, RalphFails(o, cost) \/ RalphSucceeds(o, cost)
        PROVE  Stepped(o) /\ UNCHANGED <<orchState, raced>>
    BY Zenon, <2>7 DEF RalphFails, RalphSucceeds
  <2>8. CASE EndCycle(o)
    BY Zenon, <2>8 DEF EndCycle, Returns
  <2> QED
    BY Zenon, <1>1, <2>1, <2>2, <2>3, <2>4, <2>5, <2>6, <2>7, <2>8 DEF Orchestrator
<1>2. ASSUME NEW o \in Orchs, Cooldown(o) PROVE UNCHANGED <<orchState, raced, pc, cycleNum, specs>>
  BY Zenon, <1>2 DEF Cooldown
<1>3. CASE handlePerpetualStop
  BY Zenon, <1>3 DEF handlePerpetualStop, cycle
<1>4. CASE UNCHANGED cycleVars
  BY Zenon, <1>4 DEF cycleVars, cycle
<1> QED
  BY Zenon, <1>1, <1>2, <1>3, <1>4 DEF CycleNext

\* Every step keeps the orchestrators apart until a start has raced.
LEMMA OneStep == CycleTypeOK /\ OthersEnded /\ OwnSpec /\ [CycleNext]_cycleVars => OthersEnded' /\ OwnSpec'
<1> SUFFICES ASSUME CycleTypeOK, OthersEnded, OwnSpec, [CycleNext]_cycleVars, ~raced'
             PROVE  /\ \A o \in Orchs : o < orchState' => pc'[o] = "ended"
                    /\ \A o \in Orchs : pc'[o] = "ralph" => specs'[cycleNum'[o]] = o
  BY Zenon DEF OthersEnded, OwnSpec
<1>1. CASE handlePerpetualStart
  <2>1. ~raced /\ (orchState = 0 \/ pc[orchState] # "started") /\ ~Running /\ orchState < MaxStarts
    BY Zenon, <1>1 DEF handlePerpetualStart
  <2>2. orchState' = orchState + 1 /\ pc' = [pc EXCEPT ![orchState + 1] = "started"] /\ UNCHANGED <<specs, cycleNum>>
    BY Zenon, <1>1 DEF handlePerpetualStart, Goto, cycle
  <2>3. orchState # 0 => pc[orchState] = "ended"
    <3> SUFFICES ASSUME orchState # 0 PROVE pc[orchState] = "ended"
      BY Zenon
    <3>1. orchState \in Orchs /\ pc[orchState] # "none"
      BY ConfigAssumption DEF CycleTypeOK, Orchs
    <3>2. ~running[orchState]
      BY Zenon, <2>1 DEF Running
    <3> QED
      BY Zenon, <2>1, <3>1, <3>2 DEF CycleTypeOK
  <2> QED
    BY <2>1, <2>2, <2>3, ConfigAssumption DEF CycleTypeOK, Orchs, OthersEnded, OwnSpec
<1>2. CASE ~handlePerpetualStart
  <2>1. ~raced /\ UNCHANGED <<orchState, raced>>
    BY <1>2, RunSteps
  <2>2. \A o \in Orchs : pc[o] \notin {"none", "ended"} => o = orchState
    BY <2>1, ConfigAssumption DEF CycleTypeOK, Orchs, OthersEnded
  <2>3. CASE UNCHANGED <<pc, cycleNum, specs>>
    BY Zenon, <2>1, <2>3 DEF OthersEnded, OwnSpec
  <2>4. ASSUME NEW o \in Orchs,
               pc[o] \notin {"none", "ended"},
               \A p \in Orchs \ {o} : pc'[p] = pc[p] /\ cycleNum'[p] = cycleNum[p],
               \/ pc'[o] # "ralph" /\ UNCHANGED specs
               \/ /\ cycleNum' = cycleNum /\ pc' = [pc EXCEPT ![o] = "ralph"]
                  /\ specs' = [n \in DOMAIN specs \cup {cycleNum[o]} |-> IF n = cycleNum[o] THEN o ELSE specs[n]]
        PROVE  /\ \A p \in Orchs : p < orchState' => pc'[p] = "ended"
               /\ \A p \in Orchs : pc'[p] = "ralph" => specs'[cycleNum'[p]] = p
    <3>1. o = orchState
      BY Zenon, <2>2, <2>4
    <3>2. \A p \in Orchs \ {o} : pc[p] \in {"none", "ended"}
      BY Zenon, <2>2, <3>1
    <3>3. \A p \in Orchs : p < orchState' => pc'[p] = "ended"
      BY Zenon, <2>1, <2>4, <3>1, ConfigAssumption DEF OthersEnded, Orchs, CycleTypeOK
    <3>4. ASSUME NEW p \in Orchs, pc'[p] = "ralph" PROVE p = o
      BY Zenon, <2>4, <3>2, <3>4
    <3>5. pc'[o] = "ralph" => specs'[cycleNum'[o]] = o
      BY Zenon, <2>4
    <3> QED
      BY Zenon, <3>3, <3>4, <3>5
  <2> QED
    BY Zenon, <1>2, <2>3, <2>4, RunSteps
<1> QED
  BY Zenon, <1>1, <1>2

\* OneOrchestrator: unless a start came between an earlier start and the first
\* step of its goroutine, one orchestrator runs at most, on the spec it wrote.
THEOREM OneOrchestrator == CycleSpec => []OneUnlessRaced
<1>1. CycleInit => OthersEnded /\ OwnSpec
  BY ConfigAssumption DEF CycleInit, OthersEnded, OwnSpec, Orchs
<1>2. CycleTypeOK /\ OthersEnded /\ OwnSpec => OneUnlessRaced
  <2> SUFFICES ASSUME CycleTypeOK, OthersEnded, OwnSpec, ~raced
               PROVE  Cardinality({ o \in Orchs : running[o] }) <= 1
    BY Zenon DEF OneUnlessRaced, OwnSpec
  <2>1. { o \in Orchs : running[o] } \subseteq {orchState}
    BY ConfigAssumption DEF CycleTypeOK, OthersEnded, Orchs
  <2>2. IsFiniteSet({orchState}) /\ Cardinality({orchState}) = 1
    BY Zenon, FS_Singleton
  <2>3. Cardinality({ o \in Orchs : running[o] }) <= Cardinality({orchState})
    BY Zenon, <2>1, <2>2, FS_Subset
  <2> QED
    BY Zenon, <2>2, <2>3
<1> QED
  BY <1>1, <1>2, OneStep, CycleTypeCorrect, PTL DEF CycleSpec

-----------------------------------------------------------------------------
(* The cap on failing ralph loops. *)

\* What the governor records of a cycle.
Entries == [cost : Costs, productive : BOOLEAN]

\* The positions of the failures at the end of a history.
Unproductive(h) == { i \in 1..Len(h) : \A j \in i..Len(h) : ~h[j].productive }

\* A streak of failures has a natural length.
LEMMA StreakNat ==
    ASSUME NEW h \in Seq(Entries)
    PROVE  IsFiniteSet(Unproductive(h)) /\ Streak(h) = Cardinality(Unproductive(h)) /\ Streak(h) \in Nat
<1>1. Len(h) \in Nat
  OBVIOUS
<1>2. IsFiniteSet(1..Len(h))
  BY <1>1, FS_Interval
<1>3. IsFiniteSet(Unproductive(h))
  BY Zenon, <1>2, FS_Subset DEF Unproductive
<1>4. Streak(h) = Cardinality(Unproductive(h))
  BY Zenon DEF Streak, Unproductive
<1> QED
  BY Zenon, <1>3, <1>4, FS_CardinalityType

\* One more entry lengthens the streak by one at most.
LEMMA StreakAppend ==
    ASSUME NEW h \in Seq(Entries), NEW e \in Entries
    PROVE  Streak(Append(h, e)) <= Streak(h) + 1
<1> DEFINE a == Append(h, e)
<1>1. a \in Seq(Entries) /\ Len(h) \in Nat /\ Len(a) = Len(h) + 1 /\ \A i \in 1..Len(h) : a[i] = h[i]
  OBVIOUS
<1>2. Unproductive(a) \subseteq Unproductive(h) \cup {Len(h) + 1}
  BY <1>1 DEF Unproductive
<1>3. Len(h) + 1 \notin Unproductive(h)
  BY <1>1 DEF Unproductive
<1>4. IsFiniteSet(Unproductive(h) \cup {Len(h) + 1})
      /\ Cardinality(Unproductive(h) \cup {Len(h) + 1}) = Cardinality(Unproductive(h)) + 1
  BY Zenon, <1>3, StreakNat, FS_AddElement
<1>5. Cardinality(Unproductive(a)) <= Cardinality(Unproductive(h) \cup {Len(h) + 1})
  BY Zenon, <1>2, <1>4, FS_Subset
<1>6. Streak(a) = Cardinality(Unproductive(a)) /\ Streak(h) = Cardinality(Unproductive(h))
  BY Zenon, <1>1, StreakNat
<1> QED
  BY Zenon, <1>4, <1>5, <1>6

\* A governor that does not halt leaves room for one more failure.
LEMMA StreakRoom ==
    ASSUME NEW h \in Seq(Entries), ~ShouldHalt(h)
    PROVE  Streak(h) < UnproductiveCap
<1>1. CASE h = <<>>
  <2>1. Unproductive(h) = {}
    BY <1>1 DEF Unproductive
  <2>2. Streak(h) = 0
    BY Zenon, <2>1, StreakNat, FS_EmptySet
  <2> QED
    BY <2>2, ConfigAssumption
<1>2. CASE h # <<>>
  <2>1. ~(Streak(h) >= UnproductiveCap)
    BY Zenon, <1>2 DEF ShouldHalt
  <2> QED
    BY <2>1, StreakNat, ConfigAssumption
<1> QED
  BY Zenon, <1>1, <1>2

\* The places of a cycle that has passed the governor.
Busy == Stages \cup {"ralph"}

\* What a step does to the history of an orchestrator, and how a cycle begins.
LEMMA HistorySteps ==
    ASSUME CycleTypeOK, [CycleNext]_cycleVars, NEW o \in Orchs
    PROVE  \/ /\ history'[o] = history[o]
              /\ pc'[o] \in Busy => pc[o] \in Busy \/ ~ShouldHalt(history[o])
           \/ /\ pc[o] = "ralph" /\ pc'[o] = "result"
              /\ \E e \in Entries : history'[o] = Append(history[o], e)
<1> DEFINE Kept(q) == history'[q] = history[q] /\ (pc'[q] \in Busy => pc[q] \in Busy \/ ~ShouldHalt(history[q]))
<1> DEFINE Grown(q) == /\ pc[q] = "ralph" /\ pc'[q] = "result"
                       /\ \E e \in Entries : history'[q] = Append(history[q], e)
<1> USE DEF Busy, Stages
<1>1. CASE handlePerpetualStart
  BY Zenon, <1>1 DEF handlePerpetualStart, Goto, cycle, CycleTypeOK
<1>2. CASE handlePerpetualStop
  BY Zenon, <1>2 DEF handlePerpetualStop, cycle
<1>3. ASSUME NEW q \in Orchs, Orchestrator(q) PROVE Kept(o) \/ Grown(o)
  <2>1. CASE Run(q) \/ Halted(q) \/ EndCycle(q)
    BY Zenon, <2>1 DEF Run, Halted, EndCycle, Returns, Goto, cycle, CycleTypeOK
  <2>2. CASE BeginCycle(q)
    <3>1. history' = history /\ (pc' = [pc EXCEPT ![q] = "result"] \/ (pc' = [pc EXCEPT ![q] = "scan"] /\ ~ShouldHalt(history[q])))
      BY Zenon, <2>2 DEF BeginCycle, Goto
    <3> QED
      BY Zenon, <3>1 DEF CycleTypeOK
  <2>3. CASE StageFails(q)
    BY Zenon, <2>3 DEF StageFails, Goto, CycleTypeOK
  <2>4. CASE Scanned(q) \/ Planned(q) \/ Synthesized(q)
    BY Zenon, <2>4 DEF Scanned, Planned, Synthesized, Goto, cycle, CycleTypeOK
  <2>5. ASSUME NEW cost \in Costs, RalphFails(q, cost) \/ RalphSucceeds(q, cost) PROVE Kept(o) \/ Grown(o)
    <3>1. PICK e \in Entries : history' = [history EXCEPT ![q] = Append(@, e)]
      BY Zenon, <2>5 DEF RalphFails, RalphSucceeds, Record, Entries
    <3>2. pc[q] = "ralph" /\ pc' = [pc EXCEPT ![q] = "result"]
      BY Zenon, <2>5 DEF RalphFails, RalphSucceeds, Goto
    <3>3. CASE o = q
      <4>1. history'[o] = Append(history[o], e) /\ pc[o] = "ralph" /\ pc'[o] = "result"
        BY Zenon, <3>1, <3>2, <3>3 DEF CycleTypeOK
      <4> QED
        BY Zenon, <4>1
    <3>4. CASE o # q
      <4>1. history'[o] = history[o] /\ pc'[o] = pc[o]
        BY Zenon, <3>1, <3>2, <3>4 DEF CycleTypeOK
      <4> QED
        BY Zenon, <4>1
    <3> QED
      BY Zenon, <3>3, <3>4
  <2> QED
    BY Zenon, <1>3, <2>1, <2>2, <2>3, <2>4, <2>5 DEF Orchestrator
<1>4. ASSUME NEW q \in Orchs, Cooldown(q) PROVE Kept(o)
  BY Zenon, <1>4 DEF Cooldown
<1>5. CASE UNCHANGED cycleVars
  BY Zenon, <1>5 DEF cycleVars, cycle
<1> QED
  BY Zenon, <1>1, <1>2, <1>3, <1>4, <1>5 DEF CycleNext

\* Every step keeps the streak of failures and the count of Run within the cap.
LEMMA CapStep == CycleTypeOK /\ RoomToFail /\ FailuresCapped /\ [CycleNext]_cycleVars => RoomToFail' /\ FailuresCapped'
<1> SUFFICES ASSUME CycleTypeOK, RoomToFail, FailuresCapped, [CycleNext]_cycleVars, NEW o \in Orchs
             PROVE  (pc'[o] \in Busy => Streak(history'[o]) < UnproductiveCap) /\ Streak(history'[o]) <= UnproductiveCap
  BY Zenon DEF RoomToFail, FailuresCapped, Busy
<1>1. history[o] \in Seq(Entries) /\ Streak(history[o]) <= UnproductiveCap
      /\ (pc[o] \in Busy => Streak(history[o]) < UnproductiveCap)
  BY Zenon DEF CycleTypeOK, RoomToFail, FailuresCapped, Busy, Entries
<1>2. CASE history'[o] = history[o] /\ (pc'[o] \in Busy => pc[o] \in Busy \/ ~ShouldHalt(history[o]))
  BY Zenon, <1>1, <1>2, StreakRoom
<1>3. CASE pc[o] = "ralph" /\ pc'[o] = "result" /\ \E e \in Entries : history'[o] = Append(history[o], e)
  <2>1. PICK e \in Entries : history'[o] = Append(history[o], e)
    BY Zenon, <1>3
  <2>2. Streak(history'[o]) <= Streak(history[o]) + 1
    BY Zenon, <1>1, <2>1, StreakAppend
  <2>3. Streak(history[o]) < UnproductiveCap /\ pc'[o] \notin Busy
    BY Zenon, <1>1, <1>3 DEF Busy, Stages
  <2>4. Append(history[o], e) \in Seq(Entries)
    BY <1>1
  <2>5. Streak(history[o]) \in Nat
    BY Zenon, <1>1, StreakNat
  <2>6. Streak(history'[o]) \in Nat
    BY Zenon, <2>1, <2>4, StreakNat
  <2> QED
    BY <2>2, <2>3, <2>5, <2>6, ConfigAssumption
<1> QED
  BY Zenon, <1>2, <1>3, HistorySteps

\* FailuresStopped: whatever failing scans and plans, cooldowns and probes come
\* between, no more than UnproductiveCap ralph loops in a row fail.
THEOREM FailuresStopped == CycleSpec => []FailuresCapped
<1>1. CycleInit => RoomToFail /\ FailuresCapped
  <2>1. Unproductive(<<>>) = {} /\ <<>> \in Seq(Entries)
    BY DEF Unproductive
  <2>2. Streak(<<>>) = 0
    BY Zenon, <2>1, StreakNat, FS_EmptySet
  <2> QED
    BY <2>2, ConfigAssumption DEF CycleInit, RoomToFail, FailuresCapped
<1> QED
  BY <1>1, CapStep, CycleTypeCorrect, PTL DEF CycleSpec

=============================================================================
