---------------------------- MODULE WorktreePool ----------------------------
(***************************************************************************)
(* worktree.WorktreePool for one repository: sessions acquire and release  *)
(* git worktrees, keepers warm, drain and clean up the pool, and Close     *)
(* ends it.  git and the filesystem are steps that may fail, taken outside *)
(* the locks as in the code.                                               *)
(*                                                                         *)
(* Close replaces the map of repoPools, so that a call it overtakes may    *)
(* hold the old repoPool or make a new one: there are two of them.         *)
(***************************************************************************)
EXTENDS Integers, Sequences, FiniteSets, Functions

CONSTANTS Trees,     \* worktrees, each created once
          Sessions, Keepers,
          PoolSize   \* poolSize

ASSUME PoolAssumption == PoolSize \in Nat \ {0} /\ Sessions \cap Keepers = {}

VARIABLES
    closed,  \* wp.closed
    close,   \* where Close is
    repos,   \* the repoPool of the map, 0 for none
    idle,    \* the idle worktrees of each repoPool
    disk,    \* what each worktree is on disk; "left": removing or creating it failed
    hand,    \* the worktrees in the hands of each call
    at,      \* where each session and each keeper is
    rp,      \* the repoPool the call works on
    need     \* how many worktrees Warm has still to create

call == <<at, rp, need>>

vars == <<closed, close, repos, idle, disk, hand, call>>

Pools == 1 .. 2

Callers == Sessions \cup Keepers

Init ==
    /\ closed = FALSE /\ close = "open"
    /\ repos = 0
    /\ idle = [p \in Pools |-> <<>>]
    /\ disk = [t \in Trees |-> "new"]
    /\ hand = [c \in Callers |-> {}]
    /\ at = [c \in Callers |-> "out"]
    /\ rp = [c \in Callers |-> 0]
    /\ need = [c \in Callers |-> 0]

At(c, from) == at[c] = from

Advance(c, to) == at' = [at EXCEPT ![c] = to] /\ UNCHANGED <<rp, need>>

Out(c) == at' = [at EXCEPT ![c] = "out"] /\ rp' = [rp EXCEPT ![c] = 0] /\ need' = [need EXCEPT ![c] = 0]

\* destroyWorktree; that os.RemoveAll fails is ignored, and leaves the directory.
Destroy(ts) ==
    \E failed \in SUBSET { t \in ts : disk[t] # "removed" } :
        disk' = [t \in Trees |-> IF t \in failed THEN "left"
                                 ELSE IF t \in ts THEN "gone" ELSE disk[t]]

-----------------------------------------------------------------------------
(* What every call does first. *)

Enter(c, to) ==
    /\ ~closed
    /\ Advance(c, to)
    /\ UNCHANGED <<closed, close, repos, idle, disk, hand>>

\* getOrCreateRepoPool, once the repository's root is known.
getOrCreateRepoPool(c, from, to) ==
    /\ At(c, from)
    /\ repos' = IF repos # 0 THEN repos ELSE IF close \in {"open", "marked"} THEN 1 ELSE 2
    /\ rp' = [rp EXCEPT ![c] = repos']
    /\ at' = [at EXCEPT ![c] = to]
    /\ UNCHANGED <<closed, close, idle, disk, hand, need>>

\* git does not know the repository.
NoRepoRoot(c) ==
    /\ at[c] \in {"acquire", "release", "warm", "drain"}
    /\ Destroy(hand[c])
    /\ hand' = [hand EXCEPT ![c] = {}]
    /\ Out(c)
    /\ UNCHANGED <<closed, close, repos, idle>>

\* createFreshWorktree, for a caller that keeps the worktree in its hands.
createFreshWorktree(c, to) ==
    /\ \E t \in Trees :
           /\ disk[t] = "new"
           /\ disk' = [disk EXCEPT ![t] = "clean"]
           /\ hand' = [hand EXCEPT ![c] = {t}]
    /\ Advance(c, to)
    /\ UNCHANGED <<closed, close, repos, idle>>

\* It fails: git has made nothing, or fails or is killed half-way.
CreateFails ==
    \/ UNCHANGED disk
    \/ \E t \in Trees : disk[t] = "new" /\ disk' = [disk EXCEPT ![t] = "left"]

-----------------------------------------------------------------------------
(* Acquire. *)

Acquire(s) == At(s, "out") /\ Enter(s, "acquire")

\* Faulty variant: the entry is read, but stays in the pool.
Pop_Keeps(pool) == idle[pool]

Pop(pool) == SubSeq(idle[pool], 1, Len(idle[pool]) - 1)

AcquireIdle(s) ==
    /\ At(s, "pop") /\ idle[rp[s]] # <<>>
    /\ hand' = [hand EXCEPT ![s] = {idle[rp[s]][Len(idle[rp[s]])]}]
    /\ idle' = [idle EXCEPT ![rp[s]] = Pop(rp[s])]
    /\ Advance(s, "reset")
    /\ UNCHANGED <<closed, close, repos, disk>>

AcquireNone(s) ==
    /\ At(s, "pop") /\ idle[rp[s]] = <<>>
    /\ Advance(s, "create")
    /\ UNCHANGED <<closed, close, repos, idle, disk, hand>>

\* git reset and git clean in a worktree whose directory exists: what they return
\* is ignored, so a run that fails or is cut short leaves the worktree as it was.
GitResets(t) == disk[t] # "removed" /\ (UNCHANGED disk \/ disk' = [disk EXCEPT ![t] = "clean"])

resetWorktree(s) ==
    /\ At(s, "reset")
    /\ \E t \in hand[s] : GitResets(t)
    /\ Advance(s, "hold")
    /\ UNCHANGED <<closed, close, repos, idle, hand>>

ResetFails(s) ==
    /\ At(s, "reset")
    /\ \E t \in hand[s] : disk[t] = "removed"
    /\ Destroy(hand[s])
    /\ hand' = [hand EXCEPT ![s] = {}]
    /\ Advance(s, "create")
    /\ UNCHANGED <<closed, close, repos, idle>>

AcquireFresh(s) == At(s, "create") /\ createFreshWorktree(s, "hold")

AcquireFails(s) ==
    /\ At(s, "create")
    /\ CreateFails
    /\ Out(s)
    /\ UNCHANGED <<closed, close, repos, idle, hand>>

\* The session writes to its worktree.
Use(s) ==
    /\ At(s, "hold")
    /\ \E t \in hand[s] : disk[t] = "clean" /\ disk' = [disk EXCEPT ![t] = "dirty"]
    /\ UNCHANGED <<closed, close, repos, idle, hand, call>>

\* Somebody removes the directory of a worktree the pool knows.
Removed ==
    /\ \E t \in Trees : disk[t] \in {"clean", "dirty"} /\ disk' = [disk EXCEPT ![t] = "removed"]
    /\ UNCHANGED <<closed, close, repos, idle, hand, call>>

-----------------------------------------------------------------------------
(* Release. *)

Release(s) == At(s, "hold") /\ Enter(s, "release")

\* Release on a closed pool leaves the worktree on disk.
ReleaseClosed(s) ==
    /\ At(s, "hold") /\ closed
    /\ hand' = [hand EXCEPT ![s] = {}]
    /\ Out(s)
    /\ UNCHANGED <<closed, close, repos, idle, disk>>

cleanWorktree(s) ==
    /\ At(s, "clean")
    /\ \E t \in hand[s] : GitResets(t)
    /\ Advance(s, "return")
    /\ UNCHANGED <<closed, close, repos, idle, hand>>

CleanFails(s) ==
    /\ At(s, "clean")
    /\ \E t \in hand[s] : disk[t] = "removed"
    /\ Destroy(hand[s])
    /\ hand' = [hand EXCEPT ![s] = {}]
    /\ Out(s)
    /\ UNCHANGED <<closed, close, repos, idle>>

Full(pool) == Len(idle[pool]) >= PoolSize

\* Faulty variant: a worktree the pool has no room for is forgotten.
PutBack_Forgets(c) ==
    \E t \in hand[c] :
        /\ hand' = [hand EXCEPT ![c] = {}]
        /\ UNCHANGED disk
        /\ idle' = IF Full(rp[c]) THEN idle ELSE [idle EXCEPT ![rp[c]] = Append(@, t)]

\* The critical section of Release and of Warm: back to the pool, or destroyed.
PutBack(c) ==
    \E t \in hand[c] :
        /\ hand' = [hand EXCEPT ![c] = {}]
        /\ IF Full(rp[c])
           THEN Destroy({t}) /\ UNCHANGED idle
           ELSE /\ idle' = [idle EXCEPT ![rp[c]] = Append(@, t)]
                /\ UNCHANGED disk

Return(s) ==
    /\ At(s, "return") /\ PutBack(s) /\ Out(s)
    /\ UNCHANGED <<closed, close, repos>>

-----------------------------------------------------------------------------
(* Warm and PreWarm, Drain, CleanupStale. *)

Warm(k) == At(k, "out") /\ Enter(k, "warm")

\* How many to create, from the number idle now: none when the caller asks for no
\* more than there are, or, like Size, for the number alone.
Need(k) ==
    /\ At(k, "count")
    /\ \/ Out(k)
       \/ /\ \E n \in 1 .. PoolSize - Len(idle[rp[k]]) : need' = [need EXCEPT ![k] = n]
          /\ at' = [at EXCEPT ![k] = "make"]
          /\ UNCHANGED rp
    /\ UNCHANGED <<closed, close, repos, idle, disk, hand>>

WarmFresh(k) == At(k, "make") /\ need[k] > 0 /\ createFreshWorktree(k, "put")

\* git fails, the context ends, or enough are made.
WarmSkips(k) ==
    /\ At(k, "make")
    /\ \/ need[k] > 0 /\ CreateFails /\ need' = [need EXCEPT ![k] = @ - 1] /\ UNCHANGED <<at, rp>>
       \/ Out(k) /\ UNCHANGED disk
    /\ UNCHANGED <<closed, close, repos, idle, hand>>

WarmPuts(k) ==
    /\ At(k, "put") /\ PutBack(k)
    /\ at' = [at EXCEPT ![k] = "make"]
    /\ need' = [need EXCEPT ![k] = @ - 1]
    /\ UNCHANGED <<closed, close, repos, rp>>

Drain(k) == At(k, "out") /\ Enter(k, "drain")

\* The keeper takes the first n entries, all of them for Drain.
Take(k, pool, n) ==
    /\ hand' = [hand EXCEPT ![k] = Range(SubSeq(idle[pool], 1, n))]
    /\ idle' = [idle EXCEPT ![pool] = SubSeq(@, n + 1, Len(@))]
    /\ Advance(k, "destroy")
    /\ UNCHANGED <<closed, close, repos, disk>>

DrainTakes(k) == At(k, "take") /\ Take(k, rp[k], Len(idle[rp[k]]))

\* Entries are appended as they are stamped: the stale ones come first.
CleanupStale(k) == At(k, "out") /\ Enter(k, "sweep")

\* The copy of the map, with or without a repoPool.
CopyRepos(k) ==
    /\ At(k, "sweep")
    /\ IF repos = 0
       THEN Out(k)
       ELSE at' = [at EXCEPT ![k] = "stale"] /\ rp' = [rp EXCEPT ![k] = repos] /\ UNCHANGED need
    /\ UNCHANGED <<closed, close, repos, idle, disk, hand>>

StaleTakes(k) == At(k, "stale") /\ \E n \in 0 .. Len(idle[rp[k]]) : Take(k, rp[k], n)

DestroyTaken(k) ==
    /\ At(k, "destroy")
    /\ Destroy(hand[k])
    /\ hand' = [hand EXCEPT ![k] = {}]
    /\ Out(k)
    /\ UNCHANGED <<closed, close, repos, idle>>

-----------------------------------------------------------------------------
(* Close: mark, take the map, then empty the pool it held. *)

Close ==
    /\ close = "open"
    /\ closed' = TRUE /\ close' = "marked"
    /\ UNCHANGED <<repos, idle, disk, hand, call>>

CloseTakes ==
    /\ close = "marked"
    /\ close' = IF repos = 0 THEN "done" ELSE "taken"
    /\ repos' = 0
    /\ UNCHANGED <<closed, idle, disk, hand, call>>

CloseEmpties ==
    /\ close = "taken"
    /\ Destroy(Range(idle[1]))
    /\ idle' = [idle EXCEPT ![1] = <<>>]
    /\ close' = "done"
    /\ UNCHANGED <<closed, repos, hand, call>>

-----------------------------------------------------------------------------

SessionStep(s) ==
    \/ Acquire(s) \/ getOrCreateRepoPool(s, "acquire", "pop") \/ AcquireIdle(s) \/ AcquireNone(s)
    \/ resetWorktree(s) \/ ResetFails(s) \/ AcquireFresh(s) \/ AcquireFails(s) \/ Use(s)
    \/ Release(s) \/ ReleaseClosed(s) \/ getOrCreateRepoPool(s, "release", "clean") \/ cleanWorktree(s) \/ CleanFails(s) \/ Return(s)

KeeperStep(k) ==
    \/ Warm(k) \/ getOrCreateRepoPool(k, "warm", "count") \/ Need(k) \/ WarmFresh(k) \/ WarmSkips(k) \/ WarmPuts(k)
    \/ Drain(k) \/ getOrCreateRepoPool(k, "drain", "take") \/ DrainTakes(k)
    \/ CleanupStale(k) \/ CopyRepos(k) \/ StaleTakes(k) \/ DestroyTaken(k)

Next ==
    \/ \E s \in Sessions : SessionStep(s)
    \/ \E k \in Keepers : KeeperStep(k)
    \/ \E c \in Callers : NoRepoRoot(c)
    \/ Removed
    \/ Close \/ CloseTakes \/ CloseEmpties

Spec == Init /\ [][Next]_vars

-----------------------------------------------------------------------------
(* Properties. *)

Points == {"out", "acquire", "pop", "reset", "create", "hold", "release", "clean", "return",
          "warm", "count", "make", "put", "drain", "take", "sweep", "stale", "destroy"}

\* The steps of a call that has its repoPool.
Pooled == {"pop", "reset", "clean", "return", "count", "make", "put", "take", "stale", "destroy"}

\* The variables have their types; a caller that works on a pool has one, and
\* Warm adds a worktree only while it needs one.
TypeOK ==
    /\ closed \in BOOLEAN /\ close \in {"open", "marked", "taken", "done"}
    /\ repos \in 0 .. 2
    /\ idle \in [Pools -> Seq(Trees)]
    /\ disk \in [Trees -> {"new", "clean", "dirty", "removed", "gone", "left"}]
    /\ hand \in [Callers -> SUBSET Trees]
    /\ at \in [Callers -> Points] /\ rp \in [Callers -> 0 .. 2] /\ need \in [Callers -> Nat]
    /\ \A c \in Callers : (at[c] \in Pooled => rp[c] \in Pools) /\ (at[c] = "put" => need[c] > 0)

\* OneHome: a worktree is idle once or in the hands of one call, never both, and
\* the pool has not destroyed it, or tried to: no two sessions share one, and
\* what Drain, CleanupStale, Close or a failed reset destroys is nobody else's.
OneHome ==
    /\ \A c, d \in Callers : c # d => hand[c] \cap hand[d] = {}
    /\ \A p, q \in Pools : \A i \in 1 .. Len(idle[p]), j \in 1 .. Len(idle[q]) :
           idle[p][i] = idle[q][j] => p = q /\ i = j
    /\ \A c \in Callers : \A t \in hand[c] :
           /\ \A p \in Pools : \A i \in 1 .. Len(idle[p]) : idle[p][i] # t
           /\ disk[t] \notin {"new", "gone", "left"}
    /\ \A p \in Pools : \A i \in 1 .. Len(idle[p]) : disk[idle[p][i]] \notin {"new", "gone", "left"}

\* IdleBounded: no repoPool ever holds more idle worktrees than poolSize, although
\* Warm counts them before it creates what it thinks is missing.
IdleBounded == \A p \in Pools : Len(idle[p]) <= PoolSize

\* NoneLost: until Close, a worktree on disk is in the hands of a call or idle in
\* the pool the map holds, whatever git returns on the way; only when creating or
\* removing it fails does the pool leave it behind.
NoneLost ==
    ~closed => \A t \in Trees : disk[t] \in {"clean", "dirty"} =>
        \/ \E c \in Callers : t \in hand[c]
        \/ repos # 0 /\ t \in Range(idle[repos])

\* HandedClean: "Acquire returns a clean worktree path for the given repo": the
\* step that hands a worktree to a session leaves it clean.
HandedClean ==
    [][\A s \in Sessions : ~At(s, "hold") /\ at'[s] = "hold" =>
           \A t \in hand'[s] : disk'[t] = "clean"]_vars

-----------------------------------------------------------------------------
(* What NoneLost rests on. *)

\* Until Close there is one repoPool, and every call that has one has that.
OnePool ==
    ~closed => close = "open" /\ repos # 2 /\ \A c \in Callers : rp[c] \in {0, repos}

\* The steps at which a call has no worktree, and those at which it has one.
Empty == {"out", "acquire", "pop", "create", "warm", "count", "make", "drain", "take", "sweep", "stale"}

Single == {"reset", "hold", "release", "clean", "return", "put"}

\* No call takes a worktree while it holds another.
HandsCounted ==
    \A c \in Callers :
        /\ at[c] \in Empty => hand[c] = {}
        /\ at[c] \in Single => \E t \in Trees : hand[c] = {t}

=============================================================================
