----------------------------- MODULE KeyedCache -----------------------------
(***************************************************************************)
(* resilience/cache.go, KeyedCache: an LRU cache with a TTL, whose         *)
(* GetOrFetch serializes the fetches of a key by a mutex per key.          *)
(*                                                                         *)
(* get, set, lockFor and Invalidate are atomic under c.mu; between them    *)
(* the callers interleave.  What is cached is abstracted to whether its    *)
(* TTL has passed.  The mutexes are objects: eviction drops a key's mutex  *)
(* from c.fetching while callers may hold it or wait for it.  fetchFn may  *)
(* panic; what wraps the caller recovers, and the process goes on.         *)
(***************************************************************************)
EXTENDS Integers, Sequences, FiniteSets

CONSTANTS Callers, Keys,
          MaxSize,  \* maxSize, as NewKeyedCache leaves it
          MaxCalls, \* bound: the calls of GetOrFetch that miss, and of Set
          Free      \* no caller

ASSUME SizeAssumption == MaxSize \in Nat \ {0} /\ MaxCalls \in Nat

ASSUME CallersAssumption == IsFiniteSet(Callers) /\ Free \notin Callers

VARIABLES
    entries,   \* c.entries: "absent", or whether the entry is fresh or expired
    order,     \* c.order, front first
    fetching,  \* c.fetching: the mutex of each key, 0 if none
    holder,    \* who holds each mutex made so far
    pc,        \* where each call of GetOrFetch is
    key, lock, \* its key and keyLock
    begun,     \* the calls that count for MaxCalls
    fetches,   \* history: the fetches of each key
    panics,    \* history: those of them that panicked
    losses,    \* history: how often each key lost a fresh entry
    evictions  \* history: how often set evicted each key

cache == <<entries, order, fetching>>
calls == <<pc, key, lock>>
history == <<fetches, panics, losses, evictions>>
vars == <<cache, holder, calls, begun, history>>

Zero == [k \in Keys |-> 0]

Init ==
    /\ entries = [k \in Keys |-> "absent"] /\ order = <<>>
    /\ fetching = Zero /\ holder = <<>>
    /\ pc = [c \in Callers |-> "idle"]
    /\ key \in { [c \in Callers |-> k] : k \in Keys }
    /\ lock = [c \in Callers |-> 0]
    /\ begun = 0 /\ fetches = Zero /\ panics = Zero /\ losses = Zero /\ evictions = Zero

Fresh(k) == entries[k] = "fresh"

MoveToFront(k) == <<k>> \o SelectSeq(order, LAMBDA x : x # k)

\* What is left of the order once set has made room for a new entry.
Kept == IF Len(order) < MaxSize THEN order ELSE SubSeq(order, 1, MaxSize - 1)

Evicted == { order[i] : i \in (Len(Kept) + 1)..Len(order) }

Plus(f, S) == [k \in Keys |-> IF k \in S THEN f[k] + 1 ELSE f[k]]

Loses(S) == losses' = Plus(losses, { k \in S : Fresh(k) })

set(k) ==
    /\ IF entries[k] # "absent"
       THEN /\ entries' = [entries EXCEPT ![k] = "fresh"]
            /\ order' = MoveToFront(k)
            /\ UNCHANGED <<fetching, losses, evictions>>
       ELSE /\ entries' = [x \in Keys |-> IF x = k THEN "fresh"
                                          ELSE IF x \in Evicted THEN "absent" ELSE entries[x]]
            /\ order' = <<k>> \o Kept
            /\ fetching' = [x \in Keys |-> IF x \in Evicted THEN 0 ELSE fetching[x]]
            /\ Loses(Evicted)
            /\ evictions' = Plus(evictions, Evicted)

-----------------------------------------------------------------------------
(* GetOrFetch. *)

\* get finds a fresh entry, which Get and GetOrFetch return.
Hit(k) ==
    /\ Fresh(k)
    /\ order' = MoveToFront(k)
    /\ UNCHANGED <<entries, fetching, holder, calls, begun, history>>

Begins == begun < MaxCalls /\ begun' = begun + 1

\* GetOrFetch misses, and goes on to the key's mutex.
Miss(c, k) ==
    /\ pc[c] = "idle" /\ ~Fresh(k)
    /\ Begins
    /\ key' = [key EXCEPT ![c] = k]
    /\ pc' = [pc EXCEPT ![c] = "lockFor"]
    /\ UNCHANGED <<cache, holder, lock, history>>

\* Faulty variant: every call makes a mutex of its own.
HasLock_Never(k) == FALSE

HasLock(k) == fetching[k] # 0

lockFor(c) ==
    /\ pc[c] = "lockFor"
    /\ IF HasLock(key[c])
       THEN /\ lock' = [lock EXCEPT ![c] = fetching[key[c]]]
            /\ UNCHANGED <<fetching, holder>>
       ELSE /\ holder' = Append(holder, Free)
            /\ fetching' = [fetching EXCEPT ![key[c]] = Len(holder) + 1]
            /\ lock' = [lock EXCEPT ![c] = Len(holder) + 1]
    /\ pc' = [pc EXCEPT ![c] = "lock"]
    /\ UNCHANGED <<entries, order, key, begun, history>>

\* keyLock is acquired, ...
Lock(c) ==
    /\ pc[c] = "lock" /\ holder[lock[c]] = Free
    /\ holder' = [holder EXCEPT ![lock[c]] = c]
    /\ pc' = [pc EXCEPT ![c] = "locked"]
    /\ UNCHANGED <<cache, key, lock, begun, history>>

Unlock(c) ==
    /\ holder' = [holder EXCEPT ![lock[c]] = Free]
    /\ pc' = [pc EXCEPT ![c] = "idle"]
    /\ lock' = [lock EXCEPT ![c] = 0]

\* ... the second get hits, ...
SecondHit(c) ==
    /\ pc[c] = "locked" /\ Fresh(key[c])
    /\ order' = MoveToFront(key[c])
    /\ Unlock(c)
    /\ UNCHANGED <<entries, fetching, key, begun, history>>

\* Faulty variant: the cache is not looked at again once the mutex is held.
SecondMiss_Unchecked(k) == TRUE

SecondMiss(k) == ~Fresh(k)

\* ... or misses, and fetchFn is called.
Fetch(c) ==
    /\ pc[c] = "locked" /\ SecondMiss(key[c])
    /\ fetches' = Plus(fetches, {key[c]})
    /\ pc' = [pc EXCEPT ![c] = "fetch"]
    /\ UNCHANGED <<cache, holder, key, lock, begun, panics, losses, evictions>>

\* fetchFn returns; set, and the deferred unlock.
FetchReturns(c) ==
    /\ pc[c] = "fetch"
    /\ set(key[c])
    /\ Unlock(c)
    /\ UNCHANGED <<key, begun, fetches, panics>>

\* Faulty variant: the unlock is not deferred, and a panic leaves the mutex locked.
FetchPanics_Locked(c) ==
    /\ pc[c] = "fetch"
    /\ pc' = [pc EXCEPT ![c] = "idle"] /\ lock' = [lock EXCEPT ![c] = 0]
    /\ panics' = Plus(panics, {key[c]})
    /\ UNCHANGED <<cache, holder, key, begun, fetches, losses, evictions>>

\* fetchFn panics: past set, but not past the deferred unlock.
FetchPanics(c) ==
    /\ pc[c] = "fetch"
    /\ Unlock(c)
    /\ panics' = Plus(panics, {key[c]})
    /\ UNCHANGED <<cache, key, begun, fetches, losses, evictions>>

-----------------------------------------------------------------------------
Set(k) ==
    /\ Begins
    /\ set(k)
    /\ UNCHANGED <<holder, calls, fetches, panics>>

Invalidate(k) ==
    /\ entries[k] # "absent"
    /\ entries' = [entries EXCEPT ![k] = "absent"]
    /\ order' = SelectSeq(order, LAMBDA x : x # k)
    /\ Loses({k})
    /\ UNCHANGED <<fetching, holder, calls, begun, fetches, panics, evictions>>

\* The TTL of a key's entry passes.
Expire(k) ==
    /\ Fresh(k)
    /\ entries' = [entries EXCEPT ![k] = "expired"]
    /\ Loses({k})
    /\ UNCHANGED <<order, fetching, holder, calls, begun, fetches, panics, evictions>>

Running(c) == lockFor(c) \/ Lock(c) \/ SecondHit(c) \/ Fetch(c) \/ FetchReturns(c) \/ FetchPanics(c)

Next ==
    \/ \E c \in Callers : Running(c) \/ \E k \in Keys : Miss(c, k)
    \/ \E k \in Keys : Hit(k) \/ Set(k) \/ Invalidate(k) \/ Expire(k)

Spec == Init /\ [][Next]_vars

\* Callers run, a mutex that is free again and again is acquired, and
\* fetchFn returns or panics.
FairSpec == Spec /\ \A c \in Callers : SF_vars(Running(c))

-----------------------------------------------------------------------------
\* The variables have their types, every mutex a key or a call knows has been
\* made, and a call has one exactly from lockFor to its unlock.
TypeOK ==
    /\ entries \in [Keys -> {"absent", "fresh", "expired"}]
    /\ holder \in Seq(Callers \cup {Free})
    /\ fetching \in [Keys -> 0..Len(holder)] /\ lock \in [Callers -> 0..Len(holder)]
    /\ key \in [Callers -> Keys]
    /\ pc \in [Callers -> {"idle", "lockFor", "lock", "locked", "fetch"}]
    /\ evictions \in [Keys -> Nat]
    /\ \A c \in Callers : lock[c] # 0 <=> pc[c] \in {"lock", "locked", "fetch"}

FetchersOf(k) == { c \in Callers : pc[c] = "fetch" /\ key[c] = k }

\* GetOrFetch's comment: "Concurrent calls for the *same* key are serialized
\* (only one fetch runs at a time per key)".
Serialized == \A k \in Keys : Cardinality(FetchersOf(k)) <= 1

\* How far Serialized fails: by one fetch for each time set evicted the key,
\* and dropped the mutex that its running fetch holds, and for nothing else.
SerializedButForEvictions == \A k \in Keys : Cardinality(FetchersOf(k)) <= 1 + evictions[k]

\* Many callers that miss at once share one fetch: for each time a key lost a
\* fresh entry each of its mutexes lets one caller fetch it again, and one
\* more after each fetch that panicked and stored nothing; the key has one
\* mutex, and one more for each eviction.
SingleFlight ==
    \A k \in Keys : fetches[k] <= (losses[k] + 1) * (evictions[k] + 1) + panics[k]

\* Every call of GetOrFetch returns: the mutex of a key is always released,
\* also when its fetch panics, and when the key was evicted and has a new one
\* meanwhile.
CallsReturn == \A c \in Callers : pc[c] # "idle" ~> pc[c] = "idle"

-----------------------------------------------------------------------------
(* What SerializedButForEvictions rests on. *)

\* A call between Lock and Unlock holds its mutex.
Holding == \A c \in Callers : pc[c] \in {"locked", "fetch"} => holder[lock[c]] = c

\* The mutexes that calls for a key hold or wait for.
Locks(k) == { lock[c] : c \in { d \in Callers : key[d] = k /\ lock[d] # 0 } }

\* Of the mutexes in use for a key, only its evictions make more than one.
MutexesCounted == \A k \in Keys : Cardinality(Locks(k) \ {fetching[k]}) <= evictions[k]

-----------------------------------------------------------------------------
(* What SingleFlight rests on. *)

\* How many fetches of a key its losses and evictions account for: while the
\* entry is not fresh, those under way and those that panicked are the only
\* ones since the last loss.
Accounted(k) ==
    losses[k] * (evictions[k] + 1) + panics[k]
      + IF Fresh(k) THEN evictions[k] + 1 ELSE Cardinality(FetchersOf(k))

FlightsCounted ==
    /\ fetches \in [Keys -> Nat] /\ panics \in [Keys -> Nat] /\ losses \in [Keys -> Nat]
    /\ \A k \in Keys : fetches[k] <= Accounted(k)

=============================================================================
