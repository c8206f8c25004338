-------------------------- MODULE ResilienceProofs --------------------------
(***************************************************************************)
(* Proofs about the resilience package: the circuit breaker, for any       *)
(* number of concurrent calls and every configuration, and the keyed       *)
(* cache, for any number of callers and keys and any size.                 *)
(***************************************************************************)
EXTENDS CircuitBreaker, KeyedCache, TLAPS, FiniteSetTheorems

(* The circuit breaker. *)

USE DEF counts

\* Every step keeps the counters below their thresholds.
LEMMA BreakerTypeStep == BreakerTypeOK /\ [BreakerNext]_breakerVars => BreakerTypeOK'
<1> SUFFICES ASSUME BreakerTypeOK, [BreakerNext]_breakerVars PROVE BreakerTypeOK'
  BY Zenon
<1> USE ConfigAssumption DEF BreakerTypeOK
<1>1. ASSUME NEW c \in Calls, Admit(c) PROVE BreakerTypeOK'
  BY Zenon, <1>1 DEF Admit
<1>2. ASSUME NEW c \in Calls, AdmitFirstProbe(c) PROVE BreakerTypeOK'
  BY Zenon, <1>2 DEF AdmitFirstProbe
<1>3. ASSUME NEW c \in Calls, AdmitProbe(c) PROVE BreakerTypeOK'
  BY <1>3 DEF AdmitProbe
<1>4. ASSUME NEW c \in Calls, recordFailure(c) PROVE BreakerTypeOK'
  BY <1>4 DEF recordFailure, transition
<1>5. ASSUME NEW c \in Calls, recordSuccess(c) PROVE BreakerTypeOK'
  BY <1>5 DEF recordSuccess, transition, releasePermit
<1>6. ASSUME NEW c \in Calls, Panic(c) PROVE BreakerTypeOK'
  BY <1>6 DEF Panic
<1>7. CASE Reset \/ Tick \/ HealthChange
  BY <1>7 DEF Reset, transition, Tick, HealthChange
<1>8. CASE UNCHANGED breakerVars
  BY Zenon, <1>8 DEF breakerVars
<1> QED
  BY Zenon, <1>1, <1>2, <1>3, <1>4, <1>5, <1>6, <1>7, <1>8
  DEF BreakerNext, canExecute, recordResult

\* The breaker's state is type correct in every reachable state.
THEOREM BreakerTypeCorrect == BreakerSpec => []BreakerTypeOK
<1>1. BreakerInit => BreakerTypeOK
  BY ConfigAssumption DEF BreakerInit, BreakerTypeOK
<1> QED
  BY <1>1, BreakerTypeStep, PTL DEF BreakerSpec

-----------------------------------------------------------------------------
(* The permits of the half-open period. *)

\* The probes are finitely many, and a natural number of them.
LEMMA ProbesFinite ==
  IsFiniteSet(Probes) /\ Cardinality(Probes) \in Nat
<1>1. IsFiniteSet(Probes)
  BY Zenon, CallsAssumption, FS_Subset, Probes \subseteq Calls DEF Probes
<1> QED
  BY Zenon, <1>1, FS_CardinalityType

\* A call that was out becomes a probe: one more.
LEMMA ProbeAdded ==
  ASSUME BreakerTypeOK, NEW c \in Calls, call[c] = "out",
         call' = [call EXCEPT ![c] = "probe"]
  PROVE  Cardinality(Probes') = Cardinality(Probes) + 1
<1>1. Probes' = Probes \cup {c} /\ c \notin Probes
  BY Zenon DEF Probes, BreakerTypeOK
<1> QED
  BY Zenon, <1>1, ProbesFinite, FS_AddElement

\* A running call ends: one probe less, or none.
LEMMA CallEnded ==
  ASSUME BreakerTypeOK, NEW c \in Calls, call[c] # "out",
         call' = [call EXCEPT ![c] = "out"]
  PROVE  /\ \/ Cardinality(Probes') = Cardinality(Probes)
            \/ Cardinality(Probes') = Cardinality(Probes) - 1
         /\ Cardinality(Probes') \in Nat
<1>1. Probes' = Probes \ {c}
  BY Zenon DEF Probes, BreakerTypeOK
<1>0. Cardinality(Probes') \in Nat
  <2>1. Probes' \subseteq Probes
    BY Zenon, <1>1
  <2>2. IsFiniteSet(Probes')
    BY Zenon, <2>1, ProbesFinite, FS_Subset
  <2> QED
    BY Zenon, <2>2, FS_CardinalityType
<1>2. CASE c \in Probes
  BY Zenon, <1>0, <1>1, <1>2, ProbesFinite, FS_RemoveElement
<1>3. CASE c \notin Probes
  <2>1. Probes' = Probes
    BY Zenon, <1>1, <1>3
  <2> QED
    BY Zenon, <1>0, <2>1
<1> QED
  BY Zenon, <1>0, <1>2, <1>3

\* After a transition no running call is a probe.
LEMMA NoProbes ==
  ASSUME NEW s, NEW n, NEW f, transition(s, n, f)
  PROVE  Probes' = {}
BY Zenon DEF transition, Probes

\* Steps that end a half-open period, or stay outside one, leave no probe
\* and no count behind.
LEMMA AccountingOutside ==
  ASSUME Probes' = {}, successes' = 0, halfOpenCalls' = 0, lost' = 0
  PROVE  ProbeAccounting'
<1>1. Cardinality(Probes') = 0
  BY Zenon, FS_EmptySet
<1>2. Permits \in Nat
  BY ConfigAssumption DEF Permits
<1> QED
  BY <1>1, <1>2 DEF ProbeAccounting, Permits

\* Steps that touch neither the counters nor the probes.
LEMMA AccountingFrame ==
  ASSUME ProbeAccounting, Probes' = Probes,
         UNCHANGED <<state, successes, halfOpenCalls, lost>>
  PROVE  ProbeAccounting'
BY Zenon DEF ProbeAccounting, Permits

\* Every step keeps the accounts of the permits.
LEMMA AccountingStep ==
  BreakerTypeOK /\ ProbeAccounting /\ [BreakerNext]_breakerVars => ProbeAccounting'
<1> SUFFICES ASSUME BreakerTypeOK, ProbeAccounting, [BreakerNext]_breakerVars PROVE ProbeAccounting'
  BY Zenon
<1> DEFINE P == Cardinality(Probes)
<1>0. P \in Nat /\ IsFiniteSet(Probes) /\ Permits \in Nat /\ Permits >= 1
  BY ProbesFinite, ConfigAssumption DEF Permits
<1>t. halfOpenCalls \in Nat /\ successes \in Nat /\ lost \in Nat
  BY Zenon DEF BreakerTypeOK
<1>1. ASSUME NEW c \in Calls, Admit(c) PROVE ProbeAccounting'
  <2>1. Probes' = Probes
    BY Zenon, <1>1 DEF Admit, Probes, BreakerTypeOK
  <2> QED
    BY Zenon, <1>1, <2>1, AccountingFrame DEF Admit
<1>2. ASSUME NEW c \in Calls, AdmitFirstProbe(c) PROVE ProbeAccounting'
  <2>1. Probes = {}
    BY Zenon, <1>2 DEF AdmitFirstProbe, ProbeAccounting
  <2>a. Cardinality(Probes) = 0
    BY Zenon, <2>1, FS_EmptySet
  <2>b. Cardinality(Probes') = Cardinality(Probes) + 1
    BY Zenon, <1>2, ProbeAdded DEF AdmitFirstProbe
  <2>2. Cardinality(Probes') = 1
    BY <2>a, <2>b
  <2> QED
    BY <1>0, <1>2, <2>2 DEF AdmitFirstProbe, ProbeAccounting, Permits
<1>3. ASSUME NEW c \in Calls, AdmitProbe(c) PROVE ProbeAccounting'
  <2>1. Cardinality(Probes') = P + 1
    BY Zenon, <1>3, ProbeAdded DEF AdmitProbe
  <2>2. halfOpenCalls + 1 <= Permits
    BY <1>3, <1>t, ConfigAssumption DEF AdmitProbe, Permits
  <2> QED
    BY <1>0, <1>3, <1>t, <2>1, <2>2 DEF AdmitProbe, ProbeAccounting, Permits
<1>4. ASSUME NEW c \in Calls, recordFailure(c) PROVE ProbeAccounting'
  <2>1. CASE state' = "open" /\ state # "open"
    BY Zenon, <1>4, <2>1, NoProbes, AccountingOutside DEF recordFailure, transition
  <2>2. CASE state # "half_open" /\ state' = state
    <3>1. Probes = {} /\ successes = 0 /\ halfOpenCalls = 0 /\ lost = 0
      BY Zenon, <2>2 DEF ProbeAccounting
    <3>2. call' = [call EXCEPT ![c] = "out"]
      BY Zenon, <1>4, <2>2 DEF recordFailure, transition
    <3>3. Probes' = {}
      BY Zenon, <3>1, <3>2 DEF Probes, BreakerTypeOK
    <3> QED
      BY Zenon, <1>4, <2>2, <3>1, <3>3, AccountingOutside DEF recordFailure, transition
  <2> QED
    BY Zenon, <1>4, <2>1, <2>2 DEF recordFailure, transition, BreakerTypeOK
<1>5. ASSUME NEW c \in Calls, recordSuccess(c) PROVE ProbeAccounting'
  <2>1. CASE state = "half_open" /\ successes + 1 >= SuccessThreshold
    BY <1>5, <1>t, <2>1, ConfigAssumption, NoProbes, AccountingOutside
    DEF recordSuccess, transition
  <2>2. CASE state = "half_open" /\ ~(successes + 1 >= SuccessThreshold)
    <3>1. /\ call[c] # "out" /\ call' = [call EXCEPT ![c] = "out"]
          /\ successes' = successes + 1 /\ halfOpenCalls' = releasePermit
          /\ state' = state /\ lost' = lost
      BY Zenon, <1>5, <2>2 DEF recordSuccess
    <3>2. Cardinality(Probes') = P \/ Cardinality(Probes') = P - 1
      BY Zenon, <3>1, CallEnded
    <3>3. Cardinality(Probes') \in Nat
      BY Zenon, <3>1, CallEnded
    <3> QED
      BY <1>0, <1>t, <2>2, <3>1, <3>2, <3>3
      DEF ProbeAccounting, Permits, releasePermit
  <2>3. CASE state # "half_open"
    <3>1. Probes = {} /\ successes = 0 /\ halfOpenCalls = 0 /\ lost = 0
      BY Zenon, <2>3 DEF ProbeAccounting
    <3>2. /\ call' = [call EXCEPT ![c] = "out"]
          /\ UNCHANGED <<successes, halfOpenCalls, lost>>
      BY Zenon, <1>5, <2>3 DEF recordSuccess
    <3>3. Probes' = {}
      BY Zenon, <3>1, <3>2 DEF Probes, BreakerTypeOK
    <3> QED
      BY Zenon, <3>1, <3>2, <3>3, AccountingOutside
  <2> QED
    BY Zenon, <2>1, <2>2, <2>3
<1>6. ASSUME NEW c \in Calls, Panic(c) PROVE ProbeAccounting'
  <2>1. CASE call[c] = "probe"
    <3>1. Probes' = Probes \ {c} /\ c \in Probes
      BY Zenon, <1>6, <2>1 DEF Panic, Probes, BreakerTypeOK
    <3>2. Cardinality(Probes') = P - 1
      BY Zenon, <3>1, ProbesFinite, FS_RemoveElement
    <3>3. state = "half_open"
      BY Zenon, <3>1 DEF ProbeAccounting
    <3>4. lost' = lost + 1 /\ UNCHANGED <<state, successes, halfOpenCalls>>
      BY Zenon, <1>6, <2>1 DEF Panic
    <3> QED
      BY <1>0, <1>t, <3>2, <3>3, <3>4 DEF ProbeAccounting, Permits
  <2>2. CASE call[c] # "probe"
    <3>1. Probes' = Probes
      BY Zenon, <1>6, <2>2 DEF Panic, Probes, BreakerTypeOK
    <3> QED
      BY Zenon, <1>6, <2>2, <3>1, AccountingFrame DEF Panic
  <2> QED
    BY Zenon, <2>1, <2>2
<1>7. CASE Reset
  BY Zenon, <1>7, NoProbes, AccountingOutside DEF Reset, transition
<1>8. CASE Tick \/ HealthChange \/ UNCHANGED breakerVars
  <2>1. Probes' = Probes
    BY Zenon, <1>8 DEF Tick, HealthChange, breakerVars, Probes
  <2> QED
    BY Zenon, <1>8, <2>1, AccountingFrame DEF Tick, HealthChange, breakerVars
<1> QED
  BY Zenon, <1>1, <1>2, <1>3, <1>4, <1>5, <1>6, <1>7, <1>8
  DEF BreakerNext, canExecute, recordResult

\* halfOpenCalls accounts for the running probes in every reachable state.
THEOREM PermitsAccounted == BreakerSpec => []ProbeAccounting
<1>1. BreakerInit => ProbeAccounting
  <2>1. BreakerInit => Probes = {}
    BY Zenon DEF BreakerInit, Probes
  <2> QED
    BY <2>1, FS_EmptySet, ConfigAssumption DEF BreakerInit, ProbeAccounting, Permits
<1> QED
  BY <1>1, AccountingStep, BreakerTypeCorrect, PTL DEF BreakerSpec

\* No half-open breaker runs more than HalfOpenMaxCalls + SuccessThreshold - 1
\* probes at one time.
THEOREM ProbesBounded == BreakerSpec => []ProbeBound
<1>1. BreakerTypeOK /\ ProbeAccounting => ProbeBound
  <2> SUFFICES ASSUME BreakerTypeOK, ProbeAccounting PROVE ProbeBound
    BY Zenon
  <2>1. Permits \in Nat /\ Cardinality(Probes) \in Nat
    BY ProbesFinite, ConfigAssumption DEF Permits
  <2>2. successes <= IF SuccessThreshold > 1 THEN SuccessThreshold - 1 ELSE 0
    BY ConfigAssumption DEF BreakerTypeOK, ProbeAccounting
  <2> QED
    BY <2>1, <2>2, ConfigAssumption DEF BreakerTypeOK, ProbeAccounting, ProbeBound
<1> QED
  BY <1>1, PermitsAccounted, BreakerTypeCorrect, PTL

\* When at least one probe is permitted, only a panicking probe latches a
\* half-open breaker.
THEOREM NeverLatched ==
  ASSUME HalfOpenMaxCalls > 0
  PROVE  BreakerSpec => []OnlyPanicLatches
<1>1. BreakerTypeOK /\ ProbeAccounting => OnlyPanicLatches
  <2> SUFFICES ASSUME BreakerTypeOK, ProbeAccounting, state = "half_open", Probes = {},
                      ~(lost > 0)
               PROVE  halfOpenCalls < HalfOpenMaxCalls
    BY Zenon DEF NotLatched, OnlyPanicLatches
  <2>1. Cardinality(Probes) = 0
    BY Zenon, FS_EmptySet
  <2> QED
    BY <2>1, ConfigAssumption DEF BreakerTypeOK, ProbeAccounting
<1> QED
  BY <1>1, PermitsAccounted, BreakerTypeCorrect, PTL

-----------------------------------------------------------------------------
(* The keyed cache: types. *)

\* NewKeyedCache makes a cache of the types.
LEMMA CacheTypeInit == Init => TypeOK
<1> SUFFICES ASSUME Init PROVE TypeOK
  BY Zenon
<1>1. holder \in Seq(Callers \cup {Free}) /\ Len(holder) = 0
  BY DEF Init
<1>2. PICK k \in Keys : key = [c \in Callers |-> k]
  BY Zenon DEF Init
<1> QED
  BY <1>1, <1>2 DEF Init, TypeOK, Zero

\* What set does to a key's entry and mutex: nothing, or it evicts the key.
LEMMA SetSteps ==
    ASSUME TypeOK, NEW k \in Keys, set(k)
    PROVE  /\ entries' \in [Keys -> {"absent", "fresh", "expired"}]
           /\ fetching' \in [Keys -> 0..Len(holder)] /\ evictions' \in [Keys -> Nat]
           /\ \A x \in Keys : \/ fetching'[x] = fetching[x] /\ evictions'[x] = evictions[x]
                              \/ fetching'[x] = 0 /\ evictions'[x] = evictions[x] + 1
<1>1. CASE entries[k] # "absent"
  BY Zenon, <1>1 DEF set, TypeOK
<1>2. CASE entries[k] = "absent"
  <2>1. fetching' = [x \in Keys |-> IF x \in Evicted THEN 0 ELSE fetching[x]]
        /\ evictions' = [x \in Keys |-> IF x \in Evicted THEN evictions[x] + 1 ELSE evictions[x]]
    BY Zenon, <1>2 DEF set, Plus
  <2>2. entries' = [x \in Keys |-> IF x = k THEN "fresh" ELSE IF x \in Evicted THEN "absent" ELSE entries[x]]
    BY Zenon, <1>2 DEF set
  <2>3. entries' \in [Keys -> {"absent", "fresh", "expired"}]
    BY Zenon, <2>2 DEF TypeOK
  <2>4. Len(holder) \in Nat
    BY DEF TypeOK
  <2> QED
    BY <2>1, <2>3, <2>4 DEF TypeOK
<1> QED
  BY Zenon, <1>1, <1>2

\* Writing a mutex keeps the mutexes.
LEMMA HolderWrite ==
    ASSUME NEW h \in Seq(Callers \cup {Free}), NEW i \in 1..Len(h), NEW v \in Callers \cup {Free}
    PROVE  /\ [h EXCEPT ![i] = v] \in Seq(Callers \cup {Free})
           /\ Len([h EXCEPT ![i] = v]) = Len(h)
OBVIOUS

\* Making a mutex keeps the mutexes.
LEMMA HolderMake ==
    ASSUME NEW h \in Seq(Callers \cup {Free})
    PROVE  /\ Append(h, Free) \in Seq(Callers \cup {Free})
           /\ Len(Append(h, Free)) = Len(h) + 1
OBVIOUS

\* Every step of a caller, every Set, Invalidate and expiry keeps the types.
LEMMA CacheTypeStep == TypeOK /\ [Next]_vars => TypeOK'
<1> SUFFICES ASSUME TypeOK, [Next]_vars PROVE TypeOK'
  BY Zenon
<1>0. Len(holder) \in Nat /\ Free \in Callers \cup {Free}
  BY DEF TypeOK
<1>1. ASSUME NEW c \in Callers, Running(c) PROVE TypeOK'
  <2>1. CASE lockFor(c)
    <3>1. CASE HasLock(key[c])
      BY Zenon, <2>1, <3>1, <1>0 DEF lockFor, HasLock, TypeOK, history
    <3>2. CASE ~HasLock(key[c])
      <4>1. holder' = Append(holder, Free) /\ holder' \in Seq(Callers \cup {Free}) /\ Len(holder') = Len(holder) + 1
        <5>1. holder' = Append(holder, Free)
          BY Zenon, <2>1, <3>2 DEF lockFor
        <5>2. holder \in Seq(Callers \cup {Free})
          BY Zenon DEF TypeOK
        <5> QED
          BY Zenon, <5>1, <5>2, HolderMake
      <4>2. lock' = [lock EXCEPT ![c] = Len(holder) + 1] /\ fetching' = [fetching EXCEPT ![key[c]] = Len(holder) + 1]
        BY Zenon, <2>1, <3>2 DEF lockFor
      <4>3. fetching' \in [Keys -> 0..Len(holder')] /\ lock' \in [Callers -> 0..Len(holder')]
        <5>1. 0..Len(holder) \subseteq 0..Len(holder') /\ Len(holder) + 1 \in 0..Len(holder')
          BY <4>1, <1>0
        <5>2. fetching \in [Keys -> 0..Len(holder')] /\ lock \in [Callers -> 0..Len(holder')]
          BY Zenon, <5>1 DEF TypeOK
        <5> QED
          BY Zenon, <4>2, <5>1, <5>2
      <4> QED
        BY <2>1, <4>1, <4>2, <4>3, <1>0 DEF lockFor, TypeOK, history
    <3> QED
      BY Zenon, <3>1, <3>2
  <2>2. CASE Lock(c)
    <3>1. lock[c] \in 1..Len(holder)
      BY <2>2, <1>0 DEF Lock, TypeOK
    <3>2. holder' \in Seq(Callers \cup {Free}) /\ Len(holder') = Len(holder)
      BY Zenon, <2>2, <3>1, HolderWrite DEF Lock, TypeOK
    <3> QED
      BY Zenon, <2>2, <3>2, <1>0 DEF Lock, TypeOK, cache, history
  <2>3. ASSUME pc[c] \in {"locked", "fetch"}, Unlock(c), UNCHANGED key,
               fetching' \in [Keys -> 0..Len(holder)], evictions' \in [Keys -> Nat],
               entries' \in [Keys -> {"absent", "fresh", "expired"}]
        PROVE  TypeOK'
    <3>1. lock[c] \in 1..Len(holder)
      BY <2>3, <1>0 DEF TypeOK
    <3>2. holder' \in Seq(Callers \cup {Free}) /\ Len(holder') = Len(holder)
      BY Zenon, <2>3, <3>1, HolderWrite DEF Unlock, TypeOK
    <3> QED
      BY <2>3, <3>2, <1>0 DEF Unlock, TypeOK
  <2>4. CASE SecondHit(c)
    BY Zenon, <2>3, <2>4 DEF SecondHit, TypeOK, history
  <2>5. CASE Fetch(c)
    BY Zenon, <2>5 DEF Fetch, TypeOK, cache
  <2>6. CASE FetchReturns(c)
    <3>1. key[c] \in Keys /\ set(key[c])
      BY Zenon, <2>6 DEF FetchReturns, TypeOK
    <3> QED
      BY Zenon, <2>3, <2>6, <3>1, SetSteps DEF FetchReturns
  <2>7. CASE FetchPanics(c)
    BY Zenon, <2>3, <2>7 DEF FetchPanics, TypeOK, cache
  <2> QED
    BY Zenon, <1>1, <2>1, <2>2, <2>4, <2>5, <2>6, <2>7 DEF Running
<1>2. ASSUME NEW c \in Callers, NEW k \in Keys, Miss(c, k) PROVE TypeOK'
  BY Zenon, <1>2 DEF Miss, TypeOK, cache, history
<1>3. ASSUME NEW k \in Keys, Hit(k) PROVE TypeOK'
  BY Zenon, <1>3 DEF Hit, TypeOK, calls, history
<1>4. ASSUME NEW k \in Keys, Set(k) PROVE TypeOK'
  BY Zenon, <1>4, SetSteps DEF Set, TypeOK, calls
<1>5. ASSUME NEW k \in Keys, Invalidate(k) \/ Expire(k) PROVE TypeOK'
  BY Zenon, <1>5 DEF Invalidate, Expire, TypeOK, calls
<1>6. CASE UNCHANGED vars
  BY Zenon, <1>6 DEF TypeOK, vars, cache, calls, history
<1> QED
  BY Zenon, <1>1, <1>2, <1>3, <1>4, <1>5, <1>6 DEF Next

\* CacheTypeCorrect: the cache and its callers keep their types, and a call has a
\* mutex exactly from lockFor to the deferred unlock.
THEOREM CacheTypeCorrect == Spec => []TypeOK
BY CacheTypeInit, CacheTypeStep, PTL DEF Spec

-----------------------------------------------------------------------------
(* Mutual exclusion. *)

\* No step takes a mutex from the call that holds it.
LEMMA HoldingStep == TypeOK /\ Holding /\ [Next]_vars => Holding'
<1> SUFFICES ASSUME TypeOK, Holding, [Next]_vars,
                    NEW d \in Callers, pc'[d] \in {"locked", "fetch"}
             PROVE  holder'[lock'[d]] = d
  BY Zenon DEF Holding
<1>0. Len(holder) \in Nat /\ \A c \in Callers : lock[c] # 0 => lock[c] \in 1..Len(holder)
  BY DEF TypeOK
<1>1. CASE UNCHANGED <<pc, lock, holder>>
  BY Zenon, <1>1 DEF Holding
<1>2. ASSUME NEW c \in Callers, lockFor(c) PROVE holder'[lock'[d]] = d
  <2>1. d # c /\ pc[d] \in {"locked", "fetch"} /\ lock'[d] = lock[d]
    BY Zenon, <1>2 DEF lockFor, TypeOK
  <2>2. lock[d] \in 1..Len(holder) /\ holder[lock[d]] = d
    BY Zenon, <2>1, <1>0 DEF TypeOK, Holding
  <2>3. holder' = holder \/ holder' = Append(holder, Free)
    BY Zenon, <1>2 DEF lockFor
  <2>4. \A i \in 1..Len(holder) : Append(holder, Free)[i] = holder[i]
    BY DEF TypeOK
  <2> QED
    BY Zenon, <2>1, <2>2, <2>3, <2>4
<1>3. ASSUME NEW c \in Callers, Lock(c) PROVE holder'[lock'[d]] = d
  <2>1. holder' = [holder EXCEPT ![lock[c]] = c] /\ holder[lock[c]] = Free /\ lock' = lock
        /\ lock[c] \in 1..Len(holder) /\ pc' = [pc EXCEPT ![c] = "locked"]
    BY Zenon, <1>3, <1>0 DEF Lock, TypeOK
  <2>2. DOMAIN holder = 1..Len(holder)
    BY DEF TypeOK
  <2>3. CASE d = c
    BY Zenon, <2>1, <2>2, <2>3
  <2>4. CASE d # c
    <3>1. pc[d] \in {"locked", "fetch"}
      BY Zenon, <2>1, <2>4 DEF TypeOK
    <3>2. holder[lock[d]] = d /\ lock[d] \in 1..Len(holder)
      BY Zenon, <3>1, <1>0 DEF Holding, TypeOK
    <3>3. lock[d] # lock[c]
      BY Zenon, <2>1, <3>2, CallersAssumption
    <3> QED
      BY Zenon, <2>1, <2>2, <3>2, <3>3
  <2> QED
    BY Zenon, <2>3, <2>4
<1>4. ASSUME NEW c \in Callers, pc[c] \in {"locked", "fetch"}, Unlock(c) PROVE holder'[lock'[d]] = d
  <2>1. d # c /\ pc[d] \in {"locked", "fetch"} /\ lock'[d] = lock[d]
    BY Zenon, <1>4 DEF Unlock, TypeOK
  <2>2. holder[lock[d]] = d /\ holder[lock[c]] = c /\ lock[d] \in 1..Len(holder) /\ lock[c] \in 1..Len(holder)
    BY Zenon, <1>4, <2>1, <1>0 DEF Holding, TypeOK
  <2>3. holder' = [holder EXCEPT ![lock[c]] = Free] /\ DOMAIN holder = 1..Len(holder)
    BY <1>4 DEF Unlock, TypeOK
  <2> QED
    BY Zenon, <2>1, <2>2, <2>3
<1>5. ASSUME NEW c \in Callers, Fetch(c) PROVE holder'[lock'[d]] = d
  BY Zenon, <1>5 DEF Fetch, Holding, TypeOK
<1>6. ASSUME NEW c \in Callers, NEW k \in Keys, Miss(c, k) PROVE holder'[lock'[d]] = d
  BY Zenon, <1>6 DEF Miss, Holding, TypeOK
<1> QED
  BY Zenon, <1>1, <1>2, <1>3, <1>4, <1>5, <1>6
  DEF Next, Running, SecondHit, FetchReturns, FetchPanics, Hit, Set, Invalidate, Expire, calls, vars

-----------------------------------------------------------------------------
(* The mutexes of a key. *)

\* The mutexes in use for a key are among the mutexes made, so finitely many.
LEMMA LocksFinite ==
    ASSUME TypeOK, NEW k \in Keys
    PROVE  IsFiniteSet(Locks(k)) /\ 0 \notin Locks(k) /\ Locks(k) \subseteq 1..Len(holder)
<1>1. Len(holder) \in Nat
  BY DEF TypeOK
<1>2. Locks(k) \subseteq 1..Len(holder)
  BY <1>1 DEF Locks, TypeOK
<1>3. IsFiniteSet(1..Len(holder))
  BY <1>1, FS_Interval
<1> QED
  BY <1>1, <1>2, <1>3, FS_Subset

\* What a step does to the mutexes of a key other than the one in c.fetching:
\* it adds none, unless it evicts the key.
LEMMA LockSteps ==
    ASSUME TypeOK, [Next]_vars, NEW k \in Keys
    PROVE  \/ /\ Locks(k)' \ {fetching'[k]} \subseteq Locks(k) \ {fetching[k]}
              /\ evictions'[k] = evictions[k]
           \/ /\ Locks(k)' \ {fetching'[k]} \subseteq Locks(k)
              /\ evictions'[k] = evictions[k] + 1
<1> DEFINE Same == fetching'[k] = fetching[k] /\ evictions'[k] = evictions[k]
<1> DEFINE Evicts == fetching'[k] = 0 /\ evictions'[k] = evictions[k] + 1
<1>1. ASSUME UNCHANGED <<lock, key>> PROVE Locks(k)' \subseteq Locks(k)
  BY Zenon, <1>1 DEF Locks
<1>2. ASSUME NEW c \in Callers, Unlock(c), UNCHANGED key PROVE Locks(k)' \subseteq Locks(k)
  <2>1. ASSUME NEW x \in Locks(k)' PROVE x \in Locks(k)
    <3>1. PICK d \in Callers : key'[d] = k /\ lock'[d] # 0 /\ x = lock'[d]
      BY Zenon DEF Locks
    <3>2. d # c /\ lock'[d] = lock[d] /\ key[d] = k
      BY Zenon, <1>2, <3>1 DEF Unlock, TypeOK
    <3> QED
      BY Zenon, <3>1, <3>2 DEF Locks
  <2> QED
    BY Zenon, <2>1
<1>3. ASSUME NEW c \in Callers, lockFor(c)
      PROVE  /\ Locks(k)' \ {fetching'[k]} \subseteq Locks(k) \ {fetching[k]}
             /\ evictions'[k] = evictions[k]
  <2>1. ASSUME NEW x \in Locks(k)', x # fetching'[k] PROVE x \in Locks(k) /\ x # fetching[k]
    <3>1. PICK d \in Callers : key'[d] = k /\ lock'[d] # 0 /\ x = lock'[d]
      BY Zenon DEF Locks
    <3>2. key' = key /\ lock'[c] = fetching'[key[c]]
      BY <1>3 DEF lockFor, TypeOK
    <3>3. d # c
      BY Zenon, <2>1, <3>1, <3>2
    <3>4. lock'[d] = lock[d]
      BY Zenon, <1>3, <3>3 DEF lockFor, TypeOK
    <3>5. x \in Locks(k)
      BY Zenon, <3>1, <3>2, <3>4 DEF Locks
    <3>6. fetching'[k] = fetching[k] \/ fetching[k] = 0
      BY Zenon, <1>3 DEF lockFor, HasLock, TypeOK
    <3>7. x # 0
      BY Zenon, <3>1
    <3> QED
      BY Zenon, <2>1, <3>5, <3>6, <3>7
  <2>2. evictions' = evictions
    BY Zenon, <1>3 DEF lockFor, history
  <2> QED
    BY Zenon, <2>1, <2>2
<1>4. ASSUME NEW c \in Callers, NEW x \in Keys, Miss(c, x)
      PROVE  Locks(k)' \subseteq Locks(k) /\ Same
  <2>1. ASSUME NEW y \in Locks(k)' PROVE y \in Locks(k)
    <3>1. PICK d \in Callers : key'[d] = k /\ lock'[d] # 0 /\ y = lock'[d]
      BY Zenon DEF Locks
    <3>2. lock' = lock /\ d # c
      BY Zenon, <1>4, <3>1 DEF Miss, TypeOK
    <3>3. key[d] = k
      BY Zenon, <1>4, <3>1, <3>2 DEF Miss, TypeOK
    <3> QED
      BY Zenon, <3>1, <3>2, <3>3 DEF Locks
  <2> QED
    BY Zenon, <1>4, <2>1 DEF Miss, cache, history
<1>5. ASSUME NEW c \in Callers, SecondHit(c) PROVE Locks(k)' \subseteq Locks(k) /\ Same
  BY Zenon, <1>2, <1>5 DEF SecondHit, history
<1>6. ASSUME NEW c \in Callers, FetchReturns(c) PROVE Locks(k)' \subseteq Locks(k) /\ (Same \/ Evicts)
  <2>1. key[c] \in Keys /\ set(key[c]) /\ Unlock(c) /\ UNCHANGED key
    BY Zenon, <1>6 DEF FetchReturns, TypeOK
  <2>2. Same \/ Evicts
    BY Zenon, <2>1, SetSteps
  <2> QED
    BY Zenon, <1>2, <2>1, <2>2
<1>7. ASSUME NEW x \in Keys, Set(x) PROVE Locks(k)' \subseteq Locks(k) /\ (Same \/ Evicts)
  <2>1. Same \/ Evicts
    BY Zenon, <1>7, SetSteps DEF Set
  <2> QED
    BY Zenon, <1>1, <1>7, <2>1 DEF Set, calls
<1>8. ASSUME UNCHANGED <<lock, key, fetching, evictions>> PROVE Locks(k)' \subseteq Locks(k) /\ Same
  BY Zenon, <1>1, <1>8
<1>9. CASE Locks(k)' \subseteq Locks(k) /\ (Same \/ Evicts)
  BY Zenon, <1>9
<1>10. ASSUME NEW c \in Callers, Lock(c) \/ Fetch(c) PROVE Locks(k)' \subseteq Locks(k) /\ Same
  BY Zenon, <1>8, <1>10 DEF Lock, Fetch, cache, history
<1>11. ASSUME NEW x \in Keys, Hit(x) \/ Invalidate(x) \/ Expire(x) PROVE Locks(k)' \subseteq Locks(k) /\ Same
  BY Zenon, <1>8, <1>11 DEF Hit, Invalidate, Expire, calls, history
<1>12. ASSUME NEW c \in Callers, FetchPanics(c) PROVE Locks(k)' \subseteq Locks(k) /\ Same
  BY Zenon, <1>2, <1>12 DEF FetchPanics, cache
<1>13. CASE UNCHANGED vars
  BY Zenon, <1>8, <1>9, <1>13 DEF vars, cache, calls, history
<1> HIDE DEF Same, Evicts
<1> QED
  BY Zenon, <1>3, <1>4, <1>5, <1>6, <1>7, <1>9, <1>10, <1>11, <1>12, <1>13 DEF Next, Running

\* A finite set without one element has at most one element less.
LEMMA OneOut ==
    ASSUME NEW S, NEW x, IsFiniteSet(S)
    PROVE  /\ IsFiniteSet(S \ {x})
           /\ Cardinality(S) \in Nat /\ Cardinality(S \ {x}) \in Nat
           /\ Cardinality(S) <= Cardinality(S \ {x}) + 1
<1>1. /\ IsFiniteSet(S \ {x})
      /\ Cardinality(S \ {x}) = IF x \in S THEN Cardinality(S) - 1 ELSE Cardinality(S)
  BY Zenon, FS_RemoveElement
<1>2. Cardinality(S) \in Nat /\ Cardinality(S \ {x}) \in Nat
  BY Zenon, <1>1, FS_CardinalityType
<1> QED
  BY <1>1, <1>2

\* A mutex that lockFor makes becomes the one in c.fetching; only an eviction
\* turns it into one of the others.
LEMMA CountedStep == TypeOK /\ MutexesCounted /\ [Next]_vars => MutexesCounted'
<1> SUFFICES ASSUME TypeOK, MutexesCounted, [Next]_vars, NEW k \in Keys
             PROVE  Cardinality(Locks(k)' \ {fetching'[k]}) <= evictions'[k]
  BY Zenon DEF MutexesCounted
<1> DEFINE before == Locks(k) \ {fetching[k]}
           after == Locks(k)' \ {fetching'[k]}
<1>1. IsFiniteSet(Locks(k)) /\ IsFiniteSet(before)
  BY Zenon, LocksFinite, OneOut
<1>2. Cardinality(before) <= evictions[k] /\ evictions[k] \in Nat /\ Cardinality(before) \in Nat
  BY Zenon, <1>1, FS_CardinalityType DEF MutexesCounted, TypeOK
<1>3. Cardinality(Locks(k)) <= Cardinality(before) + 1
  BY Zenon, <1>1, OneOut
<1>4. CASE after \subseteq before /\ evictions'[k] = evictions[k]
  <2>1. Cardinality(after) <= Cardinality(before) /\ IsFiniteSet(after)
    BY Zenon, <1>1, <1>4, FS_Subset
  <2> QED
    BY <1>2, <1>4, <2>1, FS_CardinalityType
<1>5. CASE after \subseteq Locks(k) /\ evictions'[k] = evictions[k] + 1
  <2>1. Cardinality(after) <= Cardinality(Locks(k)) /\ IsFiniteSet(after)
    BY Zenon, <1>1, <1>5, FS_Subset
  <2>2. Cardinality(after) \in Nat /\ Cardinality(Locks(k)) \in Nat
    BY Zenon, <1>1, <2>1, FS_CardinalityType
  <2> QED
    BY <1>2, <1>3, <1>5, <2>1, <2>2
<1> QED
  BY Zenon, <1>4, <1>5, LockSteps

\* FetchesSerialized: the fetches of a key that run at one time are one, and one
\* more for each of its evictions, whatever expires, fails or is set meanwhile.
THEOREM FetchesSerialized == Spec => []SerializedButForEvictions
<1>1. Init => Holding /\ MutexesCounted
  <2> SUFFICES ASSUME Init PROVE Holding /\ MutexesCounted
    BY Zenon
  <2>1. Holding
    BY Zenon DEF Init, Holding
  <2>2. ASSUME NEW k \in Keys PROVE Locks(k) \ {fetching[k]} = {}
    BY Zenon DEF Init, Locks
  <2>3. ASSUME NEW k \in Keys PROVE evictions[k] = 0
    BY Zenon DEF Init, Zero
  <2>4. ASSUME NEW k \in Keys PROVE Cardinality(Locks(k) \ {fetching[k]}) = 0
    BY Zenon, <2>2, FS_EmptySet
  <2>5. MutexesCounted
    BY <2>3, <2>4 DEF MutexesCounted
  <2> QED
    BY Zenon, <2>1, <2>5
<1>2. TypeOK /\ Holding /\ MutexesCounted => SerializedButForEvictions
  <2> SUFFICES ASSUME TypeOK, Holding, MutexesCounted, NEW k \in Keys
               PROVE  Cardinality(FetchersOf(k)) <= 1 + evictions[k]
    BY Zenon DEF SerializedButForEvictions
  <2> DEFINE f == [c \in FetchersOf(k) |-> lock[c]]
  <2>1. f \in [FetchersOf(k) -> Locks(k)]
    BY Zenon DEF FetchersOf, Locks, TypeOK
  <2>2. \A c, d \in FetchersOf(k) : f[c] = f[d] => c = d
    BY Zenon DEF FetchersOf, Holding
  <2>3. f \in Injection(FetchersOf(k), Locks(k))
    BY Zenon, <2>1, <2>2 DEF Injection, IsInjective
  <2>4. IsFiniteSet(Locks(k)) /\ Cardinality(FetchersOf(k)) <= Cardinality(Locks(k)) /\ IsFiniteSet(FetchersOf(k))
    BY Zenon, <2>3, LocksFinite, FS_Injection
  <2>5. Cardinality(Locks(k)) <= Cardinality(Locks(k) \ {fetching[k]}) + 1
        /\ Cardinality(Locks(k) \ {fetching[k]}) \in Nat
    BY Zenon, <2>4, OneOut
  <2>6. Cardinality(Locks(k) \ {fetching[k]}) <= evictions[k] /\ evictions[k] \in Nat
    BY Zenon DEF MutexesCounted, TypeOK
  <2>7. Cardinality(FetchersOf(k)) \in Nat /\ Cardinality(Locks(k)) \in Nat
    BY Zenon, <2>4, FS_CardinalityType
  <2> QED
    BY <2>4, <2>5, <2>6, <2>7
<1> QED
  BY <1>1, <1>2, HoldingStep, CountedStep, CacheTypeCorrect, PTL DEF Spec

-----------------------------------------------------------------------------
(* Single flight. *)

\* A step of a key's counts that is no panic: it makes the entry fresh, loses
\* a fresh one, leaves it be, or begins a fetch of an entry that is not fresh.
CalmStep(k) ==
    LET P == Cardinality(FetchersOf(k))
    IN  /\ losses'[k] \in Nat /\ fetches'[k] \in Nat /\ panics'[k] = panics[k]
        /\ evictions'[k] = evictions[k] \/ evictions'[k] = evictions[k] + 1
        /\ \/ fetches'[k] = fetches[k] /\ losses'[k] = losses[k] /\ Fresh(k)'
           \/ fetches'[k] = fetches[k] /\ losses'[k] = losses[k] + 1 /\ Fresh(k) /\ ~Fresh(k)'
           \/ /\ losses'[k] = losses[k] /\ ~Fresh(k) /\ ~Fresh(k)'
              /\ \/ fetches'[k] = fetches[k] /\ P' = P
                 \/ fetches'[k] = fetches[k] + 1 /\ P' = P + 1

\* A fetch of the key panics: it is under way no longer, and stored nothing.
PanicStep(k) ==
    /\ panics'[k] = panics[k] + 1
    /\ UNCHANGED <<entries, fetches, losses, evictions>>
    /\ Cardinality(FetchersOf(k))' = Cardinality(FetchersOf(k)) - 1

\* The arithmetic of one more eviction, of one more loss and of both.
LEMMA FlightArithmetic ==
  ASSUME NEW l \in Nat, NEW e \in Nat
  PROVE  /\ l * (e + 1) \in Nat
         /\ (l + 1) * (e + 1) = l * (e + 1) + (e + 1)
         /\ l * ((e + 1) + 1) = l * (e + 1) + l
         /\ (l + 1) * ((e + 1) + 1) = l * (e + 1) + (e + 1) + l + 1
OBVIOUS

\* Such a step keeps the fetches of the key accounted for.
LEMMA CalmKept ==
  ASSUME TypeOK, SerializedButForEvictions, FlightsCounted, NEW k \in Keys, CalmStep(k),
         Cardinality(FetchersOf(k))' \in Nat
  PROVE  fetches'[k] <= Accounted(k)'
<1> DEFINE P == Cardinality(FetchersOf(k))
<1>1. /\ evictions[k] \in Nat /\ losses[k] \in Nat /\ fetches[k] \in Nat
      /\ panics[k] \in Nat /\ P \in Nat
  BY Zenon, CallersAssumption, FS_Subset, FS_CardinalityType DEF TypeOK, FlightsCounted, FetchersOf
<1>2. P <= 1 + evictions[k]
  BY Zenon DEF SerializedButForEvictions
<1>3. fetches[k] <= losses[k] * (evictions[k] + 1) + panics[k] + IF Fresh(k) THEN evictions[k] + 1 ELSE P
  BY Zenon DEF FlightsCounted, Accounted
<1>4. Accounted(k)' = losses'[k] * (evictions'[k] + 1) + panics[k]
                        + IF Fresh(k)' THEN evictions'[k] + 1 ELSE P'
  BY Zenon DEF Accounted, CalmStep
<1>5. PICK e \in Nat, l \in Nat, a \in Nat : e = evictions[k] /\ l = losses[k] /\ a = l * (e + 1)
  BY <1>1, FlightArithmetic
<1>6. /\ (l + 1) * (e + 1) = a + (e + 1)
      /\ l * ((e + 1) + 1) = a + l
      /\ (l + 1) * ((e + 1) + 1) = a + (e + 1) + l + 1
  BY <1>5, FlightArithmetic
<1>7. CASE fetches'[k] = fetches[k] /\ losses'[k] = losses[k] /\ Fresh(k)'
  <2>1. fetches[k] <= a + panics[k] + (e + 1)
    BY <1>1, <1>2, <1>3, <1>5
  <2>2. CASE evictions'[k] = e
    BY Zenon, <1>1, <1>4, <1>5, <1>7, <2>1, <2>2
  <2>3. CASE evictions'[k] = e + 1
    BY <1>1, <1>4, <1>5, <1>6, <1>7, <2>1, <2>3
  <2> QED
    BY Zenon, <1>5, <2>2, <2>3 DEF CalmStep
<1>8. CASE fetches'[k] = fetches[k] /\ losses'[k] = losses[k] + 1 /\ Fresh(k) /\ ~Fresh(k)'
  <2>1. fetches[k] <= a + panics[k] + (e + 1)
    BY Zenon, <1>3, <1>5, <1>8
  <2>2. CASE evictions'[k] = e
    BY <1>1, <1>4, <1>5, <1>6, <1>8, <2>1, <2>2
  <2>3. CASE evictions'[k] = e + 1
    BY <1>1, <1>4, <1>5, <1>6, <1>8, <2>1, <2>3
  <2> QED
    BY Zenon, <1>5, <2>2, <2>3 DEF CalmStep
<1>9. CASE /\ losses'[k] = losses[k] /\ ~Fresh(k) /\ ~Fresh(k)'
           /\ \/ fetches'[k] = fetches[k] /\ P' = P
              \/ fetches'[k] = fetches[k] + 1 /\ P' = P + 1
  <2>1. fetches'[k] <= a + panics[k] + P'
    BY <1>1, <1>3, <1>5, <1>9
  <2>2. CASE evictions'[k] = e
    BY Zenon, <1>4, <1>5, <1>9, <2>1, <2>2
  <2>3. CASE evictions'[k] = e + 1
    BY <1>1, <1>4, <1>5, <1>6, <1>9, <2>1, <2>3
  <2> QED
    BY Zenon, <1>5, <2>2, <2>3 DEF CalmStep
<1> QED
  BY Zenon, <1>7, <1>8, <1>9 DEF CalmStep

\* So does a panic.
LEMMA PanicKept ==
  ASSUME TypeOK, FlightsCounted, NEW k \in Keys, PanicStep(k)
  PROVE  fetches'[k] <= Accounted(k)'
<1> DEFINE P == Cardinality(FetchersOf(k))
           a == losses[k] * (evictions[k] + 1)
<1>1. /\ evictions[k] \in Nat /\ losses[k] \in Nat /\ fetches[k] \in Nat
      /\ panics[k] \in Nat /\ P \in Nat
  BY Zenon, CallersAssumption, FS_Subset, FS_CardinalityType DEF TypeOK, FlightsCounted, FetchersOf
<1>2. a \in Nat
  BY <1>1, FlightArithmetic
<1>3. fetches[k] <= a + panics[k] + IF Fresh(k) THEN evictions[k] + 1 ELSE P
  BY Zenon DEF FlightsCounted, Accounted
<1>4. Accounted(k)' = a + (panics[k] + 1) + IF Fresh(k) THEN evictions[k] + 1 ELSE P - 1
  BY Zenon DEF Accounted, PanicStep, Fresh
<1>5. fetches'[k] = fetches[k]
  BY Zenon DEF PanicStep
<1> HIDE DEF a
<1> QED
  BY <1>1, <1>2, <1>3, <1>4, <1>5

\* What set does to the entry of a key and to what the history says of it.
LEMMA SetFlight ==
  ASSUME TypeOK, FlightsCounted, NEW x \in Keys, set(x), NEW k \in Keys
  PROVE  /\ losses' \in [Keys -> Nat]
         /\ evictions'[k] = evictions[k] \/ evictions'[k] = evictions[k] + 1
         /\ \/ losses'[k] = losses[k] /\ Fresh(k)'
            \/ losses'[k] = losses[k] + 1 /\ Fresh(k) /\ ~Fresh(k)' /\ k # x
            \/ losses'[k] = losses[k] /\ ~Fresh(k) /\ ~Fresh(k)' /\ k # x
<1>1. CASE entries[x] # "absent"
  BY Zenon, <1>1 DEF set, TypeOK, FlightsCounted, Fresh
<1>2. CASE entries[x] = "absent"
  <2>1. entries' = [y \in Keys |-> IF y = x THEN "fresh"
                                   ELSE IF y \in Evicted THEN "absent" ELSE entries[y]]
    BY Zenon, <1>2 DEF set
  <2>2. losses' = [y \in Keys |-> IF y \in { z \in Evicted : Fresh(z) }
                                  THEN losses[y] + 1 ELSE losses[y]]
    BY Zenon, <1>2 DEF set, Loses, Plus
  <2>3. losses' \in [Keys -> Nat]
    BY <2>2 DEF FlightsCounted
  <2>4. losses'[k] = IF k \in Evicted /\ Fresh(k) THEN losses[k] + 1 ELSE losses[k]
    BY Zenon, <2>2
  <2>5. /\ Fresh(k)' <=> (k = x \/ (k \notin Evicted /\ Fresh(k)))
        /\ ~Fresh(x)
    BY Zenon, <1>2, <2>1 DEF Fresh
  <2>6. evictions'[k] = evictions[k] \/ evictions'[k] = evictions[k] + 1
    BY Zenon, SetSteps
  <2> QED
    BY Zenon, <2>3, <2>4, <2>5, <2>6
<1> QED
  BY Zenon, <1>1, <1>2

\* Every step of a caller, every Set, Invalidate and expiry is, for each key,
\* a step of its counts.
LEMMA FlightSteps ==
  ASSUME TypeOK, FlightsCounted, [Next]_vars, NEW k \in Keys
  PROVE  /\ CalmStep(k) \/ PanicStep(k)
         /\ losses' \in [Keys -> Nat] /\ fetches' \in [Keys -> Nat] /\ panics' \in [Keys -> Nat]
<1> DEFINE Typed == losses' \in [Keys -> Nat] /\ fetches' \in [Keys -> Nat] /\ panics' \in [Keys -> Nat]
           Goal == (CalmStep(k) \/ PanicStep(k)) /\ Typed
           S == FetchersOf(k)
           P == Cardinality(S)
<1>0. /\ losses \in [Keys -> Nat] /\ fetches \in [Keys -> Nat] /\ panics \in [Keys -> Nat]
      /\ losses[k] \in Nat /\ fetches[k] \in Nat
      /\ IsFiniteSet(S)
  BY Zenon, CallersAssumption, FS_Subset DEF FlightsCounted, FetchersOf
<1>1. ASSUME UNCHANGED <<entries, history>>, S' = S PROVE Goal
  <2>1. P' = P /\ UNCHANGED <<entries, fetches, panics, losses, evictions>>
    BY Zenon, <1>1 DEF history
  <2> QED
    BY Zenon, <1>0, <2>1 DEF CalmStep, Fresh
<1>2. ASSUME UNCHANGED <<pc, key>> PROVE S' = S
  BY Zenon, <1>2 DEF FetchersOf
<1>3. ASSUME NEW c \in Callers, pc'[c] # "fetch", pc[c] # "fetch" \/ key[c] # k,
             \A d \in Callers : d # c => pc'[d] = pc[d] /\ key'[d] = key[d]
      PROVE  S' = S
  BY Zenon, <1>3 DEF FetchersOf
<1>4. ASSUME NEW c \in Callers, lockFor(c) \/ Lock(c) PROVE Goal
  <2>1. pc'[c] # "fetch" /\ pc[c] # "fetch"
    BY Zenon, <1>4 DEF lockFor, Lock, TypeOK
  <2>2. \A d \in Callers : d # c => pc'[d] = pc[d] /\ key'[d] = key[d]
    BY Zenon, <1>4 DEF lockFor, Lock, TypeOK
  <2> QED
    BY Zenon, <1>1, <1>3, <1>4, <2>1, <2>2 DEF lockFor, Lock, cache
<1>5. ASSUME NEW c \in Callers, SecondHit(c) PROVE Goal
  <2>1. pc'[c] # "fetch" /\ pc[c] # "fetch"
    BY Zenon, <1>5 DEF SecondHit, Unlock, TypeOK
  <2>2. \A d \in Callers : d # c => pc'[d] = pc[d] /\ key'[d] = key[d]
    BY Zenon, <1>5 DEF SecondHit, Unlock, TypeOK
  <2> QED
    BY Zenon, <1>1, <1>3, <1>5, <2>1, <2>2 DEF SecondHit
<1>6. ASSUME NEW c \in Callers, NEW x \in Keys, Miss(c, x) PROVE Goal
  <2>1. pc'[c] # "fetch" /\ pc[c] # "fetch"
    BY Zenon, <1>6 DEF Miss, TypeOK
  <2>2. \A d \in Callers : d # c => pc'[d] = pc[d] /\ key'[d] = key[d]
    BY Zenon, <1>6 DEF Miss, TypeOK
  <2> QED
    BY Zenon, <1>1, <1>3, <1>6, <2>1, <2>2 DEF Miss, cache
<1>7. ASSUME NEW c \in Callers, Fetch(c) PROVE Goal
  <2>1. /\ fetches' = [x \in Keys |-> IF x = key[c] THEN fetches[x] + 1 ELSE fetches[x]]
        /\ UNCHANGED <<entries, panics, losses, evictions, key>>
        /\ pc' = [pc EXCEPT ![c] = "fetch"] /\ pc[c] = "locked" /\ ~Fresh(key[c])
    BY Zenon, <1>7 DEF Fetch, Plus, cache, SecondMiss
  <2>2. CASE key[c] = k
    <3>1. S' = S \cup {c} /\ c \notin S
      BY Zenon, <2>1, <2>2 DEF FetchersOf, TypeOK
    <3>2. P' = P + 1
      BY Zenon, <1>0, <3>1, FS_AddElement
    <3> QED
      BY <1>0, <2>1, <2>2, <3>2 DEF CalmStep, Fresh
  <2>3. CASE key[c] # k
    <3>1. S' = S
      BY Zenon, <2>1, <2>3 DEF FetchersOf, TypeOK
    <3>2. P' = P
      BY Zenon, <3>1
    <3> QED
      BY <1>0, <2>1, <2>3, <3>2 DEF CalmStep, Fresh
  <2> QED
    BY Zenon, <2>2, <2>3
<1>8. ASSUME NEW x \in Keys, set(x), UNCHANGED <<fetches, panics>>, k # x => S' = S PROVE Goal
  <2>1. k # x => P' = P
    BY Zenon, <1>8
  <2> QED
    BY Zenon, <1>0, <1>8, <2>1, SetFlight DEF CalmStep
<1>9. ASSUME NEW c \in Callers, FetchReturns(c) PROVE Goal
  <2>1. key[c] \in Keys /\ set(key[c]) /\ UNCHANGED <<fetches, panics>>
    BY Zenon, <1>9 DEF FetchReturns, TypeOK
  <2>2. pc'[c] # "fetch" /\ \A d \in Callers : d # c => pc'[d] = pc[d] /\ key'[d] = key[d]
    BY Zenon, <1>9 DEF FetchReturns, Unlock, TypeOK
  <2> QED
    BY Zenon, <1>3, <1>8, <2>1, <2>2
<1>10. ASSUME NEW x \in Keys, Set(x) PROVE Goal
  BY Zenon, <1>2, <1>8, <1>10 DEF Set, calls
<1>11. ASSUME NEW x \in Keys, Invalidate(x) \/ Expire(x) PROVE Goal
  <2>1. S' = S
    BY Zenon, <1>2, <1>11 DEF Invalidate, Expire, calls
  <2>2. /\ \E v \in {"absent", "expired"} : entries' = [entries EXCEPT ![x] = v]
        /\ losses' = [y \in Keys |-> IF y = x /\ Fresh(y) THEN losses[y] + 1 ELSE losses[y]]
        /\ UNCHANGED <<fetches, panics, evictions>>
    BY Zenon, <1>11 DEF Invalidate, Expire, Loses, Plus
  <2>3. losses' \in [Keys -> Nat] /\ P' = P
    BY <1>0, <2>1, <2>2
  <2> QED
    BY Zenon, <1>0, <2>2, <2>3 DEF CalmStep, Fresh, TypeOK
<1>12. ASSUME NEW x \in Keys, Hit(x) PROVE Goal
  BY Zenon, <1>1, <1>2, <1>12 DEF Hit, calls
<1>13. CASE UNCHANGED vars
  BY Zenon, <1>1, <1>2, <1>13 DEF vars, cache, calls
<1>14. ASSUME NEW c \in Callers, FetchPanics(c) PROVE Goal
  <2>1. /\ panics' = [x \in Keys |-> IF x = key[c] THEN panics[x] + 1 ELSE panics[x]]
        /\ UNCHANGED <<entries, fetches, losses, evictions, key>>
        /\ pc' = [pc EXCEPT ![c] = "idle"] /\ pc[c] = "fetch"
    BY Zenon, <1>14 DEF FetchPanics, Unlock, Plus, cache
  <2>2. Typed
    BY <1>0, <2>1
  <2>3. CASE key[c] = k
    <3>1. S' = S \ {c} /\ c \in S
      BY Zenon, <2>1, <2>3 DEF FetchersOf, TypeOK
    <3>2. P' = P - 1
      BY Zenon, <1>0, <3>1, FS_RemoveElement
    <3>3. panics'[k] = panics[k] + 1
      BY Zenon, <2>1, <2>3
    <3> QED
      BY Zenon, <2>1, <2>2, <3>2, <3>3 DEF PanicStep
  <2>4. CASE key[c] # k
    <3>1. S' = S
      BY Zenon, <2>1, <2>4 DEF FetchersOf, TypeOK
    <3>2. P' = P /\ panics'[k] = panics[k]
      BY Zenon, <2>1, <2>4, <3>1
    <3> QED
      BY Zenon, <1>0, <2>1, <2>2, <3>2 DEF CalmStep, Fresh
  <2> QED
    BY Zenon, <2>3, <2>4
<1> QED
  BY Zenon, <1>4, <1>5, <1>6, <1>7, <1>9, <1>10, <1>11, <1>12, <1>13, <1>14 DEF Next, Running

\* SingleFlight: however many callers miss at once, the fetches of a key are
\* at most one for each mutex it has had and each time it lost a fresh entry,
\* and one for each fetch that panicked.
THEOREM FlightsShared == Spec => []SingleFlight
<1>1. Init => FlightsCounted
  <2>0. Init => fetches \in [Keys -> Nat] /\ panics \in [Keys -> Nat] /\ losses \in [Keys -> Nat]
    BY DEF Init, Zero
  <2> SUFFICES ASSUME Init, NEW k \in Keys
               PROVE  fetches[k] <= Accounted(k)
    BY Zenon, <2>0 DEF FlightsCounted
  <2>1. FetchersOf(k) = {} /\ ~Fresh(k)
    BY Zenon DEF Init, FetchersOf, Fresh
  <2>2. Cardinality(FetchersOf(k)) = 0
    BY Zenon, <2>1, FS_EmptySet
  <2> QED
    BY <2>1, <2>2 DEF Init, Zero, Accounted
<1>2. TypeOK /\ SerializedButForEvictions /\ FlightsCounted /\ [Next]_vars => FlightsCounted'
  <2> SUFFICES ASSUME TypeOK, SerializedButForEvictions, FlightsCounted, [Next]_vars
               PROVE  FlightsCounted'
    BY Zenon
  <2>1. \A k \in Keys : Cardinality(FetchersOf(k))' \in Nat
    BY Zenon, CallersAssumption, FS_Subset, FS_CardinalityType DEF FetchersOf
  <2>2. \A k \in Keys : fetches'[k] <= Accounted(k)'
    BY Zenon, <2>1, FlightSteps, CalmKept, PanicKept
  <2>3. fetches' \in [Keys -> Nat] /\ panics' \in [Keys -> Nat] /\ losses' \in [Keys -> Nat]
    <3>1. CASE Keys = {}
      <4>1. Callers = {}
        BY Zenon, <3>1 DEF TypeOK
      <4>2. UNCHANGED <<fetches, panics, losses>>
        BY Zenon, <3>1, <4>1 DEF Next, vars, history
      <4> QED
        BY Zenon, <4>2 DEF FlightsCounted
    <3>2. CASE Keys # {}
      BY Zenon, <3>2, FlightSteps
    <3> QED
      BY Zenon, <3>1, <3>2
  <2> QED
    BY Zenon, <2>2, <2>3 DEF FlightsCounted
<1>3. TypeOK /\ SerializedButForEvictions /\ FlightsCounted => SingleFlight
  <2> SUFFICES ASSUME TypeOK, SerializedButForEvictions, FlightsCounted, NEW k \in Keys
               PROVE  fetches[k] <= (losses[k] + 1) * (evictions[k] + 1) + panics[k]
    BY Zenon DEF SingleFlight
  <2>1. /\ evictions[k] \in Nat /\ losses[k] \in Nat /\ fetches[k] \in Nat /\ panics[k] \in Nat
        /\ Cardinality(FetchersOf(k)) \in Nat
    BY Zenon, CallersAssumption, FS_Subset, FS_CardinalityType DEF TypeOK, FlightsCounted, FetchersOf
  <2>2. Cardinality(FetchersOf(k)) <= evictions[k] + 1
    BY <2>1 DEF SerializedButForEvictions
  <2>3. fetches[k] <= losses[k] * (evictions[k] + 1) + (evictions[k] + 1) + panics[k]
    BY <2>1, <2>2, FlightArithmetic DEF FlightsCounted, Accounted
  <2> QED
    BY Zenon, <2>1, <2>3, FlightArithmetic
<1> QED
  BY <1>1, <1>2, <1>3, CacheTypeCorrect, FetchesSerialized, PTL DEF Spec

=============================================================================
