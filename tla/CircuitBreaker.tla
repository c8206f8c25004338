-------------------------- MODULE CircuitBreaker --------------------------
(***************************************************************************)
(* resilience/circuit.go: a three-state circuit breaker, used by any       *)
(* number of concurrent calls of Execute (Calls; each may call again).     *)
(*                                                                         *)
(* canExecute and recordResult are atomic under cb.mu; the function runs   *)
(* between them, so results reach a breaker that has changed state since.  *)
(* The clock is the age of the last failure, cut off at Timeout.  Which    *)
(* call is a probe of the present half-open period, and how many of them   *)
(* panicked, is not recorded by the code: the model keeps it to say what   *)
(* the permits are for.                                                    *)
(***************************************************************************)
EXTENDS Integers, FiniteSets

CONSTANTS Calls,
          FailureThreshold, SuccessThreshold, HalfOpenMaxCalls,
          Timeout   \* in ticks

ASSUME CallsAssumption == IsFiniteSet(Calls)

ASSUME ConfigAssumption ==
    /\ FailureThreshold \in Int /\ SuccessThreshold \in Int
    /\ HalfOpenMaxCalls \in Int /\ Timeout \in Nat

VARIABLES
    state, failures, successes, halfOpenCalls,
    age,      \* time since lastFailure
    call,     \* "out", or the function runs: "probe" if admitted in the
              \* present half-open period, "ordinary" otherwise
    lost,     \* the probes of the present half-open period that panicked
    healthy   \* the service behind the function answers without errors

counts == <<failures, successes, halfOpenCalls>>
breakerVars == <<state, counts, age, call, lost, healthy>>

BreakerInit ==
    /\ state = "closed"
    /\ failures = 0 /\ successes = 0 /\ halfOpenCalls = 0
    /\ age = Timeout
    /\ call = [c \in Calls |-> "out"] /\ lost = 0
    /\ healthy \in BOOLEAN

Probes == { c \in Calls : call[c] = "probe" }

\* Faulty variant: the counters survive the change of state.
transition_KeepsCounts(s, permits, calls) ==
    /\ state' = s
    /\ halfOpenCalls' = permits
    /\ UNCHANGED <<failures, successes>>
    /\ call' = [c \in Calls |-> IF calls[c] = "probe" THEN "ordinary" ELSE calls[c]]
    /\ lost' = 0

\* transition, from which the running calls are no longer probes of the
\* present period; calls are the calls with the one that makes it moved on.
transition(s, permits, calls) ==
    /\ state' = s
    /\ failures' = 0 /\ successes' = 0 /\ halfOpenCalls' = permits
    /\ call' = [c \in Calls |-> IF calls[c] = "probe" THEN "ordinary" ELSE calls[c]]
    /\ lost' = 0

-----------------------------------------------------------------------------
(* canExecute; a refused call returns ErrCircuitOpen and changes nothing. *)

Admit(c) ==
    /\ call[c] = "out" /\ state = "closed"
    /\ call' = [call EXCEPT ![c] = "ordinary"]
    /\ UNCHANGED <<state, counts, age, lost, healthy>>

\* open, and Timeout has passed since the last failure: the first probe.
AdmitFirstProbe(c) ==
    /\ call[c] = "out" /\ state = "open" /\ age >= Timeout
    /\ state' = "half_open"
    /\ failures' = 0 /\ successes' = 0 /\ halfOpenCalls' = 1
    /\ call' = [call EXCEPT ![c] = "probe"]
    /\ UNCHANGED <<age, lost, healthy>>

AdmitProbe(c) ==
    /\ call[c] = "out" /\ state = "half_open"
    /\ halfOpenCalls < HalfOpenMaxCalls
    /\ halfOpenCalls' = halfOpenCalls + 1
    /\ call' = [call EXCEPT ![c] = "probe"]
    /\ UNCHANGED <<state, failures, successes, age, lost, healthy>>

-----------------------------------------------------------------------------
(* recordResult, once the function has returned. *)

recordFailure(c) ==
    LET calls == [call EXCEPT ![c] = "out"] IN
    /\ call[c] # "out" /\ ~healthy
    /\ age' = 0
    /\ IF \/ state = "closed" /\ failures + 1 >= FailureThreshold
          \/ state = "half_open"
       THEN transition("open", 0, calls)
       ELSE /\ failures' = failures + 1 /\ successes' = 0
            /\ call' = calls
            /\ UNCHANGED <<state, halfOpenCalls, lost>>
    /\ UNCHANGED healthy

\* Faulty variant: a successful probe keeps its permit (the fault CHANGELOG
\* records as fixed).
releasePermit_Never == halfOpenCalls

releasePermit == IF halfOpenCalls > 0 THEN halfOpenCalls - 1 ELSE halfOpenCalls

recordSuccess(c) ==
    LET calls == [call EXCEPT ![c] = "out"] IN
    /\ call[c] # "out"
    /\ \/ /\ state = "closed"
          /\ failures' = 0 /\ call' = calls
          /\ UNCHANGED <<state, successes, halfOpenCalls, lost>>
       \/ /\ state = "half_open" /\ successes + 1 >= SuccessThreshold
          /\ transition("closed", 0, calls)
       \/ /\ state = "half_open" /\ successes + 1 < SuccessThreshold
          /\ successes' = successes + 1
          /\ halfOpenCalls' = releasePermit
          /\ call' = calls
          /\ UNCHANGED <<state, failures, lost>>
       \/ /\ state = "open"
          /\ call' = calls
          /\ UNCHANGED <<state, counts, lost>>
    /\ UNCHANGED <<age, healthy>>

\* The function panics, past recordResult, which is not deferred; the
\* registry's handler wrapper recovers and the process goes on.
Panic(c) ==
    /\ call[c] # "out"
    /\ call' = [call EXCEPT ![c] = "out"]
    /\ lost' = IF call[c] = "probe" THEN lost + 1 ELSE lost
    /\ UNCHANGED <<state, counts, age, healthy>>

-----------------------------------------------------------------------------
Reset ==
    /\ state # "closed"
    /\ transition("closed", 0, call)
    /\ UNCHANGED <<age, healthy>>

Tick ==
    /\ age < Timeout
    /\ age' = age + 1
    /\ UNCHANGED <<state, counts, call, lost, healthy>>

\* The service breaks or mends.
HealthChange ==
    /\ healthy' = ~healthy
    /\ UNCHANGED <<state, counts, age, call, lost>>

canExecute(c) == Admit(c) \/ AdmitFirstProbe(c) \/ AdmitProbe(c)

recordResult(c) == recordFailure(c) \/ recordSuccess(c)

BreakerNext ==
    \/ \E c \in Calls : canExecute(c) \/ recordResult(c) \/ Panic(c)
    \/ Reset \/ Tick \/ HealthChange

BreakerSpec == BreakerInit /\ [][BreakerNext]_breakerVars

\* Calls keep coming, the functions they run return, and time passes.
BreakerFairness ==
    /\ WF_breakerVars(\E c \in Calls : canExecute(c))
    /\ \A c \in Calls : WF_breakerVars(recordResult(c))
    /\ WF_breakerVars(Tick)

BreakerFairSpec == BreakerSpec /\ BreakerFairness

-----------------------------------------------------------------------------
\* The counters are natural numbers and below their thresholds while the
\* breaker has not acted on them.
BreakerTypeOK ==
    /\ state \in {"closed", "open", "half_open"}
    /\ failures \in Nat /\ successes \in Nat /\ halfOpenCalls \in Nat
    /\ state = "closed" => failures = 0 \/ failures < FailureThreshold
    /\ state = "half_open" => successes = 0 \/ successes < SuccessThreshold
    /\ age \in 0..Timeout /\ lost \in Nat
    /\ call \in [Calls -> {"out", "ordinary", "probe"}]

Permits == IF HalfOpenMaxCalls > 1 THEN HalfOpenMaxCalls ELSE 1

\* halfOpenCalls counts the probes of the present half-open period that run
\* or have panicked, short of at most one for every success: a call admitted
\* before the period returns a permit it never took.
ProbeAccounting ==
    /\ state # "half_open" =>
          Probes = {} /\ successes = 0 /\ halfOpenCalls = 0 /\ lost = 0
    /\ halfOpenCalls <= Permits
    /\ halfOpenCalls <= Cardinality(Probes) + lost
    /\ Cardinality(Probes) <= halfOpenCalls + successes

\* The half-open breaker runs no more probes at one time than its permits
\* and the successes of earlier calls that it may count, less than
\* SuccessThreshold of them.
ProbeBound ==
    Cardinality(Probes) <=
        Permits + (IF SuccessThreshold > 1 THEN SuccessThreshold - 1 ELSE 0)

\* recordSuccess:178: a half-open breaker is never latched, "rejecting every
\* call forever": it has a permit left, or a probe of it is still running.
NotLatched ==
    state = "half_open" => halfOpenCalls < HalfOpenMaxCalls \/ Probes # {}

\* Only a panicking probe latches a half-open breaker; results that arrive
\* late, in any order, never do.
OnlyPanicLatches == NotLatched \/ lost > 0

\* Once the service is healthy for good and no probe panics, the breaker
\* closes for good, whatever state the earlier failures left it in and
\* whenever the results of earlier calls arrive.
Recovers == <>[](healthy /\ lost = 0) => <>[](state = "closed")

=============================================================================
