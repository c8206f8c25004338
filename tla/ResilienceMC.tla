---------------------------- MODULE ResilienceMC ----------------------------
(***************************************************************************)
(* Small instances of the two components of the resilience package for     *)
(* TLC.  They share no state, so that each is explored on its own: the     *)
(* first state says which, and the other one never moves.                  *)
(***************************************************************************)
EXTENDS CircuitBreaker, KeyedCache

VARIABLE component

AnyKey == CHOOSE k \in Keys : TRUE

MCInit ==
    /\ BreakerInit /\ Init
    /\ \/ component = "breaker" /\ key = [c \in Callers |-> AnyKey]
       \/ component = "cache" /\ healthy

BreakerMoves == component = "breaker" /\ BreakerNext /\ UNCHANGED <<vars, component>>

CacheMoves == component = "cache" /\ Next /\ UNCHANGED <<breakerVars, component>>

\* The fairness of BreakerFairSpec and FairSpec, each for its component.
MCFairness ==
    /\ WF_breakerVars(BreakerMoves /\ \E c \in Calls : canExecute(c))
    /\ \A c \in Calls : WF_breakerVars(BreakerMoves /\ recordResult(c))
    /\ WF_breakerVars(BreakerMoves /\ Tick)
    /\ \A c \in Callers : SF_vars(CacheMoves /\ Running(c))

MCSpec == MCInit /\ [][BreakerMoves \/ CacheMoves]_<<breakerVars, vars, component>> /\ MCFairness

=============================================================================
