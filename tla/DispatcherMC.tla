---------------------------- MODULE DispatcherMC ----------------------------
(***************************************************************************)
(* Three calls fill the queue of two while a worker holds a job.  Calls    *)
(* are made in order, which loses nothing: their names are                 *)
(* interchangeable, and no call is bound to come.  One handler fails or    *)
(* one caller gives up, and one job at a time is more urgent than the      *)
(* others.                                                                 *)
(***************************************************************************)
EXTENDS Dispatcher, JobHeapMC

CONSTANTS c1, c2, c3, g1

OneGroupLimits == (g1 :> 1)

Urgent == 2

InOrder ==
    /\ call[c2] # "new" => call[c1] # "new"
    /\ call[c3] # "new" => call[c2] # "new"

Erring == { w \in Workers : worker[w] \in {"returned", "counted"} /\ result[w] = "err" }

Cancelled == { c \in Calls : call[c] = "cancelled" }

Pending ==
    { queue[i] : i \in 1..Len(queue) } \cup { job[w] : w \in { v \in Workers : job[v] # None } }

MCBound ==
    /\ InOrder
    /\ failed + Cardinality(Erring) + Cardinality(Cancelled) <= 1
    /\ Cardinality({ j \in Pending : j.priority = Urgent }) <= 1

=============================================================================
