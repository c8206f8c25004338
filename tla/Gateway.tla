------------------------------ MODULE Gateway ------------------------------
(***************************************************************************)
(* gateway.Gateway, which publishes the tools of upstream MCP servers, the *)
(* upstream connections with their health loops, and                       *)
(* DynamicUpstreamRegistry, through which a server manages them at run     *)
(* time.  AddUpstream works unlocked between its two critical sections,    *)
(* and starts the health loop and records the configuration after the      *)
(* second; RemoveUpstream closes the connection unlocked.                  *)
(*                                                                         *)
(* An upstream object and its connection are named by the call of          *)
(* AddUpstream that made them.  toolMap and the registry's tools are       *)
(* written in the critical sections that write upstreams, and are a        *)
(* function of it.  A server either manages its upstreams through the      *)
(* registry only, or calls the gateway directly.                           *)
(***************************************************************************)
EXTENDS Integers

CONSTANTS Names, Adds, Removes,
          UnhealthyThreshold,  \* UpstreamConfig.UnhealthyThreshold
          None

ASSUME ThresholdAssumption == UnhealthyThreshold \in Nat \ {0}

ASSUME NoneAssumption == None \notin Adds

VARIABLES
    upstreams,  \* g.upstreams: the object published under each name, or None
    managed,    \* whether the upstreams are managed through the registry
    closed,     \* g.closed
    configs,    \* d.configs: the names of DynamicUpstreamRegistry
    add,        \* where each call of Add is
    remove,     \* where each call of Remove is
    conn,       \* the connection of each upstream object
    loop,       \* the health loop of each upstream object
    healthy,    \* the upstream objects whose healthy flag is set
    failCount,  \* the failed pings of each upstream object
    late        \* the calls that had passed the test of closed when Close came

health == <<healthy, failCount>>

gatewayVars == <<upstreams, managed, closed, configs, add, remove, conn, loop, health, late>>

GatewayInit ==
    /\ upstreams = [n \in Names |-> None]
    /\ managed \in BOOLEAN
    /\ closed = FALSE
    /\ configs = {}
    /\ add = [a \in Adds |-> [pc |-> "idle", name |-> None]]
    /\ remove = [x \in Removes |-> [pc |-> "idle", name |-> None, upstream |-> None]]
    /\ conn = [a \in Adds |-> "none"]
    /\ loop = [a \in Adds |-> "off"]
    /\ healthy = {}
    /\ failCount = [a \in Adds |-> 0]
    /\ late = {}

Published(n) == upstreams[n] # None

-----------------------------------------------------------------------------
(* DynamicUpstreamRegistry.Add and Gateway.AddUpstream. *)

At(a, pc) == add[a].pc = pc

AddGoto(a, pc) == add' = [add EXCEPT ![a].pc = pc]

Add(a, n) ==
    /\ At(a, "idle")
    /\ add' = [add EXCEPT ![a] = [pc |-> IF n \in configs THEN "error" ELSE "check", name |-> n]]
    /\ UNCHANGED <<upstreams, managed, closed, configs, remove, conn, loop, health, late>>

\* Faulty variant: a closed gateway still takes upstreams.
MayAdd_Closed(n) == ~Published(n)

MayAdd(n) == ~closed /\ ~Published(n)

\* The first critical section of AddUpstream.
AddUpstream(a) ==
    /\ At(a, "check")
    /\ AddGoto(a, IF MayAdd(add[a].name) THEN "connect" ELSE "error")
    /\ UNCHANGED <<upstreams, managed, closed, configs, remove, conn, loop, health, late>>

connect(a) ==
    /\ At(a, "connect")
    /\ \/ /\ AddGoto(a, "sync")
          /\ conn' = [conn EXCEPT ![a] = "open"]
          /\ healthy' = healthy \cup {a}
       \/ AddGoto(a, "error") /\ UNCHANGED <<conn, healthy>>
    /\ UNCHANGED <<upstreams, managed, closed, configs, remove, loop, failCount, late>>

\* upstream.close: cancelHealth, if the loop was started, and client.close.
close(objects) ==
    /\ conn' = [a \in Adds |-> IF a \in objects THEN "closed" ELSE conn[a]]
    /\ loop' = [a \in Adds |-> IF a \in objects /\ loop[a] = "on" THEN "canceled" ELSE loop[a]]

syncTools(a) ==
    /\ At(a, "sync")
    /\ \/ AddGoto(a, "publish") /\ UNCHANGED <<conn, loop>>
       \/ AddGoto(a, "error") /\ close({a})
    /\ UNCHANGED <<upstreams, managed, closed, configs, remove, health, late>>

\* Faulty variant: the loser of a race for a name keeps its connection.
Lose_Open(a) == AddGoto(a, "error") /\ UNCHANGED <<conn, loop>>

Lose(a) == AddGoto(a, "error") /\ close({a})

\* The second critical section: the upstream and its tools are published.
PublishUpstream(a) ==
    /\ At(a, "publish")
    /\ IF Published(add[a].name)
       THEN Lose(a) /\ UNCHANGED upstreams
       ELSE /\ upstreams' = [upstreams EXCEPT ![add[a].name] = a]
            /\ AddGoto(a, "health")
            /\ UNCHANGED <<conn, loop>>
    /\ UNCHANGED <<managed, closed, configs, remove, health, late>>

startHealthLoop(a) ==
    /\ At(a, "health")
    /\ loop' = [loop EXCEPT ![a] = "on"]
    /\ AddGoto(a, "record")
    /\ UNCHANGED <<upstreams, managed, closed, configs, remove, conn, health, late>>

\* Add records the configuration.
Record(a) ==
    /\ At(a, "record")
    /\ configs' = IF managed THEN configs \cup {add[a].name} ELSE configs
    /\ AddGoto(a, "done")
    /\ UNCHANGED <<upstreams, managed, closed, remove, conn, loop, health, late>>

-----------------------------------------------------------------------------
(* DynamicUpstreamRegistry.Remove, Gateway.RemoveUpstream and Gateway.Close. *)

\* Faulty variant: the configuration is dropped only once the upstream is gone.
Remove_Late(x, n) ==
    /\ remove[x].pc = "idle" /\ (managed => n \in configs)
    /\ remove' = [remove EXCEPT ![x].pc = "remove", ![x].name = n]
    /\ UNCHANGED <<upstreams, managed, closed, configs, add, conn, loop, health, late>>

Remove(x, n) ==
    /\ remove[x].pc = "idle" /\ (managed => n \in configs)
    /\ configs' = configs \ {n}
    /\ remove' = [remove EXCEPT ![x].pc = "remove", ![x].name = n]
    /\ UNCHANGED <<upstreams, managed, closed, add, conn, loop, health, late>>

RemoveUpstream(x) ==
    LET n == remove[x].name IN
    /\ remove[x].pc = "remove"
    /\ IF Published(n)
       THEN /\ upstreams' = [upstreams EXCEPT ![n] = None]
            /\ remove' = [remove EXCEPT ![x].pc = "close", ![x].upstream = upstreams[n]]
       ELSE /\ remove' = [remove EXCEPT ![x].pc = "done"]
            /\ UNCHANGED upstreams
    /\ UNCHANGED <<managed, closed, configs, add, conn, loop, health, late>>

CloseRemoved(x) ==
    /\ remove[x].pc = "close"
    /\ close({remove[x].upstream})
    /\ remove' = [remove EXCEPT ![x].pc = "done", ![x].upstream = None]
    /\ UNCHANGED <<upstreams, managed, closed, configs, add, health, late>>

\* Close leaves the upstreams in the map.
Close ==
    /\ ~closed
    /\ closed' = TRUE
    /\ close({ a \in Adds : \E n \in Names : upstreams[n] = a })
    /\ late' = { a \in Adds : add[a].pc \in {"connect", "sync", "publish"} }
    /\ UNCHANGED <<upstreams, managed, configs, add, remove, health>>

-----------------------------------------------------------------------------
(* The health loop of an upstream, which select may run once more after the *)
(* loop is canceled.                                                        *)

Pinging(a) ==
    /\ loop[a] \in {"on", "canceled"}
    /\ UNCHANGED <<upstreams, managed, closed, configs, add, remove, conn, loop, late>>

\* Failures beyond the threshold change nothing, and are not counted here.
PingFails(a) ==
    /\ Pinging(a) /\ failCount[a] < UnhealthyThreshold
    /\ failCount' = [failCount EXCEPT ![a] = @ + 1]
    /\ healthy' = IF failCount'[a] >= UnhealthyThreshold THEN healthy \ {a} ELSE healthy

PingSucceeds(a) ==
    /\ Pinging(a) /\ conn[a] = "open"
    /\ failCount' = [failCount EXCEPT ![a] = 0]
    /\ healthy' = healthy \cup {a}

\* The loop is canceled, or the context AddUpstream was called with ends.
LoopEnds(a) ==
    /\ loop[a] \in {"on", "canceled"}
    /\ loop' = [loop EXCEPT ![a] = "stopped"]
    /\ UNCHANGED <<upstreams, managed, closed, configs, add, remove, conn, health, late>>

-----------------------------------------------------------------------------

AddStep(a) ==
    AddUpstream(a) \/ connect(a) \/ syncTools(a) \/ PublishUpstream(a) \/ startHealthLoop(a) \/ Record(a)

RemoveStep(x) == RemoveUpstream(x) \/ CloseRemoved(x)

GatewayNext ==
    \/ \E a \in Adds : AddStep(a) \/ \E n \in Names : Add(a, n)
    \/ \E x \in Removes : RemoveStep(x) \/ \E n \in Names : Remove(x, n)
    \/ Close
    \/ \E a \in Adds : PingFails(a) \/ PingSucceeds(a) \/ LoopEnds(a)

GatewaySpec == GatewayInit /\ [][GatewayNext]_gatewayVars

-----------------------------------------------------------------------------
(* Properties. *)

Removing(a) == \E x \in Removes : remove[x].upstream = a

InMap(a) == \E n \in Names : upstreams[n] = a

Owned(a) == InMap(a) \/ Removing(a) \/ add[a].pc \in {"sync", "publish"}

AddSteps == {"idle", "check", "connect", "sync", "publish", "health", "record", "done", "error"}

\* GatewayTypeOK: the types of the variables, and that only a RemoveUpstream that is
\* about to close an upstream holds one.
GatewayTypeOK ==
    /\ upstreams \in [Names -> Adds \cup {None}]
    /\ managed \in BOOLEAN /\ closed \in BOOLEAN
    /\ configs \subseteq Names /\ late \subseteq Adds
    /\ add \in [Adds -> [pc : AddSteps, name : Names \cup {None}]]
    /\ remove \in [Removes -> [pc : {"idle", "remove", "close", "done"}, name : Names \cup {None},
                               upstream : Adds \cup {None}]]
    /\ conn \in [Adds -> {"none", "open", "closed"}]
    /\ loop \in [Adds -> {"off", "on", "canceled", "stopped"}]
    /\ healthy \subseteq Adds
    /\ failCount \in [Adds -> 0 .. UnhealthyThreshold]
    /\ \A a \in Adds : add[a].pc # "idle" => add[a].name \in Names
    /\ \A x \in Removes : /\ remove[x].pc # "idle" => remove[x].name \in Names
                          /\ remove[x].pc = "close" <=> remove[x].upstream # None

\* ConnectionsOwned: an open connection belongs to a published upstream, to the
\* AddUpstream that opened it, or to the RemoveUpstream that is about to close
\* it: whatever races for a name, no connection is forgotten.
ConnectionsOwned == \A a \in Adds : conn[a] = "open" => Owned(a)

\* ConfigsPublished: the registry lists only upstreams that the gateway has,
\* although the two are written under different locks.
ConfigsPublished == \A n \in configs : Published(n)

\* ClosedButForLate: a closed gateway has no open connection, but for the ones
\* of the AddUpstream calls it overtook.
ClosedButForLate == closed => \A a \in Adds : InMap(a) /\ conn[a] = "open" => a \in late

-----------------------------------------------------------------------------
(* What the properties rest on. *)

\* A published upstream is published under its name, by a call past publishing.
Placed ==
    \A n \in Names : Published(n) =>
        add[upstreams[n]].name = n /\ add[upstreams[n]].pc \in {"health", "record", "done"}

\* A closed gateway knows every call that may still publish.
LateKnown == closed => \A a \in Adds : add[a].pc \in {"connect", "sync", "publish"} => a \in late

Settled(n) == Published(n) /\ add[upstreams[n]].pc = "done"

\* A managed upstream is listed, or about to be listed, or about to be removed.
ManagedInv ==
    /\ ~managed => configs = {}
    /\ \A n \in configs : Settled(n)
    /\ managed =>
        /\ \A x \in Removes : remove[x].pc = "remove" => remove[x].name \notin configs /\ Settled(remove[x].name)
        /\ \A x, y \in Removes :
               remove[x].pc = "remove" /\ remove[y].pc = "remove" /\ remove[x].name = remove[y].name => x = y
        /\ \A a \in Adds : add[a].pc \in {"health", "record"} => upstreams[add[a].name] = a

=============================================================================
