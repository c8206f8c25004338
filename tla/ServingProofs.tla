--------------------------- MODULE ServingProofs ---------------------------
(***************************************************************************)
(* Proofs about the gateway, for any number of names, calls of Add and     *)
(* calls of Remove, managed or not; and about tool calls behind the        *)
(* middlewares, for any finite number of calls in flight, any number of    *)
(* cancels and any budget.                                                 *)
(***************************************************************************)
EXTENDS Gateway, ToolCalls, TLAPS, FiniteSetTheorems

(* The gateway. *)

USE DEF health

\* The steps of the health loops.
HealthStep(a) == PingFails(a) \/ PingSucceeds(a) \/ LoopEnds(a)

\* A health loop writes only the health and the loop of its upstream.
LEMMA HealthFrame ==
  ASSUME GatewayTypeOK, NEW a \in Adds, HealthStep(a)
  PROVE  GatewayTypeOK' /\ UNCHANGED <<upstreams, managed, closed, configs, add, remove, conn, late>>
<1>1. CASE PingFails(a)
  BY <1>1, ThresholdAssumption DEF PingFails, Pinging, GatewayTypeOK
<1>2. CASE PingSucceeds(a)
  BY <1>2, ThresholdAssumption DEF PingSucceeds, Pinging, GatewayTypeOK
<1>3. CASE LoopEnds(a)
  BY Zenon, <1>3 DEF LoopEnds, GatewayTypeOK
<1> QED
  BY Zenon, <1>1, <1>2, <1>3 DEF HealthStep

\* A call of Remove that begins is a call of Remove.
LEMMA RemoveBegun ==
    ASSUME NEW r \in [pc : {"idle", "remove", "close", "done"}, name : Names \cup {None}, upstream : Adds \cup {None}],
           NEW n \in Names
    PROVE  [r EXCEPT !.pc = "remove", !.name = n] \in
              [pc : {"idle", "remove", "close", "done"}, name : Names \cup {None}, upstream : Adds \cup {None}]
BY Zenon

\* Every step keeps the types.
LEMMA GatewayTypeStep == GatewayTypeOK /\ [GatewayNext]_gatewayVars => GatewayTypeOK'
<1> SUFFICES ASSUME GatewayTypeOK, [GatewayNext]_gatewayVars PROVE GatewayTypeOK'
  BY Zenon
<1> USE ThresholdAssumption, NoneAssumption DEF GatewayTypeOK, AddSteps
<1>1. ASSUME NEW a \in Adds, NEW n \in Names, Add(a, n) PROVE GatewayTypeOK'
  BY Zenon, <1>1 DEF Add, At
<1>2. ASSUME NEW a \in Adds, AddUpstream(a) PROVE GatewayTypeOK'
  BY <1>2 DEF AddUpstream, At, AddGoto
<1>3. ASSUME NEW a \in Adds, connect(a) PROVE GatewayTypeOK'
  <2>1. CASE AddGoto(a, "sync") /\ conn' = [conn EXCEPT ![a] = "open"] /\ healthy' = healthy \cup {a}
    BY <1>3, <2>1 DEF connect, At, AddGoto
  <2>2. CASE AddGoto(a, "error") /\ UNCHANGED <<conn, healthy>>
    BY <1>3, <2>2 DEF connect, At, AddGoto
  <2> QED
    BY Zenon, <1>3, <2>1, <2>2 DEF connect
<1>4. ASSUME NEW a \in Adds, syncTools(a) PROVE GatewayTypeOK'
  <2>1. CASE AddGoto(a, "publish") /\ UNCHANGED <<conn, loop>>
    BY <1>4, <2>1 DEF syncTools, At, AddGoto
  <2>2. CASE AddGoto(a, "error") /\ close({a})
    BY <1>4, <2>2 DEF syncTools, At, AddGoto, close
  <2> QED
    BY Zenon, <1>4, <2>1, <2>2 DEF syncTools
<1>5. ASSUME NEW a \in Adds, PublishUpstream(a) PROVE GatewayTypeOK'
  <2>1. CASE Published(add[a].name)
    <3>1. /\ AddGoto(a, "error") /\ close({a}) /\ add[a].pc # "idle"
          /\ UNCHANGED <<upstreams, managed, closed, configs, remove, health, late>>
      BY Zenon, <1>5, <2>1 DEF PublishUpstream, Lose, At
    <3> QED
      BY Zenon, <3>1 DEF AddGoto, close
  <2>2. CASE ~Published(add[a].name)
    <3>1. /\ AddGoto(a, "health") /\ upstreams' = [upstreams EXCEPT ![add[a].name] = a] /\ add[a].pc # "idle"
          /\ UNCHANGED <<managed, closed, configs, remove, conn, loop, health, late>>
      BY Zenon, <1>5, <2>2 DEF PublishUpstream, At
    <3> QED
      BY <3>1 DEF AddGoto
  <2> QED
    BY Zenon, <2>1, <2>2
<1>6. ASSUME NEW a \in Adds, startHealthLoop(a) PROVE GatewayTypeOK'
  BY <1>6 DEF startHealthLoop, At, AddGoto
<1>7. ASSUME NEW a \in Adds, Record(a) PROVE GatewayTypeOK'
  BY <1>7 DEF Record, At, AddGoto
<1>8. ASSUME NEW x \in Removes, NEW n \in Names, Remove(x, n) PROVE GatewayTypeOK'
  <2>1. /\ configs' \subseteq Names /\ remove[x].pc = "idle"
        /\ UNCHANGED <<upstreams, managed, closed, add, conn, loop, health, late>>
    BY Zenon, <1>8 DEF Remove
  <2>2. /\ remove' = [remove EXCEPT ![x].pc = "remove", ![x].name = n]
        /\ remove[x].upstream = None
    BY Zenon, <1>8 DEF Remove
  <2>3. remove' \in [Removes -> [pc : {"idle", "remove", "close", "done"}, name : Names \cup {None},
                                upstream : Adds \cup {None}]]
    <3>1. remove' = [remove EXCEPT ![x] = [remove[x] EXCEPT !.pc = "remove", !.name = n]]
      BY Zenon, <2>2
    <3>2. [remove[x] EXCEPT !.pc = "remove", !.name = n] \in
              [pc : {"idle", "remove", "close", "done"}, name : Names \cup {None}, upstream : Adds \cup {None}]
      BY Zenon, RemoveBegun
    <3> QED
      BY Zenon, <3>1, <3>2
  <2>4. ASSUME NEW y \in Removes
        PROVE  /\ remove'[y].pc # "idle" => remove'[y].name \in Names
               /\ remove'[y].pc = "close" <=> remove'[y].upstream # None
    BY <2>1, <2>2
  <2> QED
    BY Zenon, <2>1, <2>3, <2>4
<1>9. ASSUME NEW x \in Removes, RemoveUpstream(x) PROVE GatewayTypeOK'
  <2> DEFINE n == remove[x].name
  <2>1. n \in Names /\ remove[x].upstream = None
    BY Zenon, <1>9 DEF RemoveUpstream
  <2>2. CASE Published(n)
    <3>1. /\ upstreams' = [upstreams EXCEPT ![n] = None]
          /\ remove' = [remove EXCEPT ![x].pc = "close", ![x].upstream = upstreams[n]]
          /\ UNCHANGED <<managed, closed, configs, add, conn, loop, health, late>>
      BY Zenon, <1>9, <2>2 DEF RemoveUpstream
    <3>2. upstreams[n] \in Adds
      BY Zenon, <2>1, <2>2 DEF Published
    <3> QED
      BY <2>1, <3>1, <3>2
  <2>3. CASE ~Published(n)
    <3>1. /\ remove' = [remove EXCEPT ![x].pc = "done"]
          /\ UNCHANGED <<upstreams, managed, closed, configs, add, conn, loop, health, late>>
      BY Zenon, <1>9, <2>3 DEF RemoveUpstream
    <3> QED
      BY <2>1, <3>1
  <2> QED
    BY Zenon, <2>2, <2>3
<1>10. ASSUME NEW x \in Removes, CloseRemoved(x) PROVE GatewayTypeOK'
  BY <1>10 DEF CloseRemoved, close
<1>11. CASE Close
  BY Zenon, <1>11 DEF Close, close
<1>12. ASSUME NEW a \in Adds, HealthStep(a) PROVE GatewayTypeOK'
  BY Zenon, <1>12, HealthFrame
<1>13. CASE UNCHANGED gatewayVars
  BY Zenon, <1>13 DEF gatewayVars
<1> QED
  BY Zenon, <1>1, <1>2, <1>3, <1>4, <1>5, <1>6, <1>7, <1>8, <1>9, <1>10, <1>11, <1>12, <1>13
  DEF GatewayNext, AddStep, RemoveStep, HealthStep

\* The gateway's state is type correct in every reachable state.
THEOREM GatewayTypeCorrect == GatewaySpec => []GatewayTypeOK
<1>1. GatewayInit => GatewayTypeOK
  <2> SUFFICES ASSUME GatewayInit PROVE GatewayTypeOK
    BY Zenon
  <2>1. add \in [Adds -> [pc : AddSteps, name : Names \cup {None}]] /\ \A a \in Adds : add[a].pc = "idle"
    BY Zenon DEF GatewayInit, AddSteps
  <2>2. /\ remove \in [Removes -> [pc : {"idle", "remove", "close", "done"}, name : Names \cup {None},
                                  upstream : Adds \cup {None}]]
        /\ \A x \in Removes : remove[x].pc = "idle" /\ remove[x].upstream = None
    BY Zenon DEF GatewayInit
  <2>3. failCount \in [Adds -> 0 .. UnhealthyThreshold]
    BY ThresholdAssumption DEF GatewayInit
  <2> QED
    BY Zenon, <2>1, <2>2, <2>3 DEF GatewayInit, GatewayTypeOK
<1> QED
  BY <1>1, GatewayTypeStep, PTL DEF GatewaySpec

-----------------------------------------------------------------------------
(* Connections. *)

\* Every step keeps each open connection in somebody's hands.
LEMMA OwnedStep == GatewayTypeOK /\ ConnectionsOwned /\ [GatewayNext]_gatewayVars => ConnectionsOwned'
<1> SUFFICES ASSUME GatewayTypeOK, ConnectionsOwned, [GatewayNext]_gatewayVars, NEW b \in Adds, conn'[b] = "open"
             PROVE  Owned(b)'
  BY Zenon DEF ConnectionsOwned
<1> USE NoneAssumption DEF GatewayTypeOK, ConnectionsOwned, Owned, InMap, Removing
<1>1. ASSUME NEW a \in Adds, NEW n \in Names, Add(a, n) PROVE Owned(b)'
  BY Zenon, <1>1 DEF Add, At
<1>2. ASSUME NEW a \in Adds, AddUpstream(a) PROVE Owned(b)'
  BY Zenon, <1>2 DEF AddUpstream, At, AddGoto
<1>3. ASSUME NEW a \in Adds, connect(a) PROVE Owned(b)'
  BY <1>3 DEF connect, At, AddGoto
<1>4. ASSUME NEW a \in Adds, syncTools(a) PROVE Owned(b)'
  <2>1. CASE b = a
    BY <1>4, <2>1 DEF syncTools, At, AddGoto, close
  <2>2. CASE b # a
    BY <1>4, <2>2 DEF syncTools, At, AddGoto, close
  <2> QED
    BY Zenon, <2>1, <2>2
<1>5. ASSUME NEW a \in Adds, PublishUpstream(a) PROVE Owned(b)'
  BY <1>5 DEF PublishUpstream, Published, Lose, At, AddGoto, close
<1>6. ASSUME NEW a \in Adds, startHealthLoop(a) \/ Record(a) PROVE Owned(b)'
  BY Zenon, <1>6 DEF startHealthLoop, Record, At, AddGoto
<1>7. ASSUME NEW x \in Removes, NEW n \in Names, Remove(x, n) PROVE Owned(b)'
  BY Zenon, <1>7 DEF Remove
<1>8. ASSUME NEW x \in Removes, RemoveUpstream(x) PROVE Owned(b)'
  <2>1. CASE upstreams[remove[x].name] = b
    <3>1. remove'[x].upstream = b
      BY <1>8, <2>1 DEF RemoveUpstream, Published
    <3> QED
      BY Zenon, <3>1
  <2>2. CASE upstreams[remove[x].name] # b
    <3>1. conn[b] = "open" /\ remove[x].upstream # b /\ add' = add
      BY Zenon, <1>8 DEF RemoveUpstream
    <3>2. \A n \in Names : upstreams[n] = b => upstreams'[n] = b
      BY Zenon, <1>8, <2>2 DEF RemoveUpstream
    <3>3. \A y \in Removes : remove[y].upstream = b => remove'[y].upstream = b
      BY Zenon, <1>8, <3>1 DEF RemoveUpstream
    <3> QED
      BY Zenon, <3>1, <3>2, <3>3
  <2> QED
    BY Zenon, <2>1, <2>2
<1>9. ASSUME NEW x \in Removes, CloseRemoved(x) PROVE Owned(b)'
  BY Zenon, <1>9 DEF CloseRemoved, close
<1>10. CASE Close
  BY Zenon, <1>10 DEF Close, close
<1>11. ASSUME NEW a \in Adds, HealthStep(a) PROVE Owned(b)'
  BY Zenon, <1>11, HealthFrame
<1>12. CASE UNCHANGED gatewayVars
  BY Zenon, <1>12 DEF gatewayVars
<1> QED
  BY Zenon, <1>1, <1>2, <1>3, <1>4, <1>5, <1>6, <1>7, <1>8, <1>9, <1>10, <1>11, <1>12
  DEF GatewayNext, AddStep, RemoveStep, HealthStep

\* However Add, Remove and Close race, no open connection is forgotten.
THEOREM NoneForgotten == GatewaySpec => []ConnectionsOwned
<1>1. GatewayInit => ConnectionsOwned
  BY Zenon DEF GatewayInit, ConnectionsOwned
<1> QED
  BY <1>1, OwnedStep, GatewayTypeCorrect, PTL DEF GatewaySpec

\* Every step keeps published upstreams under their names.
LEMMA PlacedStep == GatewayTypeOK /\ Placed /\ [GatewayNext]_gatewayVars => Placed'
<1> SUFFICES ASSUME GatewayTypeOK, Placed, [GatewayNext]_gatewayVars PROVE Placed'
  BY Zenon
<1> USE NoneAssumption DEF GatewayTypeOK, Placed, Published
<1>1. ASSUME NEW a \in Adds, NEW n \in Names, Add(a, n) PROVE Placed'
  BY <1>1 DEF Add, At
<1>2. ASSUME NEW a \in Adds, AddUpstream(a) PROVE Placed'
  BY <1>2 DEF AddUpstream, At, AddGoto
<1>3. ASSUME NEW a \in Adds, connect(a) PROVE Placed'
  <2>1. add[a].pc = "connect" /\ upstreams' = upstreams /\ \E s \in {"sync", "error"} : AddGoto(a, s)
    BY Zenon, <1>3 DEF connect, At
  <2>2. \A c \in Adds : c # a => add'[c] = add[c]
    BY <2>1 DEF AddGoto
  <2> QED
    BY <2>1, <2>2
<1>4. ASSUME NEW a \in Adds, syncTools(a) PROVE Placed'
  BY <1>4 DEF syncTools, At, AddGoto
<1>5. ASSUME NEW a \in Adds, PublishUpstream(a) PROVE Placed'
  <2>1. add[a].pc = "publish" /\ add[a].name \in Names
    BY Zenon, <1>5 DEF PublishUpstream, At
  <2>2. \A c \in Adds : c # a => add'[c] = add[c]
    BY <1>5 DEF PublishUpstream, Lose, AddGoto
  <2>3. \A n \in Names : upstreams[n] # a
    BY Zenon, <2>1
  <2>4. CASE upstreams' = upstreams
    BY <2>2, <2>3, <2>4
  <2>5. CASE upstreams' = [upstreams EXCEPT ![add[a].name] = a] /\ AddGoto(a, "health")
    BY <2>1, <2>2, <2>5 DEF AddGoto
  <2> QED
    BY Zenon, <1>5, <2>4, <2>5 DEF PublishUpstream
<1>6. ASSUME NEW a \in Adds, startHealthLoop(a) \/ Record(a) PROVE Placed'
  BY <1>6 DEF startHealthLoop, Record, At, AddGoto
<1>7. ASSUME NEW x \in Removes, NEW n \in Names, Remove(x, n) PROVE Placed'
  BY Zenon, <1>7 DEF Remove
<1>8. ASSUME NEW x \in Removes, RemoveUpstream(x) PROVE Placed'
  BY <1>8 DEF RemoveUpstream
<1>9. ASSUME NEW x \in Removes, CloseRemoved(x) PROVE Placed'
  BY Zenon, <1>9 DEF CloseRemoved
<1>10. CASE Close
  BY Zenon, <1>10 DEF Close
<1>11. ASSUME NEW a \in Adds, HealthStep(a) PROVE Placed'
  BY Zenon, <1>11, HealthFrame
<1>12. CASE UNCHANGED gatewayVars
  BY Zenon, <1>12 DEF gatewayVars
<1> QED
  BY Zenon, <1>1, <1>2, <1>3, <1>4, <1>5, <1>6, <1>7, <1>8, <1>9, <1>10, <1>11, <1>12
  DEF GatewayNext, AddStep, RemoveStep, HealthStep

\* A published upstream keeps its place.
LEMMA AlwaysPlaced == GatewaySpec => [](GatewayTypeOK /\ Placed)
<1>1. GatewayInit => Placed
  BY Zenon DEF GatewayInit, Placed, Published
<1> QED
  BY <1>1, PlacedStep, GatewayTypeCorrect, PTL DEF GatewaySpec

\* The inductive invariant of Close.
LateInv == LateKnown /\ ClosedButForLate

\* Every step keeps the calls that Close overtook known.
LEMMA LateStep == GatewayTypeOK /\ Placed /\ LateInv /\ [GatewayNext]_gatewayVars => LateInv'
<1> SUFFICES ASSUME GatewayTypeOK, Placed, LateInv, [GatewayNext]_gatewayVars PROVE LateInv'
  BY Zenon
<1> USE NoneAssumption DEF GatewayTypeOK, LateInv, LateKnown, ClosedButForLate, InMap
<1>1. ASSUME NEW a \in Adds, NEW n \in Names, Add(a, n) PROVE LateInv'
  BY Zenon, <1>1 DEF Add, At
<1>2. ASSUME NEW a \in Adds, AddUpstream(a) PROVE LateInv'
  BY <1>2 DEF AddUpstream, MayAdd, At, AddGoto
<1>3. ASSUME NEW a \in Adds, connect(a) PROVE LateInv'
  <2>1. ~InMap(a)
    BY Zenon, <1>3 DEF connect, At, Placed, Published
  <2> QED
    BY Zenon, <1>3, <2>1 DEF connect, At, AddGoto
<1>4. ASSUME NEW a \in Adds, syncTools(a) PROVE LateInv'
  <2>1. add[a].pc = "sync" /\ UNCHANGED <<upstreams, closed, late>>
    BY Zenon, <1>4 DEF syncTools, At
  <2>2. LateKnown'
    <3>1. \A c \in Adds : c # a => add'[c] = add[c]
      BY Zenon, <1>4 DEF syncTools, AddGoto
    <3> QED
      BY Zenon, <2>1, <3>1
  <2>3. ClosedButForLate'
    <3>1. \A c \in Adds : conn'[c] = "open" => conn[c] = "open"
      BY Zenon, <1>4 DEF syncTools, close
    <3> QED
      BY Zenon, <2>1, <3>1
  <2> QED
    BY Zenon, <2>2, <2>3
<1>5. ASSUME NEW a \in Adds, PublishUpstream(a) PROVE LateInv'
  <2>1. LateKnown'
    BY Zenon, <1>5 DEF PublishUpstream, Lose, At, AddGoto
  <2>2. ClosedButForLate'
    BY <1>5 DEF PublishUpstream, Lose, At, AddGoto, close
  <2> QED
    BY Zenon, <2>1, <2>2
<1>6. ASSUME NEW a \in Adds, startHealthLoop(a) \/ Record(a) PROVE LateInv'
  BY <1>6 DEF startHealthLoop, Record, At, AddGoto
<1>7. ASSUME NEW x \in Removes, NEW n \in Names, Remove(x, n) PROVE LateInv'
  BY Zenon, <1>7 DEF Remove
<1>8. ASSUME NEW x \in Removes, RemoveUpstream(x) PROVE LateInv'
  BY Zenon, <1>8 DEF RemoveUpstream
<1>9. ASSUME NEW x \in Removes, CloseRemoved(x) PROVE LateInv'
  BY Zenon, <1>9 DEF CloseRemoved, close
<1>10. CASE Close
  BY Zenon, <1>10 DEF Close, close
<1>11. ASSUME NEW a \in Adds, HealthStep(a) PROVE LateInv'
  BY Zenon, <1>11, HealthFrame
<1>12. CASE UNCHANGED gatewayVars
  BY Zenon, <1>12 DEF gatewayVars
<1> QED
  BY Zenon, <1>1, <1>2, <1>3, <1>4, <1>5, <1>6, <1>7, <1>8, <1>9, <1>10, <1>11, <1>12
  DEF GatewayNext, AddStep, RemoveStep, HealthStep

\* Only a call of AddUpstream that Close overtook leaves a connection behind.
THEOREM OnlyLateStayOpen == GatewaySpec => []ClosedButForLate
<1>1. GatewayInit => LateInv
  BY Zenon DEF GatewayInit, LateInv, LateKnown, ClosedButForLate
<1>2. LateInv => ClosedButForLate
  BY Zenon DEF LateInv
<1> QED
  BY <1>1, <1>2, LateStep, AlwaysPlaced, PTL DEF GatewaySpec

-----------------------------------------------------------------------------
(* The registry and the gateway. *)

\* A call that has published nothing may go on or fail.
LEMMA UnpublishedGoes ==
  ASSUME GatewayTypeOK, ManagedInv, NEW a \in Adds, add[a].pc \in {"connect", "sync", "publish"},
         NEW s \in {"sync", "publish", "error"}, AddGoto(a, s),
         UNCHANGED <<upstreams, managed, configs, remove>>
  PROVE  ManagedInv'
<1>1. \A b \in Adds : b # a => add'[b] = add[b]
  BY Zenon DEF GatewayTypeOK, AddGoto
<1>2. add'[a].pc = s
  BY Zenon DEF GatewayTypeOK, AddGoto
<1>3. \A n \in Names : Settled(n) => Settled(n)'
  BY <1>1 DEF GatewayTypeOK, Settled, Published
<1>4. configs \subseteq Names /\ \A x \in Removes : remove[x].pc = "remove" => remove[x].name \in Names
  BY Zenon DEF GatewayTypeOK
<1>5. \A n \in configs : Settled(n)'
  BY Zenon, <1>3, <1>4 DEF ManagedInv
<1>6. managed => \A x \in Removes : remove[x].pc = "remove" => remove[x].name \notin configs /\ Settled(remove[x].name)
  BY Zenon DEF ManagedInv
<1>7. managed' => \A x \in Removes : remove'[x].pc = "remove" => remove'[x].name \notin configs' /\ Settled(remove[x].name)'
  BY Zenon, <1>3, <1>4, <1>6
<1>8. managed' => \A b \in Adds : add'[b].pc \in {"health", "record"} => upstreams'[add'[b].name] = b
  BY Zenon, <1>1, <1>2 DEF ManagedInv
<1> QED
  BY Zenon, <1>5, <1>7, <1>8 DEF ManagedInv

\* Every step keeps the registry's names and the gateway's together.
LEMMA ManagedStep == GatewayTypeOK /\ Placed /\ ManagedInv /\ [GatewayNext]_gatewayVars => ManagedInv'
<1> SUFFICES ASSUME GatewayTypeOK, Placed, ManagedInv, [GatewayNext]_gatewayVars PROVE ManagedInv'
  BY Zenon
<1> USE NoneAssumption DEF GatewayTypeOK, ManagedInv, Settled, Published
<1>1. ASSUME NEW a \in Adds, NEW n \in Names, Add(a, n) PROVE ManagedInv'
  BY <1>1 DEF Add, At
<1>2. ASSUME NEW a \in Adds, AddUpstream(a) PROVE ManagedInv'
  BY <1>2, SMTT(15) DEF AddUpstream, At, AddGoto
<1>3. ASSUME NEW a \in Adds, connect(a) PROVE ManagedInv'
  BY <1>3, UnpublishedGoes, SMTT(15) DEF connect, At
<1>4. ASSUME NEW a \in Adds, syncTools(a) PROVE ManagedInv'
  BY <1>4, UnpublishedGoes, SMTT(15) DEF syncTools, At
<1>5. ASSUME NEW a \in Adds, PublishUpstream(a) PROVE ManagedInv'
  <2>1. CASE Published(add[a].name)
    BY <1>5, <2>1, UnpublishedGoes, SMTT(15) DEF PublishUpstream, Lose, At
  <2>2. CASE ~Published(add[a].name)
    <3>1. /\ add[a].pc = "publish" /\ AddGoto(a, "health") /\ upstreams' = [upstreams EXCEPT ![add[a].name] = a]
          /\ UNCHANGED <<managed, configs, remove>>
      BY Zenon, <1>5, <2>2 DEF PublishUpstream, At
    <3>2. \A b \in Adds : b # a => add'[b] = add[b]
      BY Zenon, <3>1 DEF AddGoto
    <3>3. \A n \in Names : Settled(n) => Settled(n)'
      BY <2>2, <3>1, <3>2
    <3>4. add'[a].name = add[a].name /\ upstreams'[add[a].name] = a
      BY <3>1 DEF AddGoto
    <3>5. \A n \in Names : n # add[a].name => upstreams'[n] = upstreams[n]
      BY Zenon, <3>1
    <3> QED
      BY <2>2, <3>1, <3>2, <3>3, <3>4, <3>5, SMTT(15)
  <2> QED
    BY <2>1, <2>2, SMTT(15)
<1>6. ASSUME NEW a \in Adds, startHealthLoop(a) PROVE ManagedInv'
  BY <1>6 DEF startHealthLoop, At, AddGoto
<1>7. ASSUME NEW a \in Adds, Record(a) PROVE ManagedInv'
  BY <1>7, Placed, SMTT(15) DEF Record, At, AddGoto, Placed
<1>8. ASSUME NEW x \in Removes, NEW n \in Names, Remove(x, n) PROVE ManagedInv'
  BY <1>8 DEF Remove
<1>9. ASSUME NEW x \in Removes, RemoveUpstream(x) PROVE ManagedInv'
  BY <1>9, Placed, SMTT(15) DEF RemoveUpstream, Placed
<1>10. ASSUME NEW x \in Removes, CloseRemoved(x) PROVE ManagedInv'
  BY <1>10 DEF CloseRemoved
<1>11. CASE Close
  BY Zenon, <1>11 DEF Close
<1>12. ASSUME NEW a \in Adds, HealthStep(a) PROVE ManagedInv'
  BY <1>12, HealthFrame
<1>13. CASE UNCHANGED gatewayVars
  BY Zenon, <1>13 DEF gatewayVars
<1> QED
  BY <1>1, <1>2, <1>3, <1>4, <1>5, <1>6, <1>7, <1>8, <1>9, <1>10, <1>11, <1>12, <1>13, Zenon
  DEF GatewayNext, AddStep, RemoveStep, HealthStep

\* What the registry lists, the gateway has.
THEOREM ListedIsPublished == GatewaySpec => []ConfigsPublished
<1>1. GatewayInit => ManagedInv
  BY DEF GatewayInit, ManagedInv
<1>2. ManagedInv => ConfigsPublished
  BY Zenon DEF ManagedInv, Settled, ConfigsPublished
<1> QED
  BY <1>1, <1>2, ManagedStep, AlwaysPlaced, PTL DEF GatewaySpec

-----------------------------------------------------------------------------
(* Tool calls. *)

USE DEF taskVars, approvalVars, budgetVars

\* What a human may answer.
Decisions == {"approved", "denied"}

\* Every step keeps the types.
LEMMA TypeStep == TypeOK /\ [Next]_vars => TypeOK'
<1> SUFFICES ASSUME TypeOK, [Next]_vars PROVE TypeOK'
  BY Zenon
<1> USE BudgetAssumption DEF TypeOK, Steps, Goto
<1>1. ASSUME NEW c \in Calls, TaskMiddleware(c) PROVE TypeOK'
  BY <1>1 DEF TaskMiddleware, Plain, Create
<1>2. ASSUME NEW c \in Calls, Launch(c) \/ Ends(c) \/ After(c) \/ Cleanup(c) PROVE TypeOK'
  BY Zenon, <1>2 DEF Launch, Ends, After, Cleanup
<1>3. ASSUME NEW c \in Calls, Submit(c) \/ Poll(c) \/ Expire(c) PROVE TypeOK'
  <2>1. ASSUME NEW to \in Steps, Leave(c, to), UNCHANGED <<taskVars, budgetVars, cancel>> PROVE TypeOK'
    BY Zenon, <2>1 DEF Leave
  <2>2. ASSUME NEW to \in Steps, Goto(c, to), UNCHANGED <<approvalVars, taskVars, budgetVars, cancel>> PROVE TypeOK'
    BY Zenon, <2>2
  <2>3. /\ UNCHANGED <<taskVars, budgetVars, cancel>>
        /\ \E to \in Steps : Leave(c, to) \/ (Goto(c, to) /\ UNCHANGED approvalVars)
    <3>1. CASE Submit(c)
      BY Zenon, <3>1 DEF Submit
    <3>2. CASE Poll(c)
      BY Zenon, <3>2 DEF Poll
    <3>3. CASE Expire(c)
      BY Zenon, <3>3 DEF Expire
    <3> QED
      BY Zenon, <1>3, <3>1, <3>2, <3>3
  <2> QED
    BY Zenon, <2>1, <2>2, <2>3
<1>4. ASSUME NEW c \in Calls, Check(c) \/ AfterRecord(c) PROVE TypeOK'
  <2>1. CASE Check(c)
    BY Zenon, <2>1 DEF Check
  <2>2. CASE AfterRecord(c)
    BY Zenon, <2>2 DEF AfterRecord, ReadSpend
  <2> QED
    BY Zenon, <1>4, <2>1, <2>2
<1>5. ASSUME NEW c \in Calls, Decide(c) \/ Alert(c) PROVE TypeOK'
  <2>1. CASE Decide(c)
    <3>1. \E reached \in SUBSET Thresholds : fireAlerts(c, reached)
      BY Zenon, <2>1 DEF Decide
    <3>2. fired' \subseteq Thresholds
      BY Zenon, <3>1 DEF fireAlerts, TypeOK
    <3>3. Goto(c, "refused") \/ Goto(c, "run")
      BY Zenon, <2>1 DEF Decide
    <3>4. "refused" \in Steps /\ "run" \in Steps
      BY Zenon DEF Steps
    <3> QED
      BY Zenon, <2>1, <3>2, <3>3, <3>4 DEF Decide
  <2>2. CASE Alert(c)
    <3>1. fired' \subseteq Thresholds
      BY Zenon, <2>2 DEF Alert, fireAlerts
    <3>2. seen' \in [Calls -> Nat] /\ pc' \in [Calls -> Steps]
      BY <2>2 DEF Alert
    <3>3. UNCHANGED <<taskVars, approvalVars, spend, cancel>>
      BY Zenon, <2>2 DEF Alert
    <3> QED
      BY Zenon, <3>1, <3>2, <3>3 DEF taskVars, approvalVars
  <2> QED
    BY Zenon, <1>5, <2>1, <2>2
<1>6. ASSUME NEW c \in Calls, RecordCost(c) PROVE TypeOK'
  BY <1>6 DEF RecordCost
<1>7. ASSUME NEW c \in Calls, ReturnPlain(c) \/ TaskError(c) \/ SetResult(c) \/ Update(c) PROVE TypeOK'
  <2>1. CASE ReturnPlain(c)
    BY Zenon, <2>1 DEF ReturnPlain
  <2>4. CASE TaskError(c)
    BY Zenon, <2>4 DEF TaskError
  <2>2. CASE SetResult(c)
    BY Zenon, <2>2 DEF SetResult
  <2>3. CASE Update(c)
    BY Zenon, <2>3 DEF Update
  <2> QED
    BY Zenon, <1>7, <2>1, <2>2, <2>3, <2>4
<1>8. ASSUME NEW c \in Calls, NEW d \in Decisions, Respond(c, d) PROVE TypeOK'
  BY Zenon, <1>8 DEF Respond, Decisions
<1>9. ASSUME NEW x \in Cancels, NEW c \in Calls, Cancel(x, c) PROVE TypeOK'
  BY Zenon, <1>9 DEF Cancel
<1>10. ASSUME NEW x \in Cancels, CancelUpdate(x) PROVE TypeOK'
  BY Zenon, <1>10 DEF CancelUpdate
<1>11. ASSUME NEW x \in Cancels, CallCancelFn(x) PROVE TypeOK'
  BY Zenon, <1>11 DEF CallCancelFn
<1>12. CASE UNCHANGED vars
  BY Zenon, <1>12 DEF vars
<1> QED
  BY Zenon, <1>1, <1>2, <1>3, <1>4, <1>5, <1>6, <1>7, <1>8, <1>9, <1>10, <1>11, <1>12
  DEF Next, Handler, CancelStep, Decisions

\* The state of the middlewares is type correct in every reachable state.
THEOREM TypeCorrect == Spec => []TypeOK
<1>1. Init => TypeOK
  BY DEF Init, TypeOK, Steps
<1> QED
  BY <1>1, TypeStep, PTL DEF Spec

-----------------------------------------------------------------------------
(* The steps outside the budget. *)

\* The places of a call from the decision on its budget to its last alert.
BudgetSteps == {"decide", "run", "recorded", "alert"}

\* The steps that neither spend nor fire an alert.
QuietStep ==
    \/ \E c \in Calls : TaskMiddleware(c) \/ Launch(c) \/ Ends(c) \/ After(c) \/ Cleanup(c)
    \/ \E c \in Calls : Submit(c) \/ Poll(c) \/ Expire(c)
    \/ \E c \in Calls : ReturnPlain(c) \/ TaskError(c) \/ SetResult(c) \/ Update(c)
    \/ \E c \in Calls, d \in Decisions : Respond(c, d)
    \/ \E x \in Cancels : CancelStep(x) \/ \E c \in Calls : Cancel(x, c)
    \/ UNCHANGED vars

\* A step of another middleware moves no call into or out of the budget's steps.
LEMMA QuietFrame ==
  ASSUME TypeOK, QuietStep
  PROVE  /\ UNCHANGED budgetVars
         /\ \A c \in Calls : pc[c] \in BudgetSteps \/ pc'[c] \in BudgetSteps => pc'[c] = pc[c]
<1> DEFINE Quiet == \A c \in Calls : pc[c] \in BudgetSteps \/ pc'[c] \in BudgetSteps => pc'[c] = pc[c]
<1> USE DEF TypeOK, BudgetSteps, Goto
<1>1. ASSUME NEW c \in Calls, TaskMiddleware(c) \/ Launch(c) \/ Ends(c) \/ After(c) \/ Cleanup(c)
      PROVE  UNCHANGED budgetVars /\ Quiet
  BY Zenon, <1>1 DEF TaskMiddleware, Plain, Create, Launch, Ends, After, Cleanup
<1>2. ASSUME NEW c \in Calls, Submit(c) \/ Poll(c) \/ Expire(c) PROVE UNCHANGED budgetVars /\ Quiet
  BY Zenon, <1>2 DEF Submit, Poll, Expire, Leave
<1>3. ASSUME NEW c \in Calls, ReturnPlain(c) \/ TaskError(c) \/ SetResult(c) \/ Update(c)
      PROVE  UNCHANGED budgetVars /\ Quiet
  BY Zenon, <1>3 DEF ReturnPlain, TaskError, SetResult, Update
<1>4. ASSUME NEW c \in Calls, NEW d \in Decisions, Respond(c, d) PROVE UNCHANGED budgetVars /\ Quiet
  BY Zenon, <1>4 DEF Respond
<1>5. ASSUME NEW x \in Cancels, NEW c \in Calls, CancelStep(x) \/ Cancel(x, c)
      PROVE  UNCHANGED budgetVars /\ Quiet
  BY Zenon, <1>5 DEF CancelStep, CancelUpdate, CallCancelFn, Cancel
<1>6. ASSUME NEW x \in Cancels, CancelStep(x) PROVE UNCHANGED budgetVars /\ Quiet
  BY Zenon, <1>6 DEF CancelStep, CancelUpdate, CallCancelFn
<1>7. CASE UNCHANGED vars
  BY Zenon, <1>7 DEF vars
<1> QED
  BY Zenon, <1>1, <1>2, <1>3, <1>4, <1>5, <1>6, <1>7 DEF QuietStep

\* Every step is one of those, or one of the budget's.
LEMMA StepCases ==
  ASSUME [Next]_vars
  PROVE  \/ QuietStep
         \/ \E c \in Calls : Check(c) \/ Decide(c) \/ RecordCost(c) \/ AfterRecord(c) \/ Alert(c)
  BY Zenon DEF Next, Handler, QuietStep, Decisions

-----------------------------------------------------------------------------
(* The budget. *)

\* Arithmetic of the room left.
LEMMA Room ==
  ASSUME NEW m \in Nat, NEW d \in Nat
  PROVE  m * d \in Nat /\ m * (d + 1) = m * d + m
  BY SMT

\* The calls let through are among the calls.
LEMMA AdmittedFinite ==
  /\ IsFiniteSet(Admitted) /\ Cardinality(Admitted) \in Nat /\ Cardinality(Calls) \in Nat
  /\ Cardinality(Admitted) <= Cardinality(Calls)
<1>1. Admitted \in SUBSET Calls
  BY Zenon DEF Admitted
<1>2. IsFiniteSet(Calls)
  BY Zenon, BudgetAssumption
<1>3. IsFiniteSet(Admitted) /\ Cardinality(Admitted) <= Cardinality(Calls)
  BY Zenon, <1>1, <1>2, FS_Subset
<1> QED
  BY Zenon, <1>2, <1>3, FS_CardinalityType

\* Every step keeps the headroom: a check that lets a call through has seen room
\* for it, or a spend that has grown since by calls that had room.
LEMMA HeadroomStep == TypeOK /\ Headroom /\ [Next]_vars => Headroom'
<1> SUFFICES ASSUME TypeOK, Headroom, [Next]_vars PROVE Headroom'
  BY Zenon
<1> DEFINE n == Cardinality(Calls)
           k == Cardinality(Admitted)
<1>0. IsFiniteSet(Admitted) /\ k \in Nat /\ n \in Nat /\ k <= n
  BY Zenon, AdmittedFinite
<1>a. Limit \in Nat /\ MaxCost \in Nat /\ spend \in Nat /\ spend < Limit + MaxCost * (n - k)
  BY Zenon, BudgetAssumption DEF TypeOK, Headroom
<1>b. ASSUME Admitted' = Admitted, spend' = spend PROVE Headroom'
  BY Zenon, <1>b, <1>a DEF Headroom
<1>1. CASE QuietStep
  <2>1. /\ UNCHANGED budgetVars
        /\ \A c \in Calls : pc[c] \in BudgetSteps \/ pc'[c] \in BudgetSteps => pc'[c] = pc[c]
    BY Zenon, <1>1, QuietFrame
  <2>2. Admitted' = Admitted
    BY Zenon, <2>1 DEF Admitted, BudgetSteps
  <2> QED
    BY Zenon, <2>1, <2>2, <1>b
<1>2. ASSUME NEW c \in Calls, Check(c) PROVE Headroom'
  <2>1. CASE spend < Limit
    <3>1. Admitted' = Admitted \cup {c} /\ c \notin Admitted /\ spend' = spend
      BY Zenon, <1>2, <2>1 DEF Check, Goto, Admitted, TypeOK
    <3>2. Cardinality(Admitted') = k + 1
      BY Zenon, <3>1, <1>0, FS_AddElement
    <3>3. k + 1 <= n /\ n - (k + 1) \in Nat
      <4>1. Admitted' \in SUBSET Calls
        BY Zenon DEF Admitted
      <4>2. Cardinality(Admitted') <= n
        BY Zenon, <4>1, BudgetAssumption, FS_Subset
      <4> QED
        BY <4>2, <3>2, <1>0
    <3>4. MaxCost * (n - (k + 1)) \in Nat
      BY Zenon, <3>3, <1>a, Room
    <3>5. spend' < Limit + MaxCost * (n - Cardinality(Admitted'))
      BY <3>1, <3>2, <3>4, <2>1, <1>a
    <3> QED
      BY Zenon, <3>5 DEF Headroom
  <2>2. CASE ~(spend < Limit)
    BY Zenon, <1>2, <2>2, <1>b DEF Check, Goto, Admitted, TypeOK
  <2> QED
    BY Zenon, <2>1, <2>2
<1>3. ASSUME NEW c \in Calls, Decide(c) PROVE Headroom'
  <2>1. Limit \in Nat /\ seen[c] \in Nat
    BY Zenon, <1>a DEF TypeOK
  <2>2. Admitted' = Admitted
    BY <1>3, <2>1 DEF Decide, Exceeded, Goto, Admitted, TypeOK
  <2> QED
    BY Zenon, <1>3, <2>2, <1>b DEF Decide
<1>4. ASSUME NEW c \in Calls, RecordCost(c) PROVE Headroom'
  <2>1. Admitted' = Admitted \ {c} /\ c \in Admitted
    BY Zenon, <1>4 DEF RecordCost, Goto, Admitted, TypeOK
  <2>2. Cardinality(Admitted') = k - 1
    BY Zenon, <2>1, <1>0, FS_RemoveElement
  <2>3. PICK cost \in 0 .. MaxCost : spend' = spend + cost
    BY Zenon, <1>4 DEF RecordCost
  <2>4. MaxCost * ((n - k) + 1) = MaxCost * (n - k) + MaxCost
    <3>1. n - k \in Nat
      BY <1>0
    <3> HIDE DEF n, k
    <3> QED
      BY Zenon, <3>1, <1>a, Room
  <2>5. n - (k - 1) = (n - k) + 1
    BY <1>0
  <2>6. spend' < Limit + MaxCost * (n - Cardinality(Admitted'))
    <3>1. MaxCost * (n - k) \in Nat
      BY <1>0, <1>a, Room
    <3> DEFINE room == MaxCost * (n - k)
    <3>2. spend < Limit + room /\ room \in Nat
      BY Zenon, <3>1, <1>a
    <3>3. MaxCost * (n - Cardinality(Admitted')) = room + MaxCost
      BY Zenon, <2>2, <2>4, <2>5
    <3> HIDE DEF room
    <3> QED
      BY <3>2, <3>3, <2>3, <1>a
  <2> QED
    BY Zenon, <2>6 DEF Headroom
<1>5. ASSUME NEW c \in Calls, AfterRecord(c) PROVE Headroom'
  <2>1. Admitted' = Admitted
    BY Zenon, <1>5 DEF AfterRecord, Goto, Admitted, TypeOK
  <2> QED
    BY Zenon, <1>5, <2>1, <1>b DEF AfterRecord
<1>6. ASSUME NEW c \in Calls, Alert(c) PROVE Headroom'
  <2>1. Admitted' = Admitted
    BY Zenon, <1>6 DEF Alert, Goto, Admitted, TypeOK
  <2> QED
    BY Zenon, <1>6, <2>1, <1>b DEF Alert
<1> QED
  BY Zenon, <1>1, <1>2, <1>3, <1>4, <1>5, <1>6, StepCases

\* The spend of calls behind EnforcementMiddleware stays within the limit and the
\* cost of the calls in flight, whatever their number and however often they are
\* made.
THEOREM SpendWithinReach == Spec => []SpendBounded
<1>1. Init => Headroom
  <2> SUFFICES ASSUME Init PROVE Headroom
    BY Zenon
  <2>1. Admitted = {} /\ spend = 0
    BY Zenon DEF Init, Admitted
  <2>2. Cardinality(Admitted) = 0
    BY Zenon, <2>1, FS_EmptySet
  <2>3. Cardinality(Calls) \in Nat
    BY Zenon, AdmittedFinite
  <2>4. MaxCost * Cardinality(Calls) \in Nat
    BY Zenon, <2>3, BudgetAssumption, Room
  <2> QED
    BY <2>1, <2>2, <2>3, <2>4, BudgetAssumption DEF Headroom
<1>2. TypeOK /\ Headroom => SpendBounded
  <2> SUFFICES ASSUME TypeOK, Headroom PROVE SpendBounded
    BY Zenon
  <2> DEFINE n == Cardinality(Calls)
             k == Cardinality(Admitted)
  <2>1. k \in Nat /\ n \in Nat /\ k <= n /\ MaxCost \in Nat /\ Limit \in Nat /\ spend \in Nat
    BY Zenon, AdmittedFinite, BudgetAssumption DEF TypeOK
  <2>2. spend < Limit + MaxCost * (n - k)
    BY Zenon DEF Headroom
  <2> HIDE DEF n, k
  <2>3. MaxCost * (n - k) <= MaxCost * n
    BY <2>1
  <2>4. spend < Limit + MaxCost * n
    BY <2>1, <2>2, <2>3
  <2> QED
    BY Zenon, <2>4 DEF SpendBounded, n
<1> QED
  BY <1>1, <1>2, HeadroomStep, TypeCorrect, PTL DEF Spec

-----------------------------------------------------------------------------
(* The alerts. *)

\* Every step keeps the alerts due.
LEMMA AlertsStep == TypeOK /\ AlertsDue /\ [Next]_vars => AlertsDue'
<1> SUFFICES ASSUME TypeOK, AlertsDue, [Next]_vars, NEW th \in Thresholds, spend' >= th
             PROVE  \/ th \in fired'
                    \/ \E c \in Calls : pc'[c] = "recorded" \/ (pc'[c] = "alert" /\ seen'[c] >= th)
  BY Zenon DEF AlertsDue
<1> DEFINE Due == \E c \in Calls : pc'[c] = "recorded" \/ (pc'[c] = "alert" /\ seen'[c] >= th)
<1>0. spend >= th => th \in fired \/ \E c \in Calls : pc[c] = "recorded" \/ (pc[c] = "alert" /\ seen[c] >= th)
  BY Zenon DEF AlertsDue
<1>1. CASE QuietStep
  <2>1. /\ UNCHANGED budgetVars
        /\ \A c \in Calls : pc[c] \in BudgetSteps => pc'[c] = pc[c]
    BY Zenon, <1>1, QuietFrame
  <2> QED
    BY Zenon, <2>1, <1>0 DEF BudgetSteps
<1>2. ASSUME NEW c \in Calls, Check(c) PROVE th \in fired' \/ Due
  BY Zenon, <1>2, <1>0 DEF Check, Goto, TypeOK
<1>3. ASSUME NEW c \in Calls, Decide(c) PROVE th \in fired' \/ Due
  <2>1. /\ spend' = spend /\ fired \subseteq fired' /\ pc[c] = "decide"
        /\ \A o \in Calls \ {c} : pc'[o] = pc[o] /\ seen'[o] = seen[o]
    BY Zenon, <1>3 DEF Decide, fireAlerts, Goto, TypeOK
  <2> QED
    BY Zenon, <2>1, <1>0
<1>4. ASSUME NEW c \in Calls, RecordCost(c) PROVE Due
  BY Zenon, <1>4 DEF RecordCost, Goto, TypeOK
<1>5. ASSUME NEW c \in Calls, AfterRecord(c) PROVE Due
  <2>1. pc'[c] = "alert" /\ seen'[c] = spend /\ spend' = spend
    BY Zenon, <1>5 DEF AfterRecord, ReadSpend, Goto, TypeOK
  <2> QED
    BY Zenon, <2>1
<1>6. ASSUME NEW c \in Calls, Alert(c) PROVE th \in fired' \/ Due
  <2>1. /\ spend' = spend /\ fired' = fired \cup { t \in Thresholds : seen[c] >= t } /\ pc[c] = "alert"
        /\ \A o \in Calls \ {c} : pc'[o] = pc[o] /\ seen'[o] = seen[o]
    BY Zenon, <1>6 DEF Alert, fireAlerts, Goto, TypeOK
  <2> QED
    BY Zenon, <2>1, <1>0
<1> QED
  BY Zenon, <1>1, <1>2, <1>3, <1>4, <1>5, <1>6, StepCases

\* No threshold of BudgetEnforcer is passed over: once the calls that recorded a
\* cost have fired their alerts, every threshold the spend has reached has fired.
THEOREM NoAlertMissed == Spec => []AlertsFired
<1>1. Init => AlertsDue
  BY BudgetAssumption DEF Init, AlertsDue
<1>2. AlertsDue => AlertsFired
  BY Zenon DEF AlertsDue, AlertsFired
<1> QED
  BY <1>1, <1>2, AlertsStep, TypeCorrect, PTL DEF Spec

-----------------------------------------------------------------------------
(* The results of tasks. *)

\* Every step keeps the result of a completed task.
LEMMA ResultStep == TypeOK /\ ResultFirst /\ [Next]_vars => ResultFirst'
<1> SUFFICES ASSUME TypeOK, ResultFirst, [Next]_vars PROVE ResultFirst'
  BY Zenon
<1> USE DEF TypeOK, ResultFirst, Goto
<1>1. ASSUME NEW c \in Calls, TaskMiddleware(c) PROVE ResultFirst'
  BY <1>1 DEF TaskMiddleware, Plain, Create
<1>2. ASSUME NEW c \in Calls, Launch(c) \/ Ends(c) \/ After(c) \/ Cleanup(c) PROVE ResultFirst'
  BY Zenon, <1>2 DEF Launch, Ends, After, Cleanup
<1>3. ASSUME NEW c \in Calls, Submit(c) \/ Poll(c) \/ Expire(c) PROVE ResultFirst'
  BY Zenon, <1>3 DEF Submit, Poll, Expire, Leave
<1>4. ASSUME NEW c \in Calls, Check(c) \/ AfterRecord(c) PROVE ResultFirst'
  BY Zenon, <1>4 DEF Check, AfterRecord
<1>5. ASSUME NEW c \in Calls, Decide(c) \/ Alert(c) \/ RecordCost(c) PROVE ResultFirst'
  BY Zenon, <1>5 DEF Decide, Alert, RecordCost
<1>6. ASSUME NEW c \in Calls, ReturnPlain(c) PROVE ResultFirst'
  BY Zenon, <1>6 DEF ReturnPlain
<1>7. ASSUME NEW c \in Calls, TaskError(c) PROVE ResultFirst'
  BY Zenon, <1>7 DEF TaskError
<1>8. ASSUME NEW c \in Calls, SetResult(c) PROVE ResultFirst'
  BY Zenon, <1>8 DEF SetResult
<1>9. ASSUME NEW c \in Calls, Update(c) PROVE ResultFirst'
  BY Zenon, <1>9 DEF Update
<1>10. ASSUME NEW c \in Calls, NEW d \in Decisions, Respond(c, d) PROVE ResultFirst'
  BY Zenon, <1>10 DEF Respond
<1>11. ASSUME NEW x \in Cancels, CancelUpdate(x) PROVE ResultFirst'
  BY Zenon, <1>11 DEF CancelUpdate
<1>12. ASSUME NEW x \in Cancels, CallCancelFn(x) \/ \E c \in Calls : Cancel(x, c) PROVE ResultFirst'
  BY Zenon, <1>12 DEF CallCancelFn, Cancel
<1>13. CASE UNCHANGED vars
  BY Zenon, <1>13 DEF vars
<1> QED
  BY Zenon, <1>1, <1>2, <1>3, <1>4, <1>5, <1>6, <1>7, <1>8, <1>9, <1>10, <1>11, <1>12, <1>13
  DEF Next, Handler, CancelStep, Decisions

\* Whoever sees a completed task finds its result, although status and result are
\* written apart and Manager.Cancel may write the status between.
THEOREM CompletedHasResult == Spec => []ResultKept
<1>1. Init => ResultFirst
  BY Zenon DEF Init, ResultFirst
<1>2. ResultFirst => ResultKept
  BY Zenon DEF ResultFirst, ResultKept
<1> QED
  BY <1>1, <1>2, ResultStep, TypeCorrect, PTL DEF Spec

=============================================================================
