-------------------------- MODULE AlertFanoutProofs --------------------------
(***************************************************************************)
(* Theorems about AlertFanout, for any number of replicas, sockets, users, *)
(* locations and messages.                                                 *)
(***************************************************************************)
EXTENDS AlertFanout, TLAPS

\* The fan-out with no bound on the number of messages: what the theorems are
\* proved for, as no step relies on the bound.
AnyNext == Next \/ \E l \in Locations : Publish(l)

AnySpec == Init /\ [][AnyNext]_vars

\* The bounded specification is a case of it.
LEMMA BoundedIsAny == Spec => AnySpec
<1>1. [Next]_vars => [AnyNext]_vars
  BY DEF AnyNext
<1> QED BY <1>1, PTL DEF Spec, AnySpec

-----------------------------------------------------------------------------
(* What the two operations of the registry preserve.                       *)

\* The dictionaries of a process that has just started are well formed.
LEMMA EmptyRegistryOK == IsRegistry(EmptyRegistry) /\ Consistent(EmptyRegistry)
BY DEF IsRegistry, Consistent, EmptyRegistry, EmptyDict, Get

\* register() keeps the dictionaries well formed.
LEMMA RegisterType ==
    ASSUME NEW reg, IsRegistry(reg), NEW ws \in Sockets, NEW ids \in SUBSET Locations
    PROVE  IsRegistry(Register(reg, ws, ids))
BY DEF IsRegistry, Register, Get

\* unregister() keeps the dictionaries well formed.
LEMMA UnregisterType ==
    ASSUME NEW reg, IsRegistry(reg), NEW ws \in Sockets
    PROVE  IsRegistry(Unregister(reg, ws))
BY DEF IsRegistry, Unregister, Get

\* register() of a socket that is not registered keeps them inverse.
LEMMA RegisterConsistent ==
    ASSUME NEW reg, IsRegistry(reg), Consistent(reg),
           NEW ws \in Sockets, NEW ids \in SUBSET Locations, ~Registered(reg, ws)
    PROVE  Consistent(Register(reg, ws, ids))
BY DEF IsRegistry, Consistent, Registered, Register, Get

\* unregister() keeps them inverse, whether or not the socket was registered.
LEMMA UnregisterConsistent ==
    ASSUME NEW reg, IsRegistry(reg), Consistent(reg), NEW ws \in Sockets
    PROVE  Consistent(Unregister(reg, ws))
BY DEF IsRegistry, Consistent, Unregister, Get

-----------------------------------------------------------------------------
(* Type correctness.                                                       *)

\* No step breaks a type, whatever the number of messages.
LEMMA AnyTypeCorrect == AnySpec => []TypeOK
<1>1. Init => TypeOK
  BY EmptyRegistryOK DEF Init, TypeOK, HandlerStates
<1>2. TypeOK /\ [AnyNext]_vars => TypeOK'
  <2> SUFFICES ASSUME TypeOK, [AnyNext]_vars PROVE TypeOK'
    OBVIOUS
  <2> USE FanoutAssumption DEF TypeOK, HandlerStates, replicaVars, socketVars
  <2>1. ASSUME NEW u \in Users, NEW l \in Locations, Subscribe(u, l) \/ Unsubscribe(u, l)
        PROVE  TypeOK'
    BY <2>1 DEF Subscribe, Unsubscribe
  <2>2. ASSUME NEW l \in Locations, Publish(l) PROVE TypeOK'
    BY <2>2 DEF Publish
  <2>3. ASSUME NEW s \in Sockets, Connect(s) PROVE TypeOK'
    BY <2>3 DEF Connect
  <2>4. ASSUME NEW s \in Sockets, Drop(s) PROVE TypeOK'
    BY <2>4 DEF Drop
  <2>5. ASSUME NEW r \in Replicas, StartReplica(r) PROVE TypeOK'
    BY <2>5 DEF StartReplica
  <2>6. ASSUME NEW r \in Replicas, StopReplica(r) PROVE TypeOK'
    BY <2>6, EmptyRegistryOK DEF StopReplica
  <2>7. ASSUME NEW r \in Replicas, LoseRedis(r) PROVE TypeOK'
    BY <2>7 DEF LoseRedis
  <2>8. ASSUME NEW s \in Sockets, AcceptAndRegister(s) PROVE TypeOK'
    <3>1. IsRegistry(Register(registry[HostOf[s]], s, lookup[s]))
      BY RegisterType
    <3> QED BY <2>8, <3>1 DEF AcceptAndRegister
  <2>9. ASSUME NEW s \in Sockets, AcceptFails(s) \/ Greet(s) \/ GreetFails(s) PROVE TypeOK'
    BY <2>9 DEF AcceptFails, Greet, GreetFails
  <2>10. ASSUME NEW s \in Sockets, ReceiveEnds(s) PROVE TypeOK'
    <3>1. IsRegistry(Unregister(registry[HostOf[s]], s))
      BY UnregisterType
    <3> QED BY <2>10, <3>1 DEF ReceiveEnds
  <2>11. ASSUME NEW r \in Replicas, TakeMessage(r) PROVE TypeOK'
    <3>1. Audience(registry[r], published[cursor[r] + 1]) \subseteq Sockets
      BY DEF Audience, Get, IsRegistry
    <3> QED BY <2>11, <3>1 DEF TakeMessage
  <2>12. ASSUME NEW r \in Replicas, NEW s \in Sockets, Push(r, s) PROVE TypeOK'
    BY <2>12 DEF Push
  <2>13. ASSUME NEW r \in Replicas, NEW s \in Sockets, PushFails(r, s) PROVE TypeOK'
    <3>1. IsRegistry(Unregister(registry[r], s))
      BY UnregisterType
    <3> QED BY <2>13, <3>1 DEF PushFails
  <2>14. CASE UNCHANGED vars
    BY <2>14 DEF vars
  <2> QED
    BY <2>1, <2>2, <2>3, <2>4, <2>5, <2>6, <2>7, <2>8, <2>9, <2>10, <2>11, <2>12, <2>13, <2>14
    DEF AnyNext, Next, Environment, ReplicaLife, Endpoint, Send
<1> QED BY <1>1, <1>2, PTL DEF AnySpec

\* Every variable of the fan-out keeps its type; in particular every registry
\* remains a pair of well-formed dictionaries.
THEOREM TypeCorrect == Spec => []TypeOK
BY BoundedIsAny, AnyTypeCorrect, PTL

-----------------------------------------------------------------------------
(* The registry.                                                           *)

\* What register() leaves in the per-socket dictionary.
LEMMA RegisterEntry ==
    ASSUME NEW reg, NEW ws, NEW ids, NEW s
    PROVE  /\ Registered(Register(reg, ws, ids), s) <=> s = ws \/ Registered(reg, s)
           /\ Register(reg, ws, ids).bySocket[ws] = ids
           /\ Registered(reg, s) /\ s # ws =>
                Register(reg, ws, ids).bySocket[s] = reg.bySocket[s]
BY DEF Registered, Register

\* What unregister() leaves in the per-socket dictionary.
LEMMA UnregisterEntry ==
    ASSUME NEW reg, NEW ws, NEW s
    PROVE  /\ Registered(Unregister(reg, ws), s) <=> s # ws /\ Registered(reg, s)
           /\ Registered(reg, s) /\ s # ws =>
                Unregister(reg, ws).bySocket[s] = reg.bySocket[s]
BY DEF Registered, Unregister

RegistryInv == RegistryConsistent /\ RegistryOwned

\* A registry that satisfies both halves of RegistryInv is disturbed only by
\* register(), the two unregister()s and the end of the process.
LEMMA RegistryStep == TypeOK /\ RegistryInv /\ [AnyNext]_vars => RegistryInv'
<1> SUFFICES ASSUME TypeOK, RegistryInv, [AnyNext]_vars PROVE RegistryInv'
  OBVIOUS
<1>0. /\ handler \in [Sockets -> HandlerStates]
      /\ lookup \in [Sockets -> SUBSET Locations]
      /\ peer \in [Sockets -> {"open", "gone"}]
      /\ DOMAIN registry = Replicas
      /\ \A r \in Replicas : IsRegistry(registry[r])
      /\ \A s \in Sockets : HostOf[s] \in Replicas
  BY FanoutAssumption DEF TypeOK
<1> USE <1>0
    DEF RegistryInv, RegistryConsistent, RegistryOwned, RegisteredAt,
        replicaVars, socketVars, HandlerStates
<1>1. CASE UNCHANGED <<registry, handler, lookup, peer>>
  BY <1>1
<1>2. ASSUME NEW s \in Sockets, Connect(s) PROVE RegistryInv'
  BY <1>2 DEF Connect
<1>3. ASSUME NEW s \in Sockets, Drop(s) PROVE RegistryInv'
  BY <1>3 DEF Drop
<1>4. ASSUME NEW r \in Replicas, StopReplica(r) PROVE RegistryInv'
  <2>1. RegistryConsistent'
    BY <1>4, EmptyRegistryOK DEF StopReplica
  <2>2. \A s \in Sockets : ~Registered(EmptyRegistry, s)
    BY DEF Registered, EmptyRegistry, EmptyDict
  <2>3. RegistryOwned'
    BY <1>4, <2>2 DEF StopReplica
  <2> QED BY <2>1, <2>3
<1>5. ASSUME NEW s \in Sockets, AcceptAndRegister(s) PROVE RegistryInv'
  <2>1. ~Registered(registry[HostOf[s]], s)
    BY <1>5 DEF AcceptAndRegister
  <2>2. Consistent(Register(registry[HostOf[s]], s, lookup[s]))
    BY <2>1, RegisterConsistent
  <2>3. RegistryConsistent'
    BY <1>5, <2>2 DEF AcceptAndRegister
  <2>4. RegistryOwned'
    BY <1>5, RegisterEntry DEF AcceptAndRegister
  <2> QED BY <2>3, <2>4
<1>6. ASSUME NEW s \in Sockets, AcceptFails(s) \/ Greet(s) \/ GreetFails(s) PROVE RegistryInv'
  BY <1>6 DEF AcceptFails, Greet, GreetFails
<1>7. ASSUME NEW s \in Sockets, ReceiveEnds(s) PROVE RegistryInv'
  <2>1. Consistent(Unregister(registry[HostOf[s]], s))
    BY UnregisterConsistent
  <2>2. RegistryConsistent'
    BY <1>7, <2>1 DEF ReceiveEnds
  <2>3. /\ \A t \in Sockets : RegisteredAt(HostOf[s], t)' <=> t # s /\ RegisteredAt(HostOf[s], t)
        /\ \A t \in Sockets : RegisteredAt(HostOf[s], t)' =>
             registry[HostOf[s]]'.bySocket[t] = registry[HostOf[s]].bySocket[t]
        /\ \A q \in Replicas : q # HostOf[s] => registry[q]' = registry[q]
    <3>1. registry[HostOf[s]]' = Unregister(registry[HostOf[s]], s)
      BY <1>7 DEF ReceiveEnds
    <3>2. \A q \in Replicas : q # HostOf[s] => registry[q]' = registry[q]
      BY <1>7 DEF ReceiveEnds
    <3> QED BY ONLY <3>1, <3>2, UnregisterEntry DEF RegisteredAt
  <2>4. RegistryOwned'
    BY <1>7, <2>3 DEF ReceiveEnds
  <2> QED BY <2>2, <2>4
<1>8. ASSUME NEW r \in Replicas, NEW s \in Sockets, PushFails(r, s) PROVE RegistryInv'
  <2>1. Consistent(Unregister(registry[r], s))
    BY UnregisterConsistent
  <2>2. RegistryConsistent'
    BY <1>8, <2>1 DEF PushFails
  <2>3. /\ \A t \in Sockets : RegisteredAt(r, t)' <=> t # s /\ RegisteredAt(r, t)
        /\ \A t \in Sockets : RegisteredAt(r, t)' =>
             registry[r]'.bySocket[t] = registry[r].bySocket[t]
        /\ \A q \in Replicas : q # r => registry[q]' = registry[q]
    <3>1. registry[r]' = Unregister(registry[r], s)
      BY <1>8 DEF PushFails
    <3>2. \A q \in Replicas : q # r => registry[q]' = registry[q]
      BY <1>8 DEF PushFails
    <3> QED BY ONLY <3>1, <3>2, UnregisterEntry DEF RegisteredAt
  <2>4. RegistryOwned'
    BY <1>8, <2>3 DEF PushFails
  <2> QED BY <2>2, <2>4
<1> QED
  BY <1>1, <1>2, <1>3, <1>4, <1>5, <1>6, <1>7, <1>8
  DEF AnyNext, Next, Environment, ReplicaLife, Endpoint, Send, Subscribe, Unsubscribe, Publish,
      StartReplica, LoseRedis, TakeMessage, Push, vars

\* Initially no socket is registered anywhere.
LEMMA RegistryInit == Init => RegistryInv
BY EmptyRegistryOK, FanoutAssumption
DEF Init, RegistryInv, RegistryConsistent, RegistryOwned, RegisteredAt,
    Registered, EmptyRegistry, EmptyDict

\* The two dictionaries of every replica stay inverse, whatever the
\* interleaving of endpoints, failed pushes and restarts.
THEOREM RegistryStaysConsistent == Spec => []RegistryConsistent
<1>1. RegistryInv => RegistryConsistent
  BY DEF RegistryInv
<1> QED BY <1>1, BoundedIsAny, AnyTypeCorrect, RegistryInit, RegistryStep, PTL DEF AnySpec

\* A socket is registered only by its own endpoint, on its own replica and with
\* the ids looked up for it; and every client being served is registered.
THEOREM RegistryOwnership == Spec => []RegistryOwned
<1>1. RegistryInv => RegistryOwned
  BY DEF RegistryInv
<1> QED BY <1>1, BoundedIsAny, AnyTypeCorrect, RegistryInit, RegistryStep, PTL DEF AnySpec

-----------------------------------------------------------------------------
(* Delivery.                                                               *)

\* What an append does to a client's history.
LEMMA AppendFacts ==
    ASSUME NEW S, NEW q \in Seq(S), NEW x \in S
    PROVE  /\ DOMAIN Append(q, x) = DOMAIN q \cup {Len(q) + 1}
           /\ Append(q, x)[Len(q) + 1] = x
           /\ \A i \in DOMAIN q : Append(q, x)[i] = q[i] /\ i \in Nat /\ i < Len(q) + 1
           /\ Len(Append(q, x)) = Len(q) + 1
           /\ Len(q) \in Nat
           /\ DOMAIN q = 1..Len(q)
OBVIOUS

\* A socket is in the audience of a location exactly if it is registered and its
\* endpoint looked that location up.
LEMMA AudienceExact ==
    ASSUME TypeOK, RegistryInv, NEW r \in Replicas, NEW l \in Locations, NEW s \in Sockets
    PROVE  s \in Audience(registry[r], l) <=> RegisteredAt(r, s) /\ l \in lookup[s]
BY DEF TypeOK, IsRegistry, RegistryInv, RegistryConsistent, RegistryOwned,
       Consistent, Audience, RegisteredAt, Registered, Get

DeliveryInv ==
    /\ PendingSound
    /\ BroadcastProgress
    /\ DeliveredOnlyLookedUp
    /\ InOrderAtMostOnce
    /\ NoMissedAlert

\* The types the delivery steps need.
DeliveryTypes ==
    /\ published \in Seq(Locations) /\ Len(published) \in Nat
    /\ service \in [Replicas -> {"down", "listening", "deaf"}]
    /\ cursor \in [Replicas -> Nat]
    /\ pending \in [Replicas -> SUBSET Sockets]
    /\ handler \in [Sockets -> HandlerStates]
    /\ lookup \in [Sockets -> SUBSET Locations]
    /\ joined \in [Sockets -> Nat]
    /\ peer \in [Sockets -> {"open", "gone"}]
    /\ received \in [Sockets -> Seq(Nat)]
    /\ \A s \in Sockets : HostOf[s] \in Replicas
    /\ \A s \in Sockets : \A i \in DOMAIN received[s] : received[s][i] \in Nat

\* The steps that move no message: an endpoint advances or a client leaves.
LEMMA QuietStep ==
    ASSUME DeliveryTypes, DeliveryInv,
           UNCHANGED <<published, cursor, pending, lookup, joined, received>>,
           \A r \in Replicas : service[r] # "down" => service'[r] # "down",
           \A r \in Replicas : service[r] = "down" => service'[r] = "down",
           \A s \in Sockets : handler'[s] # handler[s] =>
             \/ handler'[s] = "closed" /\ handler[s] # "idle"
             \/ handler[s] = "greeting" /\ handler'[s] \in {"receiving", "failed"},
           \A s \in Sockets : peer[s] = "gone" => peer'[s] = "gone",
           peer' \in [Sockets -> {"open", "gone"}]
    PROVE  DeliveryInv'
<1> USE DEF DeliveryTypes, DeliveryInv, HandlerStates
<1>1. PendingSound'
  BY DEF PendingSound
<1>2. BroadcastProgress'
  BY DEF BroadcastProgress
<1>3. DeliveredOnlyLookedUp'
  BY DEF DeliveredOnlyLookedUp
<1>4. InOrderAtMostOnce'
  BY DEF InOrderAtMostOnce
<1>5. NoMissedAlert'
  <2>1. \A s \in Sockets : handler'[s] \in {"greeting", "receiving"} /\ peer'[s] = "open" =>
          handler[s] \in {"greeting", "receiving"} /\ peer[s] = "open"
    OBVIOUS
  <2>2. \A s \in Sockets, n \in Nat : Handled(s, n)' <=> Handled(s, n)
    BY DEF Handled
  <2> QED BY <2>1, <2>2 DEF NoMissedAlert
<1> QED BY <1>1, <1>2, <1>3, <1>4, <1>5

\* Each step keeps the delivery invariant.  Only a new message, a connect, a
\* registration, the start or end of a process and the forwarder's own steps
\* touch what it speaks of.
LEMMA DeliveryStep == TypeOK /\ TypeOK' /\ RegistryInv /\ DeliveryInv /\ [AnyNext]_vars => DeliveryInv'
<1> SUFFICES ASSUME TypeOK, TypeOK', RegistryInv, DeliveryInv, [AnyNext]_vars PROVE DeliveryInv'
  OBVIOUS
<1>0. DeliveryTypes /\ peer' \in [Sockets -> {"open", "gone"}]
  BY FanoutAssumption DEF TypeOK, DeliveryTypes
<1>a. \A n \in 1..Len(published) : published[n] \in Locations
  BY <1>0 DEF DeliveryTypes
<1>1. CASE UNCHANGED vars
  BY <1>0, <1>1, QuietStep DEF vars, replicaVars, socketVars
<1>2. ASSUME NEW u \in Users, NEW l \in Locations, Subscribe(u, l) \/ Unsubscribe(u, l)
      PROVE  DeliveryInv'
  BY <1>0, <1>2, QuietStep DEF Subscribe, Unsubscribe, replicaVars, socketVars
<1>3. ASSUME NEW s \in Sockets, Drop(s) PROVE DeliveryInv'
  BY <1>0, <1>3, QuietStep DEF Drop, replicaVars, DeliveryTypes
<1>4. ASSUME NEW r \in Replicas, LoseRedis(r) PROVE DeliveryInv'
  BY <1>0, <1>4, QuietStep DEF LoseRedis, socketVars, DeliveryTypes
<1>5. ASSUME NEW s \in Sockets, AcceptFails(s) \/ Greet(s) \/ GreetFails(s) PROVE DeliveryInv'
  BY <1>0, <1>5, QuietStep DEF AcceptFails, Greet, GreetFails, replicaVars, DeliveryTypes
<1>6. ASSUME NEW s \in Sockets, ReceiveEnds(s) PROVE DeliveryInv'
  BY <1>0, <1>6, QuietStep DEF ReceiveEnds, replicaVars, DeliveryTypes
<1> USE <1>0 DEF DeliveryTypes, DeliveryInv, HandlerStates, replicaVars, socketVars
<1>7. ASSUME NEW l \in Locations, Publish(l) PROVE DeliveryInv'
  <2>1. /\ Len(published') = Len(published) + 1
        /\ \A n \in 1..Len(published) : published'[n] = published[n]
    BY <1>7, AppendFacts DEF Publish
  <2> USE <2>1, <1>7 DEF Publish
  <2>2. PendingSound'
    BY DEF PendingSound
  <2>3. BroadcastProgress'
    BY DEF BroadcastProgress
  <2>4. DeliveredOnlyLookedUp'
    BY DEF DeliveredOnlyLookedUp
  <2>5. InOrderAtMostOnce'
    BY DEF InOrderAtMostOnce
  <2>6. NoMissedAlert'
    <3>1. \A s \in Sockets : \A n \in 1..Len(published') :
            Handled(s, n)' => n \in 1..Len(published) /\ Handled(s, n)
      BY DEF Handled, BroadcastProgress
    <3> QED BY <3>1 DEF NoMissedAlert
  <2> QED BY <2>2, <2>3, <2>4, <2>5, <2>6
<1>8. ASSUME NEW r \in Replicas, StartReplica(r) PROVE DeliveryInv'
  <2> USE <1>8 DEF StartReplica
  <2>0. /\ pending[r] = {}
        /\ cursor[r] <= cursor'[r]
        /\ \A s \in Sockets : HostOf[s] = r => handler[s] \in {"idle", "closed"}
        /\ \A q \in Replicas : q # r => cursor'[q] = cursor[q]
    BY DEF BroadcastProgress
  <2>2. PendingSound'
    BY <2>0 DEF PendingSound
  <2>3. BroadcastProgress'
    BY <2>0 DEF BroadcastProgress
  <2>4. DeliveredOnlyLookedUp'
    BY DEF DeliveredOnlyLookedUp
  <2>5. InOrderAtMostOnce'
    BY DEF InOrderAtMostOnce
  <2>6. NoMissedAlert'
    <3>1. \A s \in Sockets : handler[s] \in {"greeting", "receiving"} => HostOf[s] # r
      BY <2>0
    <3>2. \A s \in Sockets : HostOf[s] # r => \A n \in Nat : Handled(s, n)' => Handled(s, n)
      BY <2>0 DEF Handled
    <3> QED BY <3>1, <3>2 DEF NoMissedAlert
  <2> QED BY <2>2, <2>3, <2>4, <2>5, <2>6
<1>9. ASSUME NEW r \in Replicas, StopReplica(r) PROVE DeliveryInv'
  <2> USE <1>9 DEF StopReplica
  <2>2. PendingSound'
    BY DEF PendingSound
  <2>3. BroadcastProgress'
    BY DEF BroadcastProgress
  <2>4. DeliveredOnlyLookedUp'
    BY DEF DeliveredOnlyLookedUp
  <2>5. InOrderAtMostOnce'
    BY DEF InOrderAtMostOnce
  <2>6. NoMissedAlert'
    <3>1. \A s \in Sockets : handler'[s] \in {"greeting", "receiving"} =>
            HostOf[s] # r /\ handler'[s] = handler[s] /\ peer'[s] = peer[s]
      OBVIOUS
    <3>2. \A s \in Sockets : HostOf[s] # r => \A n \in Nat : Handled(s, n)' => Handled(s, n)
      BY DEF Handled
    <3> QED BY <3>1, <3>2 DEF NoMissedAlert
  <2> QED BY <2>2, <2>3, <2>4, <2>5, <2>6
<1>10. ASSUME NEW s \in Sockets, Connect(s) PROVE DeliveryInv'
  <2> USE <1>10 DEF Connect
  <2>0. received[s] = <<>> /\ \A r \in Replicas : s \notin pending[r]
    BY DEF PendingSound, BroadcastProgress
  <2>2. PendingSound'
    BY <2>0 DEF PendingSound
  <2>3. BroadcastProgress'
    BY DEF BroadcastProgress
  <2>4. DeliveredOnlyLookedUp'
    BY <2>0 DEF DeliveredOnlyLookedUp
  <2>5. InOrderAtMostOnce'
    BY DEF InOrderAtMostOnce
  <2>6. NoMissedAlert'
    <3>1. \A t \in Sockets : handler'[t] \in {"greeting", "receiving"} =>
            t # s /\ handler'[t] = handler[t]
      OBVIOUS
    <3>2. \A t \in Sockets : t # s => \A n \in Nat : Handled(t, n)' => Handled(t, n)
      BY DEF Handled
    <3> QED BY <3>1, <3>2 DEF NoMissedAlert
  <2> QED BY <2>2, <2>3, <2>4, <2>5, <2>6
<1>11. ASSUME NEW s \in Sockets, AcceptAndRegister(s) PROVE DeliveryInv'
  <2> USE <1>11 DEF AcceptAndRegister
  <2>0. received[s] = <<>> /\ \A r \in Replicas : s \notin pending[r]
    BY DEF PendingSound, BroadcastProgress
  <2>2. PendingSound'
    BY <2>0 DEF PendingSound
  <2>3. BroadcastProgress'
    BY DEF BroadcastProgress
  <2>4. DeliveredOnlyLookedUp'
    BY <2>0 DEF DeliveredOnlyLookedUp
  <2>5. InOrderAtMostOnce'
    BY DEF InOrderAtMostOnce
  <2>6. NoMissedAlert'
    <3>1. \A n \in Nat : ~Handled(s, n)'
      BY DEF Handled
    <3>2. \A t \in Sockets : t # s => \A n \in Nat : Handled(t, n)' => Handled(t, n)
      BY DEF Handled
    <3> QED BY <3>1, <3>2 DEF NoMissedAlert
  <2> QED BY <2>2, <2>3, <2>4, <2>5, <2>6
<1>12. ASSUME NEW r \in Replicas, TakeMessage(r) PROVE DeliveryInv'
  <2> USE <1>12 DEF TakeMessage
  <2> DEFINE n == cursor[r] + 1
  <2>0. /\ n \in 1..Len(published)
        /\ published[n] \in Locations
        /\ cursor'[r] = n
        /\ \A q \in Replicas : q # r => cursor'[q] = cursor[q] /\ pending'[q] = pending[q]
    BY <1>a DEF BroadcastProgress
  <2>1. \A s \in Sockets : s \in pending'[r] <=> RegisteredAt(r, s) /\ published[n] \in lookup[s]
    BY <2>0, AudienceExact
  <2>1a. \A s \in Sockets : RegisteredAt(r, s) =>
           HostOf[s] = r /\ handler[s] \in {"greeting", "receiving", "failed"}
    BY DEF RegistryInv, RegistryOwned
  <2>1b. \A s \in Sockets : handler[s] \in {"greeting", "receiving"} /\ peer[s] = "open" =>
           RegisteredAt(HostOf[s], s)
    BY DEF RegistryInv, RegistryOwned
  <2> HIDE DEF n
  <2>2. PendingSound'
    <3>1. ASSUME NEW s \in Sockets, s \in pending'[r]
          PROVE  HostOf[s] = r /\ joined[s] < n /\ published[n] \in lookup[s]
      BY <2>1, <2>1a, <3>1 DEF BroadcastProgress, n
    <3>2. \A q \in Replicas : pending'[q] \subseteq Sockets
      BY DEF TypeOK
    <3> QED BY <2>0, <3>1, <3>2 DEF PendingSound
  <2>3. BroadcastProgress'
    BY <2>0, <2>1, <2>1a DEF BroadcastProgress, n
  <2>4. DeliveredOnlyLookedUp'
    BY DEF DeliveredOnlyLookedUp
  <2>5. InOrderAtMostOnce'
    BY DEF InOrderAtMostOnce
  <2>6. NoMissedAlert'
    <3>1. \A s \in Sockets : handler[s] \in {"greeting", "receiving"} /\ peer[s] = "open" =>
            \A m \in Nat : Handled(s, m)' => Handled(s, m)
      BY <2>0, <2>1, <2>1b DEF Handled, n
    <3> QED BY <3>1 DEF NoMissedAlert
  <2> QED BY <2>2, <2>3, <2>4, <2>5, <2>6
<1>13. ASSUME NEW r \in Replicas, NEW s \in Sockets, Push(r, s) PROVE DeliveryInv'
  <2> USE <1>13 DEF Push
  <2>0. /\ HostOf[s] = r
        /\ cursor[r] \in joined[s] + 1 .. Len(published)
        /\ published[cursor[r]] \in lookup[s]
        /\ \A i \in DOMAIN received[s] : received[s][i] < cursor[r]
        /\ handler[s] \notin {"idle", "accepting"}
    BY DEF PendingSound, BroadcastProgress
  <2>1. /\ \A q \in Replicas : q # r => pending'[q] = pending[q]
        /\ pending'[r] = pending[r] \ {s}
        /\ \A t \in Sockets : t # s => received'[t] = received[t]
    OBVIOUS
  <2>2. peer[s] = "open" =>
          /\ DOMAIN received'[s] = DOMAIN received[s] \cup {Len(received[s]) + 1}
          /\ received'[s][Len(received[s]) + 1] = cursor[r]
          /\ \A i \in DOMAIN received[s] :
               received'[s][i] = received[s][i] /\ i \in Nat /\ i < Len(received[s]) + 1
          /\ Len(received[s]) \in Nat
    BY AppendFacts
  <2>3. peer[s] # "open" => received' = received
    OBVIOUS
  <2>4. PendingSound'
    BY <2>1 DEF PendingSound
  <2>5. BroadcastProgress'
    BY <2>0, <2>1, <2>2, <2>3 DEF BroadcastProgress
  <2>6. DeliveredOnlyLookedUp'
    BY <2>0, <2>1, <2>2, <2>3 DEF DeliveredOnlyLookedUp
  <2>7. InOrderAtMostOnce'
    BY <2>0, <2>1, <2>2, <2>3 DEF InOrderAtMostOnce
  <2>8. NoMissedAlert'
    <3>1. \A t \in Sockets : t # s => \A m \in Nat : Handled(t, m)' => Handled(t, m)
      BY <2>1 DEF Handled
    <3>2. \A m \in Nat : Handled(s, m)' => Handled(s, m) \/ m = cursor[r]
      BY <2>0, <2>1 DEF Handled
    <3>3. peer[s] = "open" => \A i \in DOMAIN received[s] :
            i \in DOMAIN received'[s] /\ received'[s][i] = received[s][i]
      BY <2>2
    <3>4. ASSUME NEW t \in Sockets, handler[t] \in {"greeting", "receiving"}, peer[t] = "open",
                 NEW m \in 1..Len(published), Handled(t, m)'
          PROVE  \E i \in DOMAIN received'[t] : received'[t][i] = m
      <4>1. CASE t # s
        BY <2>1, <3>1, <3>4, <4>1 DEF NoMissedAlert
      <4>2. CASE t = s /\ m = cursor[r]
        BY <2>2, <3>4, <4>2
      <4>3. CASE t = s /\ Handled(s, m)
        <5>1. PICK i \in DOMAIN received[s] : received[s][i] = m
          BY <3>4, <4>3 DEF NoMissedAlert
        <5> QED BY <3>3, <3>4, <4>3, <5>1
      <4> QED BY <3>2, <3>4, <4>1, <4>2, <4>3
    <3> QED BY <3>4 DEF NoMissedAlert
  <2> QED BY <2>4, <2>5, <2>6, <2>7, <2>8
<1>14. ASSUME NEW r \in Replicas, NEW s \in Sockets, PushFails(r, s) PROVE DeliveryInv'
  <2> USE <1>14 DEF PushFails
  <2>1. /\ \A q \in Replicas : q # r => pending'[q] = pending[q]
        /\ pending'[r] = pending[r] \ {s}
    OBVIOUS
  <2>2. PendingSound'
    BY <2>1 DEF PendingSound
  <2>3. BroadcastProgress'
    BY <2>1 DEF BroadcastProgress
  <2>4. DeliveredOnlyLookedUp'
    BY DEF DeliveredOnlyLookedUp
  <2>5. InOrderAtMostOnce'
    BY DEF InOrderAtMostOnce
  <2>6. NoMissedAlert'
    <3>2. \A t \in Sockets : peer[t] = "open" => t # s
      OBVIOUS
    <3>3. handler' = handler /\ peer' = peer /\ received' = received /\ published' = published
      OBVIOUS
    <3>4. ASSUME NEW t \in Sockets, handler[t] \in {"greeting", "receiving"}, peer[t] = "open",
                 NEW m \in 1..Len(published), Handled(t, m)'
          PROVE  \E i \in DOMAIN received[t] : received[t][i] = m
      <4>1. Handled(t, m)
        BY <2>1, <3>2, <3>4 DEF Handled
      <4> QED BY <3>4, <4>1 DEF NoMissedAlert
    <3> QED BY ONLY <3>3, <3>4 DEF NoMissedAlert
  <2> QED BY <2>2, <2>3, <2>4, <2>5, <2>6
<1> QED
  BY <1>1, <1>2, <1>3, <1>4, <1>5, <1>6, <1>7, <1>8, <1>9, <1>10, <1>11, <1>12, <1>13, <1>14
  DEF AnyNext, Next, Environment, ReplicaLife, Endpoint, Send

\* Initially nothing was sent or received.
LEMMA DeliveryInit == Init => DeliveryInv
<1> SUFFICES ASSUME Init PROVE DeliveryInv
  OBVIOUS
<1> USE FanoutAssumption DEF Init
<1>1. PendingSound
  BY DEF PendingSound
<1>2. BroadcastProgress
  BY DEF BroadcastProgress
<1>3. DeliveredOnlyLookedUp
  BY DEF DeliveredOnlyLookedUp
<1>4. InOrderAtMostOnce
  BY DEF InOrderAtMostOnce
<1>5. NoMissedAlert
  BY DEF NoMissedAlert
<1> QED BY <1>1, <1>2, <1>3, <1>4, <1>5 DEF DeliveryInv

\* The invariants of the registry and of delivery hold together.
LEMMA AnyDelivery == AnySpec => [](TypeOK /\ RegistryInv /\ DeliveryInv)
BY AnyTypeCorrect, RegistryInit, RegistryStep, DeliveryInit, DeliveryStep, PTL DEF AnySpec

\* It holds in every reachable state of the instances.
THEOREM DeliveryInvariant == Spec => [](RegistryInv /\ DeliveryInv)
BY BoundedIsAny, AnyDelivery, PTL

\* A broadcast under way is for sockets of its replica that registered before its
\* message was taken up and looked its location up.
THEOREM BroadcastSound == Spec => []PendingSound
<1>1. DeliveryInv => PendingSound
  BY DEF DeliveryInv
<1> QED BY <1>1, DeliveryInvariant, PTL

\* An endpoint and the forwarder of its replica agree on how far they have come.
THEOREM ProgressAgrees == Spec => []BroadcastProgress
<1>1. DeliveryInv => BroadcastProgress
  BY DEF DeliveryInv
<1> QED BY <1>1, DeliveryInvariant, PTL

\* A client receives only alerts taken up after it registered, for locations
\* its endpoint looked up.
THEOREM DeliverySound == Spec => []DeliveredOnlyLookedUp
<1>1. DeliveryInv => DeliveredOnlyLookedUp
  BY DEF DeliveryInv
<1> QED BY <1>1, DeliveryInvariant, PTL

\* A client receives alerts in the order of their publication, none twice.
THEOREM DeliveryOrdered == Spec => []InOrderAtMostOnce
<1>1. DeliveryInv => InOrderAtMostOnce
  BY DEF DeliveryInv
<1> QED BY <1>1, DeliveryInvariant, PTL

\* A client that is still connected has every alert its forwarder is done with
\* since it registered, however many other sends failed meanwhile.
THEOREM NothingMissed == Spec => []NoMissedAlert
<1>1. DeliveryInv => NoMissedAlert
  BY DEF DeliveryInv
<1> QED BY <1>1, DeliveryInvariant, PTL

-----------------------------------------------------------------------------
(* AlertFanout implements AlertDelivery.                                   *)

\* An endpoint that has ended has lost its client: a client is never left open
\* and unserved.
EndedGone == \A s \in Sockets : handler[s] \in {"failed", "closed"} => peer[s] = "gone"

\* Every way for an endpoint to end is caused by the client's leaving or closes
\* its connection.
LEMMA EndedGoneStep == TypeOK /\ EndedGone /\ [AnyNext]_vars => EndedGone'
<1> SUFFICES ASSUME TypeOK, EndedGone, [AnyNext]_vars PROVE EndedGone'
  OBVIOUS
<1>0. handler \in [Sockets -> HandlerStates] /\ peer \in [Sockets -> {"open", "gone"}]
  BY DEF TypeOK
<1> USE <1>0 DEF EndedGone, HandlerStates, replicaVars, socketVars
<1>1. CASE UNCHANGED <<handler, peer>>
  BY <1>1
<1>2. ASSUME NEW s \in Sockets,
             \/ Connect(s) \/ AcceptAndRegister(s) \/ AcceptFails(s)
             \/ Greet(s) \/ GreetFails(s) \/ ReceiveEnds(s) \/ Drop(s)
      PROVE  EndedGone'
  BY <1>2 DEF Connect, AcceptAndRegister, AcceptFails, Greet, GreetFails, ReceiveEnds, Drop
<1>3. ASSUME NEW r \in Replicas, StopReplica(r) PROVE EndedGone'
  BY <1>3 DEF StopReplica
<1> QED
  BY <1>1, <1>2, <1>3
  DEF AnyNext, Next, Environment, ReplicaLife, Endpoint, Send, Subscribe, Unsubscribe, Publish,
      StartReplica, LoseRedis, TakeMessage, Push, PushFails, vars

\* What the refinement rests on.
FanoutInv == TypeOK /\ DeliveryInv /\ EndedGone

\* It holds in every reachable state.
LEMMA FanoutInvariant == AnySpec => []FanoutInv
<1>1. Init => EndedGone
  BY DEF Init, EndedGone
<1>2. TypeOK /\ RegistryInv /\ DeliveryInv /\ EndedGone => FanoutInv
  BY DEF FanoutInv
<1> QED BY <1>1, <1>2, AnyDelivery, EndedGoneStep, PTL DEF AnySpec

-----------------------------------------------------------------------------

\* The steps that no client sees.
LEMMA StutterStep ==
    ASSUME UNCHANGED published, \A s \in Sockets : ClientBar(s)' = ClientBar(s)
    PROVE  UNCHANGED Delivery!vars
BY DEF Delivery!vars

\* The client of s, or those of all sockets in S, leave.
LEMMA LeaveStep ==
    ASSUME UNCHANGED published, NEW S \in SUBSET Sockets,
           \A s \in S : ClientBar(s)' = Delivery!Left(ClientBar(s).got),
           \A s \in Sockets \ S : ClientBar(s)' = ClientBar(s)
    PROVE  Delivery!Next
<1>1. Delivery!Leave(S)
  BY DEF Delivery!Leave
<1> QED BY <1>1 DEF Delivery!Next

\* The client of s is handed the first message due to it.
LEMMA DeliverStep ==
    ASSUME UNCHANGED published, NEW s \in Sockets, ClientBar(s).stage = "joined",
           NEW n \in Delivery!Due(ClientBar(s)) \ Delivery!Got(ClientBar(s)),
           \A m \in Delivery!Due(ClientBar(s)) \ Delivery!Got(ClientBar(s)) : n <= m,
           \A m \in Delivery!Got(ClientBar(s)) : m < n,
           ClientBar(s)' = [ClientBar(s) EXCEPT !.got = Append(@, n)],
           \A t \in Sockets \ {s} : ClientBar(t)' = ClientBar(t)
    PROVE  Delivery!Next
<1>1. [t \in Sockets |-> ClientBar(t)]' =
        [[t \in Sockets |-> ClientBar(t)] EXCEPT ![s].got = Append(@, n)]
  OBVIOUS
<1>2. Delivery!Deliver(s)
  BY <1>1 DEF Delivery!Deliver
<1> QED BY <1>2 DEF Delivery!Next

\* A registration joins; a publish is a message sent; a send to an open client
\* hands over the first message due to it, by PendingSound and NoMissedAlert; the
\* end of a connection or of a replica makes clients leave; nothing else is seen.
LEMMA FanoutStep == FanoutInv /\ [AnyNext]_vars => [Delivery!Next]_Delivery!vars
<1> SUFFICES ASSUME FanoutInv, [AnyNext]_vars PROVE [Delivery!Next]_Delivery!vars
  OBVIOUS
<1>0. DeliveryTypes /\ EndedGone /\ BroadcastProgress /\ PendingSound /\ NoMissedAlert
  BY FanoutAssumption DEF FanoutInv, TypeOK, DeliveryTypes, DeliveryInv
<1> USE <1>0 DEF DeliveryTypes, HandlerStates, replicaVars, socketVars
<1>1. CASE UNCHANGED <<published, handler, lookup, joined, peer, received>>
  BY <1>1, StutterStep DEF ClientBar, Serving
<1>2. ASSUME NEW l \in Locations, Publish(l) PROVE Delivery!Next
  <2>1. Delivery!Send(l)
    BY <1>2 DEF Publish, Delivery!Send, ClientBar, Serving
  <2> QED BY <2>1 DEF Delivery!Next
<1>3. ASSUME NEW s \in Sockets, Connect(s) \/ AcceptFails(s) \/ Greet(s) \/ GreetFails(s)
      PROVE  UNCHANGED Delivery!vars
  <2>1. \A t \in Sockets : ClientBar(t)' = ClientBar(t)
    BY <1>3 DEF Connect, AcceptFails, Greet, GreetFails, ClientBar, Serving
  <2>2. UNCHANGED published
    BY <1>3 DEF Connect, AcceptFails, Greet, GreetFails
  <2> QED BY <2>1, <2>2, StutterStep
<1>4. ASSUME NEW s \in Sockets, AcceptAndRegister(s) PROVE [Delivery!Next]_Delivery!vars
  <2> USE <1>4 DEF AcceptAndRegister
  <2>1. received[s] = <<>> /\ cursor[HostOf[s]] \in 0..Len(published)
    BY DEF BroadcastProgress
  <2>2. \A t \in Sockets \ {s} : ClientBar(t)' = ClientBar(t)
    BY DEF ClientBar, Serving
  <2>3. CASE peer[s] = "open"
    <3>1. ClientBar(s).stage = "absent"
      BY <2>3 DEF ClientBar, Serving
    <3>2. ClientBar(s)' = [stage |-> "joined", interest |-> lookup[s],
                           since |-> cursor[HostOf[s]], got |-> <<>>]
      BY <2>1, <2>3 DEF ClientBar, Serving
    <3>3. Delivery!Join(s)
      BY <2>1, <2>2, <3>1, <3>2 DEF Delivery!Join
    <3> QED BY <3>3 DEF Delivery!Next
  <2>4. CASE peer[s] = "gone"
    <3>1. ClientBar(s)' = ClientBar(s)
      BY <2>4 DEF ClientBar, Serving
    <3> QED BY <2>2, <3>1, StutterStep
  <2> QED BY <2>3, <2>4
<1>5. ASSUME NEW s \in Sockets, Drop(s) \/ ReceiveEnds(s) PROVE [Delivery!Next]_Delivery!vars
  <2>1. \A t \in Sockets \ {s} : ClientBar(t)' = ClientBar(t)
    BY <1>5 DEF Drop, ReceiveEnds, ClientBar, Serving
  <2>2. UNCHANGED published
    BY <1>5 DEF Drop, ReceiveEnds
  <2>3. ClientBar(s)' = Delivery!Left(ClientBar(s).got)
    BY <1>5 DEF Drop, ReceiveEnds, ClientBar, Serving, BroadcastProgress, Delivery!Left
  <2>4. {s} \in SUBSET Sockets /\ \A t \in {s} : ClientBar(t)' = Delivery!Left(ClientBar(t).got)
    BY <2>3
  <2>5. Delivery!Next
    BY ONLY <2>1, <2>2, <2>4, LeaveStep
  <2> QED BY <2>5
<1>6. ASSUME NEW r \in Replicas, StopReplica(r) PROVE Delivery!Next
  <2> DEFINE S == {s \in Sockets : HostOf[s] = r /\ handler[s] \notin {"idle", "closed"}}
  <2>1. \A s \in Sockets \ S : ClientBar(s)' = ClientBar(s)
    BY <1>6 DEF StopReplica, ClientBar, Serving
  <2>2. \A s \in S : ClientBar(s)' = Delivery!Left(received[s])
    BY <1>6 DEF StopReplica, ClientBar, Serving, Delivery!Left
  <2>3. \A s \in S : ClientBar(s).got = received[s]
    BY DEF ClientBar, Serving, BroadcastProgress, EndedGone
  <2>4. UNCHANGED published
    BY <1>6 DEF StopReplica
  <2> QED BY <2>1, <2>2, <2>3, <2>4, LeaveStep
<1>7. ASSUME NEW r \in Replicas, NEW s \in Sockets, Push(r, s), peer[s] = "open"
      PROVE  Delivery!Next
  <2> USE <1>7 DEF Push
  <2>1. /\ HostOf[s] = r
        /\ cursor[r] \in joined[s] + 1 .. Len(published)
        /\ published[cursor[r]] \in lookup[s]
        /\ \A i \in DOMAIN received[s] : received[s][i] < cursor[r]
        /\ handler[s] \notin {"idle", "accepting"}
    BY DEF PendingSound, BroadcastProgress
  <2>1a. handler[s] \in {"greeting", "receiving"}
    BY <2>1 DEF EndedGone
  <2>2. ClientBar(s) = [stage |-> "joined", interest |-> lookup[s],
                        since |-> joined[s], got |-> received[s]]
    BY <2>1a DEF ClientBar, Serving
  <2>3. ClientBar(s)' = [stage |-> "joined", interest |-> lookup[s],
                         since |-> joined[s], got |-> Append(received[s], cursor[r])]
    BY <2>1a DEF ClientBar, Serving
  <2>4. \A t \in Sockets \ {s} : ClientBar(t)' = ClientBar(t)
    BY DEF ClientBar, Serving
  <2> DEFINE due == Delivery!Due(ClientBar(s))
             got == Delivery!Got(ClientBar(s))
  <2>5. /\ due = {n \in joined[s] + 1 .. Len(published) : published[n] \in lookup[s]}
        /\ got = {received[s][i] : i \in DOMAIN received[s]}
    BY <2>2 DEF Delivery!Due, Delivery!Got
  <2>6. cursor[r] \in due \ got /\ \A m \in got : m < cursor[r]
    BY <2>1, <2>5
  <2>7. ASSUME NEW m \in due \ got PROVE cursor[r] <= m
    <3>1. SUFFICES ASSUME m < cursor[r] PROVE FALSE
      BY <2>5
    <3>2. m \in 1..Len(published) /\ Handled(s, m)
      BY <2>1, <2>5, <3>1 DEF Handled
    <3>3. m \in got
      BY <2>1a, <2>5, <3>2 DEF NoMissedAlert
    <3> QED BY <3>3
  <2>8. ClientBar(s)' = [ClientBar(s) EXCEPT !.got = Append(@, cursor[r])]
    <3> DEFINE longer == Append(received[s], cursor[r])
    <3>1. ClientBar(s).got = received[s]
      BY ONLY <2>2
    <3>2. ClientBar(s)' = [stage |-> "joined", interest |-> lookup[s],
                           since |-> joined[s], got |-> longer]
      BY ONLY <2>3
    <3> HIDE DEF longer
    <3>3. ClientBar(s)' = [ClientBar(s) EXCEPT !.got = longer]
      BY ONLY <2>2, <3>2
    <3> QED BY ONLY <3>1, <3>3 DEF longer
  <2>9. ClientBar(s).stage = "joined" /\ UNCHANGED published
    BY <2>2
  <2> QED BY <2>4, <2>6, <2>7, <2>8, <2>9, DeliverStep
<1>8. ASSUME NEW r \in Replicas, NEW s \in Sockets, Push(r, s), peer[s] # "open"
      PROVE  UNCHANGED <<published, handler, lookup, joined, peer, received>>
  BY <1>8 DEF Push
<1> QED
  BY <1>1, <1>2, <1>3, <1>4, <1>5, <1>6, <1>7, <1>8
  DEF AnyNext, Next, Environment, ReplicaLife, Endpoint, Send, Subscribe, Unsubscribe,
      StartReplica, LoseRedis, TakeMessage, PushFails, vars

\* For any number of messages, every behaviour of the fan-out is one of AlertDelivery.
LEMMA AnyImplements == AnySpec => DeliveryImplemented
<1>1. Init => Delivery!Init
  BY DEF Init, Delivery!Init, Delivery!Absent, ClientBar, Serving
<1> QED
  BY <1>1, FanoutInvariant, FanoutStep, PTL DEF AnySpec, Delivery!Spec, DeliveryImplemented

\* Whatever the replicas, their forwarders and registries do, each client sees the
\* stream of AlertDelivery: gap-free, in order and without repetition.
THEOREM FanoutImplementsDelivery == Spec => DeliveryImplemented
BY BoundedIsAny, AnyImplements, PTL
=============================================================================
