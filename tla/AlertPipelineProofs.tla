------------------------- MODULE AlertPipelineProofs -------------------------
(***************************************************************************)
(* The composition of the poller and the fan-out: neither disturbs what    *)
(* the theorems about the other rest on, and together their invariants     *)
(* follow an alert from the table to the client, for any locations,        *)
(* replicas, sockets and users and any number of cycles and kills.         *)
(***************************************************************************)
EXTENDS AlertPipeline, TLAPS

watched == {l \in Locations : \E u \in Users : <<u, l>> \in subscribed}
published == [i \in DOMAIN channel |-> alerts[channel[i]].location]

PP == INSTANCE PollerProofs WITH watched <- watched
FP == INSTANCE AlertFanoutProofs WITH published <- published

-----------------------------------------------------------------------------
(* The poller and the fan-out of the composition are those of the proofs.  *)

\* The engine that both instances of the poller call.
LEMMA SameEngine == \A r : PP!Classify(r) = P!Classify(r)
BY Zenon DEF
  PP!Classify, PP!Alerts, PP!HighestTierMet, PP!CodeTier, PP!Crossed,
  PP!ExtremeHeat, PP!ExtremeCold, PP!HighWind, PP!HeavyPrecipitation, PP!WATCH, PP!WARNING, PP!SEVERE,
  P!Classify, P!Alerts, P!HighestTierMet, P!CodeTier, P!Crossed,
  P!ExtremeHeat, P!ExtremeCold, P!HighWind, P!HeavyPrecipitation, P!WATCH, P!WARNING, P!SEVERE

\* Its steps, and what is proved of it.
LEMMA SamePoller ==
    /\ PP!Init <=> P!Init
    /\ PP!Kill <=> P!Kill
    /\ PP!Restart <=> P!Restart
    /\ PP!Step <=> P!Step
    /\ PP!TypeOK <=> P!TypeOK
    /\ PP!NoAlertForgotten <=> P!NoAlertForgotten
    /\ PP!PublishedOncePersisted <=> P!PublishedOncePersisted
<1>1. PP!Init <=> P!Init
  BY Zenon DEF PP!Init, P!Init, watched
<1>2. PP!Restart <=> P!Restart
  BY Zenon DEF PP!Restart, P!Restart, watched, PP!locals, P!locals, PP!tables, P!tables
<1>3. PP!TypeOK <=> P!TypeOK
  <2>1. PP!ReadingRows = P!ReadingRows /\ PP!AlertRows = P!AlertRows /\ PP!PCs = P!PCs
    BY Zenon DEF PP!PCs, P!PCs, PP!ReadingRows, P!ReadingRows, PP!AlertRows, P!AlertRows,
       PP!WATCH, P!WATCH, PP!SEVERE, P!SEVERE, PP!Conditions, P!Conditions
  <2> QED BY <2>1 DEF PP!TypeOK, P!TypeOK, watched
<1>4. PP!NoAlertForgotten <=> P!NoAlertForgotten
  BY Zenon DEF PP!NoAlertForgotten, P!NoAlertForgotten, PP!InSeq, P!InSeq
<1>5. PP!PublishedOncePersisted <=> P!PublishedOncePersisted
  BY Zenon DEF PP!PublishedOncePersisted, P!PublishedOncePersisted
<1>6. PP!Persist <=> P!Persist
  BY SameEngine, Zenon DEF PP!Persist, P!Persist, PP!AlertsOf, P!AlertsOf
<1>7. PP!Kill <=> P!Kill
  BY <1>6, Zenon DEF PP!Kill, P!Kill, watched, PP!tables, P!tables
<1>8. PP!Commit <=> P!Commit
  BY <1>6, SameEngine, Zenon DEF PP!Commit, P!Commit, watched, PP!AlertsOf, P!AlertsOf
<1>9. PP!CommitRaises <=> P!CommitRaises
  BY <1>6, Zenon DEF PP!CommitRaises, P!CommitRaises, watched, PP!Abort, P!Abort, PP!tables, P!tables
<1>10. /\ PP!StartCycle <=> P!StartCycle
       /\ PP!SelectRaises <=> P!SelectRaises
       /\ PP!EndCycle <=> P!EndCycle
       /\ PP!Publish <=> P!Publish
       /\ PP!PublishRaises <=> P!PublishRaises
       /\ PP!FinishLocation <=> P!FinishLocation
  BY Zenon DEF PP!StartCycle, P!StartCycle, PP!SelectRaises, P!SelectRaises, PP!EndCycle, P!EndCycle,
     PP!Publish, P!Publish, PP!PublishRaises, P!PublishRaises,
     PP!FinishLocation, P!FinishLocation, PP!Abort, P!Abort, watched,
     PP!tables, P!tables, PP!locals, P!locals
<1>11. \A l : /\ PP!FetchFails(l) <=> P!FetchFails(l)
              /\ PP!FetchRaises(l) <=> P!FetchRaises(l)
              /\ \A w : PP!Fetch(l, w) <=> P!Fetch(l, w)
  BY Zenon DEF PP!FetchFails, P!FetchFails, PP!FetchRaises, P!FetchRaises, PP!Fetch, P!Fetch,
     PP!Abort, P!Abort, watched, PP!tables, P!tables, PP!locals, P!locals
<1>12. PP!Step <=> P!Step
  BY <1>8, <1>9, <1>10, <1>11, Zenon DEF PP!Step, P!Step
<1> QED BY <1>1, <1>2, <1>3, <1>4, <1>5, <1>7, <1>12

\* The registry that both instances of the fan-out keep.
LEMMA SameRegistry ==
    /\ FP!EmptyRegistry = F!EmptyRegistry
    /\ \A reg, s, ids : FP!Register(reg, s, ids) = F!Register(reg, s, ids)
    /\ \A reg, s : FP!Unregister(reg, s) = F!Unregister(reg, s)
    /\ \A reg, l : FP!Audience(reg, l) = F!Audience(reg, l)
    /\ \A reg : FP!IsRegistry(reg) <=> F!IsRegistry(reg)
<1>1. FP!EmptyRegistry = F!EmptyRegistry
  BY Zenon DEF FP!EmptyRegistry, F!EmptyRegistry, FP!EmptyDict, F!EmptyDict
<1>2. \A reg, s, ids : FP!Register(reg, s, ids) = F!Register(reg, s, ids)
  BY Zenon DEF FP!Register, F!Register, FP!Get, F!Get
<1>3. \A reg, s : FP!Unregister(reg, s) = F!Unregister(reg, s)
  BY Zenon DEF FP!Unregister, F!Unregister, FP!Get, F!Get
<1>4. \A reg, l : FP!Audience(reg, l) = F!Audience(reg, l)
  BY Zenon DEF FP!Audience, F!Audience, FP!Get, F!Get
<1>5. \A reg : FP!IsRegistry(reg) <=> F!IsRegistry(reg)
  BY Zenon DEF FP!IsRegistry, F!IsRegistry
<1> QED BY <1>1, <1>2, <1>3, <1>4, <1>5

\* The steps of the fan-out, and its types.
LEMMA SameFanout ==
    /\ FP!Init <=> F!Init
    /\ FP!ReplicaLife <=> F!ReplicaLife
    /\ \A s : FP!Connect(s) <=> F!Connect(s)
    /\ \A s : FP!Drop(s) <=> F!Drop(s)
    /\ \A s : FP!Endpoint(s) <=> F!Endpoint(s)
    /\ \A r : FP!TakeMessage(r) <=> F!TakeMessage(r)
    /\ \A r : FP!Send(r) <=> F!Send(r)
    /\ FP!TypeOK <=> F!TypeOK
<1>1. FP!Init <=> F!Init
  BY SameRegistry, Zenon DEF FP!Init, F!Init, published
<1>2. FP!ReplicaLife <=> F!ReplicaLife
  BY SameRegistry, Zenon DEF FP!ReplicaLife, F!ReplicaLife, FP!StartReplica, F!StartReplica,
     FP!StopReplica, F!StopReplica, FP!LoseRedis, F!LoseRedis, FP!socketVars, F!socketVars, published
<1>3. \A s : (FP!Connect(s) <=> F!Connect(s)) /\ (FP!Drop(s) <=> F!Drop(s))
  BY Zenon DEF FP!Connect, F!Connect, FP!Drop, F!Drop, FP!replicaVars, F!replicaVars, published
<1>4. \A s : FP!Endpoint(s) <=> F!Endpoint(s)
  <2>1. \A s : FP!AcceptAndRegister(s) <=> F!AcceptAndRegister(s)
    BY SameRegistry, Zenon DEF FP!AcceptAndRegister, F!AcceptAndRegister,
       FP!replicaVars, F!replicaVars, published
  <2>2. \A s : FP!ReceiveEnds(s) <=> F!ReceiveEnds(s)
    BY SameRegistry, Zenon DEF FP!ReceiveEnds, F!ReceiveEnds, FP!replicaVars, F!replicaVars, published
  <2>3. \A s : /\ FP!AcceptFails(s) <=> F!AcceptFails(s)
               /\ FP!Greet(s) <=> F!Greet(s)
               /\ FP!GreetFails(s) <=> F!GreetFails(s)
    BY Zenon DEF FP!AcceptFails, F!AcceptFails, FP!Greet, F!Greet, FP!GreetFails, F!GreetFails,
       FP!replicaVars, F!replicaVars, published
  <2> QED BY <2>1, <2>2, <2>3, Zenon DEF FP!Endpoint, F!Endpoint
<1>5. \A r : FP!TakeMessage(r) <=> F!TakeMessage(r)
  BY SameRegistry, Zenon DEF FP!TakeMessage, F!TakeMessage, FP!socketVars, F!socketVars, published
<1>6. \A r : FP!Send(r) <=> F!Send(r)
  BY SameRegistry, Zenon DEF FP!Send, F!Send, FP!Push, F!Push, FP!PushFails, F!PushFails,
     FP!socketVars, F!socketVars, published
<1>7. FP!TypeOK <=> F!TypeOK
  BY SameRegistry, Zenon DEF FP!TypeOK, F!TypeOK, FP!HandlerStates, F!HandlerStates, published
<1> QED BY <1>1, <1>2, <1>3, <1>4, <1>5, <1>6, <1>7

-----------------------------------------------------------------------------
(* The poller in the composition.                                          *)

\* Subscriptions reach it as watched locations, of which one may come or go with
\* each; the fan-out does not touch it.
LEMMA PollerStepOfNext == [Next]_vars => [PP!Next]_(PP!vars)
<1> SUFFICES ASSUME [Next]_vars PROVE PP!Next \/ UNCHANGED PP!vars
  OBVIOUS
<1>1. CASE PollerStep
  BY <1>1, SamePoller DEF PollerStep, PP!Next
<1>2. CASE UserStep
  <2>0. UNCHANGED pollerVars
    BY <1>2 DEF UserStep
  <2>1. PICK u \in Users, l \in Locations :
          subscribed' = subscribed \cup {<<u, l>>} \/ subscribed' = subscribed \ {<<u, l>>}
    BY <1>2 DEF UserStep
  <2>2. \A m \in Locations : m # l => (m \in watched' <=> m \in watched)
    BY <2>1 DEF watched
  <2>3. watched \subseteq Locations /\ watched' \subseteq Locations
    BY DEF watched
  <2>4. \/ watched' = watched
        \/ l \notin watched /\ watched' = watched \cup {l}
        \/ l \in watched /\ watched' = watched \ {l}
    BY <2>2, <2>3
  <2>5. CASE watched' = watched
    BY <2>0, <2>5 DEF PP!vars, PP!locals, PP!tables, pollerVars
  <2>6. CASE l \notin watched /\ watched' = watched \cup {l}
    <3>1. PP!Watch(l)
      BY <2>0, <2>6 DEF PP!Watch, PP!locals, PP!tables, pollerVars
    <3> QED BY <3>1 DEF PP!Next
  <2>7. CASE l \in watched /\ watched' = watched \ {l}
    <3>1. PP!Unwatch(l)
      BY <2>0, <2>7 DEF PP!Unwatch, PP!locals, PP!tables, pollerVars
    <3> QED BY <3>1 DEF PP!Next
  <2> QED BY <2>4, <2>5, <2>6, <2>7
<1>3. CASE FanoutStep
  BY <1>3 DEF FanoutStep, pollerVars, PP!vars, PP!locals, PP!tables, watched
<1>4. CASE UNCHANGED vars
  BY <1>4 DEF vars, pollerVars, PP!vars, PP!locals, PP!tables, watched
<1> QED BY <1>1, <1>2, <1>3, <1>4 DEF Next

\* What is proved of the poller alone holds of it in the composition.
LEMMA PollerHolds == Spec => [](PP!TypeOK /\ PP!PollerInv)
<1>1. Weathers \subseteq PP!Readings /\ MaxCycles \in Nat /\ MaxKills \in Nat
  BY PipelineAssumption DEF P!Readings, PP!Readings
<1>2. Init => PP!Init
  BY SamePoller DEF Init
<1> QED BY <1>1, <1>2, PollerStepOfNext, PP!PollerInvariant, PTL DEF Spec, PP!Spec

\* The poller of the composition does what the poller does by itself.
THEOREM PipelinePolls == Spec => P!Spec
<1>1. Init => P!Init
  BY DEF Init
<1>2. [Next]_vars => [P!Next]_(P!vars)
  <2>1. [PP!Next]_(PP!vars) => [P!Next]_(P!vars)
    <3>1. PP!vars = P!vars
      BY Zenon DEF PP!vars, P!vars, PP!locals, P!locals, PP!tables, P!tables, watched
    <3>2. \A l : (PP!Watch(l) <=> P!Watch(l)) /\ (PP!Unwatch(l) <=> P!Unwatch(l))
      BY Zenon DEF PP!Watch, P!Watch, PP!Unwatch, P!Unwatch, PP!locals, P!locals, PP!tables, P!tables,
         watched
    <3>3. PP!Next <=> P!Next
      BY <3>2, SamePoller, Zenon DEF PP!Next, P!Next
    <3>4. PP!vars' = P!vars'
      BY Zenon DEF PP!vars, P!vars, PP!locals, P!locals, PP!tables, P!tables, watched
    <3> QED BY <3>1, <3>3, <3>4
  <2> QED BY <2>1, PollerStepOfNext
<1> QED BY <1>1, <1>2, PTL DEF Spec, P!Spec

-----------------------------------------------------------------------------
(* The fan-out in the composition.                                         *)

\* Appending, element by element.
LEMMA Appending ==
    ASSUME NEW S, NEW q \in Seq(S), NEW x \in S
    PROVE  Append(q, x) = [i \in 1 .. Len(q) + 1 |-> IF i = Len(q) + 1 THEN x ELSE q[i]]
<1> DEFINE n == Len(q)
           r == Append(q, x)
<1>1. n \in Nat /\ r \in Seq(S) /\ DOMAIN r = 1 .. n + 1
  OBVIOUS
<1>2. r[n + 1] = x /\ \A i \in 1..n : r[i] = q[i]
  OBVIOUS
<1> HIDE DEF n, r
<1>3. r = [i \in 1 .. n + 1 |-> r[i]]
  BY <1>1
<1>4. r = [i \in 1 .. n + 1 |-> IF i = n + 1 THEN x ELSE q[i]]
  BY <1>1, <1>2, <1>3
<1> QED BY <1>4 DEF n, r

\* A step of the poller is a publish for the fan-out, or invisible to it: the
\* messages that are out name the locations of rows that do not change.
LEMMA PollerPublishes ==
    ASSUME PP!TypeOK, PP!PollerInv, [Next]_vars
    PROVE  published' = published \/ \E l \in Locations : published' = Append(published, l)
<1>0. Weathers \subseteq PP!Readings /\ MaxCycles \in Nat /\ MaxKills \in Nat
  BY PipelineAssumption DEF P!Readings, PP!Readings
<1>1. /\ \A a \in DOMAIN alerts : a \in DOMAIN alerts' /\ alerts'[a] = alerts[a]
      /\ channel' = channel \/ \E a \in DOMAIN alerts : channel' = Append(channel, a)
  BY <1>0, PollerStepOfNext, PP!ChannelStep
<1>2. \A i \in DOMAIN channel : channel[i] \in DOMAIN alerts
  BY DEF PP!PollerInv, PP!OutgoingInv, PP!PublishedOncePersisted
<1>3. channel \in Seq(Nat) /\ \A a \in DOMAIN alerts : alerts[a].location \in Locations
  <2>1. alerts \in Seq(PP!AlertRows) /\ channel \in Seq(Nat)
    BY DEF PP!TypeOK
  <2>2. \A a \in DOMAIN alerts : alerts[a] \in PP!AlertRows
    BY <2>1
  <2> QED BY <2>1, <2>2 DEF PP!AlertRows
<1>4. CASE channel' = channel
  BY <1>1, <1>2, <1>4 DEF published
<1>5. ASSUME NEW a \in DOMAIN alerts, channel' = Append(channel, a)
      PROVE  \E l \in Locations : published' = Append(published, l)
  <2> DEFINE n == Len(channel)
             l == alerts[a].location
             longer == Append(channel, a)
  <2>1. n \in Nat /\ DOMAIN channel = 1..n
    BY <1>3
  <2>a. a \in Nat
    BY DEF PP!TypeOK
  <2>2. DOMAIN longer = 1 .. n + 1 /\ longer[n + 1] = a /\ \A i \in 1..n : longer[i] = channel[i]
    BY <1>3, <2>a
  <2>3. published \in Seq(Locations) /\ Len(published) = n
    BY <1>2, <1>3, <2>1 DEF published
  <2>4. published' = [i \in 1 .. n + 1 |-> alerts'[longer[i]].location]
    BY <1>5, <2>2 DEF published
  <2> HIDE DEF longer, n
  <2>5. \A i \in 1 .. n + 1 : alerts'[longer[i]].location = IF i = n + 1 THEN l ELSE published[i]
    BY <1>1, <1>2, <2>1, <2>2 DEF published
  <2>6. published' = [i \in 1 .. n + 1 |-> IF i = n + 1 THEN l ELSE published[i]]
    BY <2>4, <2>5
  <2> HIDE DEF l
  <2>7. l \in Locations
    BY <1>3 DEF l
  <2>8. Append(published, l) = [i \in 1 .. n + 1 |-> IF i = n + 1 THEN l ELSE published[i]]
    BY <2>3, <2>7, Appending
  <2> QED BY <2>6, <2>7, <2>8
<1> QED BY <1>1, <1>4, <1>5

\* Every step of the composition is a step of the fan-out, with no bound on the
\* messages: how many there are is the poller's affair.
LEMMA FanoutStepOfNext ==
    ASSUME PP!TypeOK, PP!PollerInv, [Next]_vars
    PROVE  [FP!AnyNext]_(FP!vars)
<1>1. CASE PollerStep
  <2>1. UNCHANGED <<subscribed, fanoutVars>>
    BY <1>1 DEF PollerStep
  <2>2. CASE published' = published
    BY <2>1, <2>2 DEF fanoutVars, FP!vars, FP!replicaVars, FP!socketVars
  <2>3. ASSUME NEW l \in Locations, published' = Append(published, l) PROVE FP!AnyNext
    <3>1. FP!Publish(l)
      BY <2>1, <2>3 DEF FP!Publish, fanoutVars, FP!replicaVars, FP!socketVars
    <3> QED BY <3>1 DEF FP!AnyNext
  <2> QED BY <2>2, <2>3, PollerPublishes
<1>2. CASE UserStep
  <2>1. UNCHANGED <<fanoutVars, published>>
    BY <1>2 DEF UserStep, pollerVars, published
  <2>2. PICK u \in Users, l \in Locations :
          \/ <<u, l>> \notin subscribed /\ subscribed' = subscribed \cup {<<u, l>>}
          \/ <<u, l>> \in subscribed /\ subscribed' = subscribed \ {<<u, l>>}
    BY <1>2 DEF UserStep
  <2>3. FP!Subscribe(u, l) \/ FP!Unsubscribe(u, l)
    BY <2>1, <2>2 DEF FP!Subscribe, FP!Unsubscribe, fanoutVars, FP!replicaVars, FP!socketVars
  <2> QED BY <2>3 DEF FP!AnyNext, FP!Next, FP!Environment
<1>3. CASE FanoutStep
  BY <1>3, SameFanout DEF FanoutStep, FP!AnyNext, FP!Next, FP!Environment
<1>4. CASE UNCHANGED vars
  BY <1>4 DEF vars, pollerVars, fanoutVars, published, FP!vars, FP!replicaVars, FP!socketVars
<1> QED BY <1>1, <1>2, <1>3, <1>4 DEF Next

\* What is proved of the fan-out alone holds of it in the composition.
LEMMA FanoutHolds ==
    Spec => [](FP!TypeOK /\ FP!RegistryInv /\ FP!DeliveryInv) /\ FP!DeliveryImplemented
<1>1. HostOf \in [Sockets -> Replicas] /\ UserOf \in [Sockets -> Users] /\ MaxAlerts \in Nat
  BY PipelineAssumption
<1>2. Init => FP!Init
  BY SameFanout DEF Init
<1>3. PP!TypeOK /\ PP!PollerInv /\ [Next]_vars => [FP!AnyNext]_(FP!vars)
  BY FanoutStepOfNext
<1>4. Spec => FP!AnySpec
  BY <1>2, <1>3, PollerHolds, PTL DEF Spec, FP!AnySpec
<1>5. FP!AnySpec => [](FP!TypeOK /\ FP!RegistryInv /\ FP!DeliveryInv)
  BY <1>1, FP!AnyDelivery
<1>6. FP!AnySpec => FP!DeliveryImplemented
  BY <1>1, FP!AnyImplements
<1> QED BY <1>4, <1>5, <1>6, PTL

\* With the poller behind the channel too, each client sees the stream of
\* AlertDelivery, of the locations whose alerts the poller publishes.
THEOREM PipelineDelivers == Spec => FP!DeliveryImplemented
BY FanoutHolds, PTL

-----------------------------------------------------------------------------
(* The invariants of the composition.                                      *)

\* Poller and fan-out keep their types side by side.
THEOREM PipelineTypeCorrect == Spec => []TypeOK
<1>1. PP!TypeOK /\ FP!TypeOK => TypeOK
  BY SamePoller, SameFanout DEF TypeOK
<1> QED BY <1>1, PollerHolds, FanoutHolds, PTL

\* A message that a client has got is on the channel, and the channel carries rows
\* of the alerts table in their order.
LEMMA ChannelRows ==
    ASSUME PP!TypeOK, PP!PollerInv, FP!TypeOK, FP!DeliveryInv
    PROVE  /\ Len(channel) \in Nat /\ DOMAIN channel = 1..Len(channel)
           /\ DOMAIN published = DOMAIN channel /\ Len(published) = Len(channel)
           /\ \A i \in DOMAIN channel : /\ channel[i] \in DOMAIN alerts
                                       /\ channel[i] \in Nat
                                       /\ published[i] = alerts[channel[i]].location
           /\ \A i, j \in DOMAIN channel : i < j => channel[i] < channel[j]
           /\ \A s \in Sockets : \A i \in DOMAIN received[s] :
                received[s][i] \in DOMAIN channel /\ i \in Nat
<1>1. channel \in Seq(Nat) /\ alerts \in Seq(PP!AlertRows)
  BY DEF PP!TypeOK
<1>2. PP!PublishedOncePersisted
  BY DEF PP!PollerInv, PP!OutgoingInv
<1>3. Len(channel) \in Nat /\ DOMAIN channel = 1..Len(channel)
  BY <1>1
<1>4. published \in Seq(Locations) /\ DOMAIN published = DOMAIN channel
  BY DEF FP!TypeOK, published
<1>5. Len(published) = Len(channel)
  BY <1>3, <1>4
<1>6. \A i \in DOMAIN channel : /\ channel[i] \in DOMAIN alerts
                               /\ channel[i] \in Nat
                               /\ published[i] = alerts[channel[i]].location
  BY <1>1, <1>2 DEF PP!PublishedOncePersisted, published
<1>7. \A i, j \in DOMAIN channel : i < j => channel[i] < channel[j]
  BY <1>2 DEF PP!PublishedOncePersisted
<1>8. ASSUME NEW s \in Sockets, NEW i \in DOMAIN received[s]
      PROVE  received[s][i] \in DOMAIN channel /\ i \in Nat
  <2>1. received[s] \in Seq(Nat) /\ joined[s] \in Nat
    BY DEF FP!TypeOK
  <2>2. received[s][i] \in joined[s] + 1 .. Len(published)
    BY DEF FP!DeliveryInv, FP!DeliveredOnlyLookedUp
  <2> QED BY <1>3, <1>5, <2>1, <2>2
<1> QED BY <1>3, <1>4, <1>5, <1>6, <1>7, <1>8

\* A client is told of the rows of the alerts table in their order, each once.
THEOREM ClientsToldOnceInOrder == Spec => []ToldOnceInOrder
<1>1. PP!TypeOK /\ PP!PollerInv /\ FP!TypeOK /\ FP!DeliveryInv => ToldOnceInOrder
  <2> SUFFICES ASSUME PP!TypeOK, PP!PollerInv, FP!TypeOK, FP!DeliveryInv PROVE ToldOnceInOrder
    OBVIOUS
  <2>1. \A s \in Sockets : \A i, j \in DOMAIN received[s] : i < j => received[s][i] < received[s][j]
    BY DEF FP!DeliveryInv, FP!InOrderAtMostOnce
  <2> QED BY <2>1, ChannelRows DEF ToldOnceInOrder
<1> QED BY <1>1, PollerHolds, FanoutHolds, PTL

\* An alert in the table has come to every client concerned, or is on its way in
\* exactly one queue, or its cycle was cut short before it was published.
THEOREM NoAlertIsLost == Spec => []AlertsOnTheirWay
<1>1. PP!TypeOK /\ PP!PollerInv /\ FP!TypeOK /\ FP!DeliveryInv => AlertsOnTheirWay
  <2> SUFFICES ASSUME PP!TypeOK, PP!PollerInv, FP!TypeOK, FP!DeliveryInv,
                      NEW a \in DOMAIN alerts, NEW s \in Sockets, Concerned(s, a)
               PROVE  LET r == HostOf[s]
                      IN \/ CutShort(a) /\ ~Published(a)
                         \/ P!InSeq(a, outgoing) /\ ~Published(a)
                         \/ \E n \in DOMAIN channel :
                              /\ channel[n] = a
                              /\ \/ n \in cursor[r] + 1 .. Len(channel)
                                 \/ n <= joined[s]
                                 \/ n = cursor[r] /\ s \in pending[r] /\ ~Received(s, a)
                                 \/ n <= cursor[r] /\ s \notin pending[r] /\ Received(s, a)
                                 \/ n < cursor[r] /\ Received(s, a)
    BY DEF AlertsOnTheirWay
  <2> DEFINE r == HostOf[s]
  <2>1. /\ handler[s] \in {"greeting", "receiving"} /\ peer[s] = "open"
        /\ alerts[a].location \in lookup[s]
    BY DEF Concerned, F!Serving
  <2>2. r \in Replicas /\ cursor[r] \in Nat /\ joined[s] \in Nat
    BY PipelineAssumption DEF FP!TypeOK
  <2>3. CASE ~Published(a)
    <3>1. PP!NoAlertForgotten
      BY DEF PP!PollerInv
    <3>2. ~PP!InSeq(a, channel)
      BY <2>3 DEF Published, P!InSeq, PP!InSeq
    <3>3. PP!InSeq(a, outgoing) \/ readings[alerts[a].reading].cycle \in aborted
      BY <3>1, <3>2 DEF PP!NoAlertForgotten
    <3>4. P!InSeq(a, outgoing) \/ CutShort(a)
      BY <3>3 DEF CutShort, P!InSeq, PP!InSeq
    <3> QED BY <2>3, <3>4
  <2>4. CASE Published(a)
    <3>1. PICK n \in DOMAIN channel : channel[n] = a
      BY <2>4 DEF Published, P!InSeq
    <3>2. n \in Nat /\ n \in 1..Len(published) /\ n \in 1..Len(channel)
          /\ published[n] \in lookup[s] /\ Len(channel) \in Nat
      BY <2>1, <3>1, ChannelRows
    <3>3. CASE n > cursor[r] \/ n <= joined[s]
      BY <2>2, <3>1, <3>2, <3>3
    <3>4. CASE joined[s] < n /\ n = cursor[r] /\ s \in pending[r]
      <4>1. \A i \in DOMAIN received[s] : received[s][i] < n /\ received[s][i] \in DOMAIN channel
        BY <3>4, ChannelRows DEF FP!DeliveryInv, FP!BroadcastProgress
      <4>2. \A i \in DOMAIN received[s] : channel[received[s][i]] # a
        BY <3>1, <4>1, ChannelRows
      <4>3. ~Received(s, a)
        BY <4>2 DEF Received
      <4> QED BY <3>1, <3>4, <4>3
    <3>5. CASE joined[s] < n /\ n <= cursor[r] /\ ~(n = cursor[r] /\ s \in pending[r])
      <4>1. FP!Handled(s, n)
        BY <3>2, <3>5 DEF FP!Handled
      <4>2. \E i \in DOMAIN received[s] : received[s][i] = n
        BY <2>1, <3>2, <4>1 DEF FP!DeliveryInv, FP!NoMissedAlert
      <4>3. Received(s, a)
        BY <3>1, <4>2 DEF Received
      <4> QED BY <2>2, <3>1, <3>2, <3>5, <4>3
    <3> QED BY <2>2, <3>2, <3>3, <3>4, <3>5
  <2> QED BY <2>3, <2>4
<1> QED BY <1>1, PollerHolds, FanoutHolds, PTL

=============================================================================
