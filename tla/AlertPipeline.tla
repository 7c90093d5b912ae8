---------------------------- MODULE AlertPipeline ----------------------------
(***************************************************************************)
(* The whole way of an alert: the poller process and the API replicas, who *)
(* share the subscriptions table (the poller polls what it holds, the      *)
(* endpoints look up in it) and the Redis channel (the poller publishes,   *)
(* the forwarders take up).  Poller and AlertFanout are composed as they   *)
(* are: each sees of the other what passes through these two.              *)
(***************************************************************************)
EXTENDS Naturals, Sequences, FiniteSets

CONSTANTS
    Locations, Users, Sockets, Replicas, HostOf, UserOf,    \* as in AlertFanout
    Weathers, MaxCycles, MaxKills, MaxAlerts                \* as in Poller

VARIABLES
    subscribed,
    pc, locations, todo, open, outgoing, readings, alerts, channel, cycle, aborted, kills,
    service, cursor, pending, registry, handler, lookup, joined, peer, received

\* The poller's SELECT joins the locations with the active subscriptions.
P == INSTANCE Poller WITH watched <- {l \in Locations : \E u \in Users : <<u, l>> \in subscribed}

ASSUME PipelineAssumption ==
    /\ HostOf \in [Sockets -> Replicas]
    /\ UserOf \in [Sockets -> Users]
    /\ Weathers \subseteq P!Readings
    /\ MaxCycles \in Nat /\ MaxKills \in Nat /\ MaxAlerts \in Nat

\* The message of an alert goes out on the channel of its location, and names it.
F == INSTANCE AlertFanout WITH published <- [i \in DOMAIN channel |-> alerts[channel[i]].location]

pollerVars == <<pc, locations, todo, open, outgoing, readings, alerts, channel, cycle, aborted, kills>>
fanoutVars == <<service, cursor, pending, registry, handler, lookup, joined, peer, received>>
vars == <<subscribed, pollerVars, fanoutVars>>

TypeOK == P!TypeOK /\ F!TypeOK

Init == subscribed = {} /\ P!Init /\ F!Init

PollerStep == UNCHANGED <<subscribed, fanoutVars>> /\ (P!Step \/ P!Kill \/ P!Restart)

UserStep ==
    /\ UNCHANGED <<pollerVars, fanoutVars>>
    /\ \E u \in Users, l \in Locations :
         \/ <<u, l>> \notin subscribed /\ subscribed' = subscribed \cup {<<u, l>>}
         \/ <<u, l>> \in subscribed /\ subscribed' = subscribed \ {<<u, l>>}

FanoutStep ==
    /\ UNCHANGED <<subscribed, pollerVars>>
    /\ \/ F!ReplicaLife
       \/ \E s \in Sockets : F!Connect(s) \/ F!Drop(s) \/ F!Endpoint(s)
       \/ \E r \in Replicas : F!TakeMessage(r) \/ F!Send(r)

Next == PollerStep \/ UserStep \/ FanoutStep

\* Every awaited call of the poller ends (the fetch has a timeout of 10 s) and its
\* container is restarted.  The event loop of a replica runs every task that is
\* ready: the forwarder takes a message that is there, each awaited send ends, and
\* a receive notices a client that has gone.
Fairness ==
    /\ WF_vars(UNCHANGED <<subscribed, fanoutVars>> /\ P!Step)
    /\ WF_vars(UNCHANGED <<subscribed, fanoutVars>> /\ P!Restart)
    /\ \A r \in Replicas :
         /\ WF_vars(UNCHANGED <<subscribed, pollerVars>> /\ F!TakeMessage(r))
         /\ WF_vars(UNCHANGED <<subscribed, pollerVars>> /\ F!Send(r))
    /\ \A s \in Sockets :
         WF_vars(peer[s] = "gone" /\ UNCHANGED <<subscribed, pollerVars>> /\ F!ReceiveEnds(s))

Spec == Init /\ [][Next]_vars /\ Fairness

-----------------------------------------------------------------------------

Published(a) == P!InSeq(a, channel)

Received(s, a) == \E i \in DOMAIN received[s] : channel[received[s][i]] = a

CutShort(a) == a \in DOMAIN alerts /\ readings[alerts[a].reading].cycle \in aborted

\* Socket s is served by a replica that hears the channel, and looked up the
\* location of alert a.
Concerned(s, a) ==
    /\ F!Serving(s) /\ service[HostOf[s]] = "listening"
    /\ alerts[a].location \in lookup[s]

\* Between the commit of an alert and the client's screen there are four queues,
\* of three processes, and none of them loses it: an alert in the table has come
\* to each client concerned, or is on its way in exactly one of them, unless the
\* poller was cut short or the client registered after it had been taken up.
AlertsOnTheirWay == \A a \in DOMAIN alerts, s \in Sockets : Concerned(s, a) =>
    LET r == HostOf[s]
    IN \/ CutShort(a) /\ ~Published(a)
       \/ P!InSeq(a, outgoing) /\ ~Published(a)
       \/ \E n \in DOMAIN channel :
            /\ channel[n] = a
            /\ \/ n \in cursor[r] + 1 .. Len(channel)
               \/ n <= joined[s]
               \/ n = cursor[r] /\ s \in pending[r] /\ ~Received(s, a)
               \/ n <= cursor[r] /\ s \notin pending[r] /\ Received(s, a)
               \/ n < cursor[r] /\ Received(s, a)

\* A client is told of the rows of the alerts table in their order, each once,
\* although poller and replicas restart and any publish or send may be repeated
\* or lost.
ToldOnceInOrder == \A s \in Sockets : \A i, j \in DOMAIN received[s] :
    /\ channel[received[s][i]] \in DOMAIN alerts
    /\ i < j => channel[received[s][i]] < channel[received[s][j]]

\* An alert that is stored and has not been taken up for the
\* clients of a replica yet reaches every client concerned, unless the client
\* leaves, its forwarder ends, or the poller's cycle was cut short.
StoredReachesClient == \A s \in Sockets, a \in 1..MaxAlerts :
    (/\ a \in DOMAIN alerts
     /\ Concerned(s, a)
     /\ \A n \in DOMAIN channel : channel[n] = a => n > cursor[HostOf[s]])
    ~> (\/ Received(s, a)
        \/ peer[s] = "gone" \/ service[HostOf[s]] # "listening"
        \/ CutShort(a))

\* A client that leaves while its endpoint is receiving is unregistered, whatever
\* the poller sends meanwhile.
DisconnectsCleanUp == F!DisconnectsCleanUp

\* No exception of a fetch, the database or Redis stops the poller for good.
KeepsPolling == P!KeepsPolling

\* An alert that is stored is published, with or without clients, or its cycle
\* was cut short.
AlertsGetPublished == P!AlertsGetPublished

=============================================================================
