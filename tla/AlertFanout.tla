----------------------------- MODULE AlertFanout -----------------------------
(***************************************************************************)
(* How a published alert reaches the clients: the Redis channel, one       *)
(* PubSubForwarder and one ConnectionManager per API replica, and one      *)
(* /ws/alerts endpoint coroutine per socket (ws.py, pubsub.py, main.py).   *)
(*                                                                         *)
(* An atomic action is a stretch of code between two awaits.  A forwarder  *)
(* takes a message, snapshots the audience of its location, and then       *)
(* awaits one send per socket of the snapshot, during which every endpoint *)
(* of the replica may register or unregister.                              *)
(*                                                                         *)
(* Message n is the n-th PUBLISH.  Redis pub/sub keeps nothing: a replica  *)
(* that is listening gets the messages published since it subscribed, in   *)
(* order, so the unread output buffer of its subscription is               *)
(* cursor[r]+1 .. Len(published).                                          *)
(***************************************************************************)
EXTENDS Naturals, Sequences, ConnectionManager

CONSTANTS
    Replicas,       \* the API processes
    Users,
    HostOf,         \* the replica the load balancer sends each socket to
    UserOf,         \* the user whose token each socket presents
    MaxAlerts       \* bound on the number of messages published

ASSUME FanoutAssumption ==
    /\ HostOf \in [Sockets -> Replicas]
    /\ UserOf \in [Sockets -> Users]
    /\ MaxAlerts \in Nat

VARIABLES
    subscribed,     \* the active rows of the subscriptions table
    published,      \* the locations of all messages published so far
    service,        \* replica -> "down" | "listening" | "deaf"
    cursor,         \* replica -> the last message its forwarder took
    pending,        \* replica -> sockets of the snapshot not yet sent to
    registry,       \* replica -> its ConnectionManager
    handler,        \* socket -> where its endpoint coroutine is
    lookup,         \* socket -> location_ids, as the endpoint's SELECT saw them
    joined,         \* socket -> history: cursor of its replica when it registered
    peer,           \* socket -> "open" | "gone": the client's end
    received        \* socket -> the messages the client received, in order

replicaVars == <<service, cursor, pending>>
socketVars  == <<handler, lookup, joined, peer, received>>
vars == <<subscribed, published, replicaVars, registry, socketVars>>

HandlerStates == {"idle", "accepting", "greeting", "receiving", "failed", "closed"}

TypeOK ==
    /\ subscribed \subseteq Users \X Locations
    /\ published \in Seq(Locations)
    /\ service \in [Replicas -> {"down", "listening", "deaf"}]
    /\ cursor \in [Replicas -> Nat]
    /\ pending \in [Replicas -> SUBSET Sockets]
    /\ registry = [r \in Replicas |-> registry[r]]
    /\ \A r \in Replicas : IsRegistry(registry[r])
    /\ handler \in [Sockets -> HandlerStates]
    /\ lookup \in [Sockets -> SUBSET Locations]
    /\ joined \in [Sockets -> Nat]
    /\ peer \in [Sockets -> {"open", "gone"}]
    /\ received \in [Sockets -> Seq(Nat)]

Init ==
    /\ subscribed = {}
    /\ published = <<>>
    /\ service = [r \in Replicas |-> "down"]
    /\ cursor = [r \in Replicas |-> 0]
    /\ pending = [r \in Replicas |-> {}]
    /\ registry = [r \in Replicas |-> EmptyRegistry]
    /\ handler = [s \in Sockets |-> "idle"]
    /\ lookup = [s \in Sockets |-> {}]
    /\ joined = [s \in Sockets |-> 0]
    /\ peer = [s \in Sockets |-> "open"]
    /\ received = [s \in Sockets |-> <<>>]

-----------------------------------------------------------------------------
(* The subscriptions routes, as far as the fan-out sees them, and the poller. *)

Subscribe(u, l) ==
    /\ <<u, l>> \notin subscribed
    /\ subscribed' = subscribed \cup {<<u, l>>}
    /\ UNCHANGED <<published, replicaVars, registry, socketVars>>

Unsubscribe(u, l) ==
    /\ <<u, l>> \in subscribed
    /\ subscribed' = subscribed \ {<<u, l>>}
    /\ UNCHANGED <<published, replicaVars, registry, socketVars>>

Publish(l) ==
    /\ published' = Append(published, l)
    /\ UNCHANGED <<subscribed, replicaVars, registry, socketVars>>

-----------------------------------------------------------------------------
(* The life of a replica: lifespan() and the container's restarts.         *)

\* lifespan(): psubscribe, then create the forwarder task, then serve.
StartReplica(r) ==
    /\ service[r] = "down"
    /\ service' = [service EXCEPT ![r] = "listening"]
    /\ cursor' = [cursor EXCEPT ![r] = Len(published)]
    /\ UNCHANGED <<subscribed, published, pending, registry, socketVars>>

\* The process stops, at any point: its memory and its sockets go with it.
StopReplica(r) ==
    LET hosted(s) == HostOf[s] = r /\ handler[s] \notin {"idle", "closed"}
    IN /\ service[r] # "down"
       /\ service' = [service EXCEPT ![r] = "down"]
       /\ pending' = [pending EXCEPT ![r] = {}]
       /\ registry' = [registry EXCEPT ![r] = EmptyRegistry]
       /\ handler' = [s \in Sockets |-> IF hosted(s) THEN "closed" ELSE handler[s]]
       /\ peer' = [s \in Sockets |-> IF hosted(s) THEN "gone" ELSE peer[s]]
       /\ UNCHANGED <<subscribed, published, cursor, lookup, joined, received>>

\* _listen() catches only CancelledError: an error of the Redis connection ends
\* the task between two messages.  Nothing restarts it and the replica serves on.
LoseRedis(r) ==
    /\ service[r] = "listening"
    /\ pending[r] = {}
    /\ service' = [service EXCEPT ![r] = "deaf"]
    /\ UNCHANGED <<subscribed, published, cursor, pending, registry, socketVars>>

-----------------------------------------------------------------------------
(* One socket: the client and the endpoint websocket_alerts().             *)

\* The token is accepted and the SELECT returns the active subscriptions.
Connect(s) ==
    /\ handler[s] = "idle"
    /\ service[HostOf[s]] # "down"
    /\ handler' = [handler EXCEPT ![s] = "accepting"]
    /\ lookup' = [lookup EXCEPT ![s] = {l \in Locations : <<UserOf[s], l>> \in subscribed}]
    /\ UNCHANGED <<subscribed, published, replicaVars, registry, joined, peer, received>>

\* accept() returns and register() runs; then the greeting is awaited.
AcceptAndRegister(s) ==
    LET r == HostOf[s]
    IN /\ handler[s] = "accepting"
       /\ registry' = [registry EXCEPT ![r] = Register(@, s, lookup[s])]
       /\ handler' = [handler EXCEPT ![s] = "greeting"]
       /\ joined' = [joined EXCEPT ![s] = cursor[r]]
       /\ UNCHANGED <<subscribed, published, replicaVars, lookup, peer, received>>

\* accept() raises because the client has left: nothing was registered.
AcceptFails(s) ==
    /\ handler[s] = "accepting"
    /\ peer[s] = "gone"
    /\ handler' = [handler EXCEPT ![s] = "closed"]
    /\ UNCHANGED <<subscribed, published, replicaVars, registry, lookup, joined, peer, received>>

Greet(s) ==
    /\ handler[s] = "greeting"
    /\ handler' = [handler EXCEPT ![s] = "receiving"]
    /\ UNCHANGED <<subscribed, published, replicaVars, registry, lookup, joined, peer, received>>

\* The greeting is sent before the try block: when it raises, the endpoint ends
\* without running the finally clause, and the socket stays registered.
GreetFails(s) ==
    /\ handler[s] = "greeting"
    /\ peer[s] = "gone"
    /\ handler' = [handler EXCEPT ![s] = "failed"]
    /\ UNCHANGED <<subscribed, published, replicaVars, registry, lookup, joined, peer, received>>

\* The client leaves, or its connection breaks.
Drop(s) ==
    /\ handler[s] \in {"accepting", "greeting", "receiving"}
    /\ peer[s] = "open"
    /\ peer' = [peer EXCEPT ![s] = "gone"]
    /\ UNCHANGED <<subscribed, published, replicaVars, registry, handler, lookup, joined, received>>

\* Variant: an endpoint without the finally clause.
ReceiveEndsWithoutFinally(s) ==
    /\ handler[s] = "receiving"
    /\ handler' = [handler EXCEPT ![s] = "closed"]
    /\ peer' = [peer EXCEPT ![s] = "gone"]
    /\ UNCHANGED <<subscribed, published, replicaVars, registry, lookup, joined, received>>

\* The receive loop ends, by WebSocketDisconnect once the client is gone or by
\* another exception (a binary frame has no text); finally unregisters.
ReceiveEnds(s) ==
    /\ handler[s] = "receiving"
    /\ registry' = [registry EXCEPT ![HostOf[s]] = Unregister(@, s)]
    /\ handler' = [handler EXCEPT ![s] = "closed"]
    /\ peer' = [peer EXCEPT ![s] = "gone"]
    /\ UNCHANGED <<subscribed, published, replicaVars, lookup, joined, received>>

-----------------------------------------------------------------------------
(* One forwarder: _listen() and broadcast_to_location().                   *)

\* Variant: the next message is taken up before the last broadcast is over.
TakeMessageWhileSending(r) ==
    /\ service[r] = "listening"
    /\ cursor[r] < Len(published)
    /\ cursor' = [cursor EXCEPT ![r] = @ + 1]
    /\ pending' = [pending EXCEPT ![r] = Audience(registry[r], published[cursor[r] + 1])]
    /\ UNCHANGED <<subscribed, published, service, registry, socketVars>>

\* The next message arrives and the audience is copied out of the registry.
TakeMessage(r) ==
    /\ service[r] = "listening"
    /\ pending[r] = {}
    /\ cursor[r] < Len(published)
    /\ cursor' = [cursor EXCEPT ![r] = @ + 1]
    /\ pending' = [pending EXCEPT ![r] = Audience(registry[r], published[cursor[r] + 1])]
    /\ UNCHANGED <<subscribed, published, service, registry, socketVars>>

\* Variant: a send that is repeated after it went through.
PushAgain(r, s) ==
    /\ s \in pending[r]
    /\ peer[s] = "open"
    /\ Len(received[s]) < MaxAlerts + 1
    /\ received' = [received EXCEPT ![s] = Append(@, cursor[r])]
    /\ UNCHANGED <<subscribed, published, service, cursor, registry, pending,
                   handler, lookup, joined, peer>>

\* One send_json() returns.  To a client that has left it may still succeed
\* locally, but nothing arrives.
Push(r, s) ==
    /\ s \in pending[r]
    /\ pending' = [pending EXCEPT ![r] = @ \ {s}]
    /\ received' = IF peer[s] = "open"
                   THEN [received EXCEPT ![s] = Append(@, cursor[r])]
                   ELSE received
    /\ UNCHANGED <<subscribed, published, service, cursor, registry,
                   handler, lookup, joined, peer>>

\* Variant: the exception is caught around the loop, not around each send.
PushFailureEndsBroadcast(r, s) ==
    /\ s \in pending[r]
    /\ peer[s] = "gone"
    /\ pending' = [pending EXCEPT ![r] = {}]
    /\ registry' = [registry EXCEPT ![r] = Unregister(@, s)]
    /\ UNCHANGED <<subscribed, published, service, cursor, socketVars>>

\* One send_json() raises: the broadcast unregisters the socket and goes on.
PushFails(r, s) ==
    /\ s \in pending[r]
    /\ peer[s] = "gone"
    /\ pending' = [pending EXCEPT ![r] = @ \ {s}]
    /\ registry' = [registry EXCEPT ![r] = Unregister(@, s)]
    /\ UNCHANGED <<subscribed, published, service, cursor, socketVars>>

-----------------------------------------------------------------------------

Environment ==
    \/ \E u \in Users, l \in Locations : Subscribe(u, l) \/ Unsubscribe(u, l)
    \/ \E l \in Locations : Len(published) < MaxAlerts /\ Publish(l)
    \/ \E s \in Sockets : Connect(s) \/ Drop(s)

ReplicaLife == \E r \in Replicas : StartReplica(r) \/ StopReplica(r) \/ LoseRedis(r)

Endpoint(s) ==
    AcceptAndRegister(s) \/ AcceptFails(s) \/ Greet(s) \/ GreetFails(s) \/ ReceiveEnds(s)

Send(r) == \E s \in Sockets : Push(r, s) \/ PushFails(r, s)

Next ==
    \/ Environment
    \/ ReplicaLife
    \/ \E s \in Sockets : Endpoint(s)
    \/ \E r \in Replicas : TakeMessage(r) \/ Send(r)

Spec == Init /\ [][Next]_vars

-----------------------------------------------------------------------------
(* Safety.                                                                 *)

RegisteredAt(r, s) == Registered(registry[r], s)

\* No interleaving of register(), unregister() by an endpoint and unregister()
\* by a failed push leaves the two dictionaries of a replica out of step: a
\* socket listed under a location it does not remember would never be cleaned
\* up, one not listed would never be pushed to.
RegistryConsistent == \A r \in Replicas : Consistent(registry[r])

\* A registered socket belongs to an endpoint of this process that has run
\* register() and not its finally clause, with the ids that endpoint looked up;
\* and an endpoint that is being served to a client still there is registered,
\* whatever pushes failed meanwhile.
RegistryOwned ==
    /\ \A r \in Replicas, s \in Sockets : RegisteredAt(r, s) =>
         /\ HostOf[s] = r
         /\ handler[s] \in {"greeting", "receiving", "failed"}
         /\ registry[r].bySocket[s] = lookup[s]
    /\ \A s \in Sockets :
         handler[s] \in {"greeting", "receiving"} /\ peer[s] = "open" => RegisteredAt(HostOf[s], s)

\* A broadcast in progress is for a message that was published, and every
\* socket left in its snapshot had looked that location up on this replica.
PendingSound == \A r \in Replicas : \A s \in pending[r] :
    /\ cursor[r] \in 1..Len(published)
    /\ HostOf[s] = r
    /\ joined[s] < cursor[r]
    /\ published[cursor[r]] \in lookup[s]

\* How far an endpoint and its forwarder have come agree: nothing is sent before
\* register(), a stopped process holds no broadcast and runs no endpoint, and a
\* socket still to be sent the current message has only earlier ones.
BroadcastProgress ==
    /\ \A r \in Replicas :
         /\ cursor[r] <= Len(published)
         /\ service[r] = "down" => pending[r] = {}
    /\ \A s \in Sockets :
         LET r == HostOf[s]
         IN /\ service[r] = "down" => handler[s] \in {"idle", "closed"}
            /\ handler[s] \in {"idle", "accepting"} => received[s] = <<>> /\ s \notin pending[r]
            /\ handler[s] \in {"greeting", "receiving", "failed"} => joined[s] <= cursor[r]
            /\ \A i \in DOMAIN received[s] :
                 /\ received[s][i] <= cursor[r]
                 /\ s \in pending[r] => received[s][i] < cursor[r]

\* A client only ever receives alerts its forwarder took up after it registered,
\* for locations its user was subscribed to when it connected.
DeliveredOnlyLookedUp == \A s \in Sockets : \A i \in DOMAIN received[s] :
    /\ received[s][i] \in joined[s] + 1 .. Len(published)
    /\ published[received[s][i]] \in lookup[s]

\* A client receives the alerts in the order they were published, none twice,
\* although every send is an await of its own and any send may fail.
InOrderAtMostOnce == \A s \in Sockets : \A i, j \in DOMAIN received[s] :
    i < j => received[s][i] < received[s][j]

\* Message n concerned socket s and its forwarder is done with it.
Handled(s, n) ==
    LET r == HostOf[s]
    IN /\ joined[s] < n /\ n <= cursor[r]
       /\ published[n] \in lookup[s]
       /\ ~(n = cursor[r] /\ s \in pending[r])

\* Other clients leaving, failing sends and registrations in the middle of a
\* broadcast never cost a connected client an alert: whatever its forwarder is
\* done with, since it registered and for the locations it looked up, it has.
NoMissedAlert == \A s \in Sockets :
    handler[s] \in {"greeting", "receiving"} /\ peer[s] = "open" =>
      \A n \in 1..Len(published) :
        Handled(s, n) => \E i \in DOMAIN received[s] : received[s][i] = n

-----------------------------------------------------------------------------
(* The fan-out implements its abstract specification.                      *)

Serving(s) == handler[s] \in {"greeting", "receiving"} /\ peer[s] = "open"

ClientBar(s) ==
    IF Serving(s)
    THEN [stage |-> "joined", interest |-> lookup[s], since |-> joined[s], got |-> received[s]]
    ELSE IF peer[s] = "gone"
    THEN [stage |-> "left", interest |-> {}, since |-> 0, got |-> received[s]]
    ELSE [stage |-> "absent", interest |-> {}, since |-> 0, got |-> <<>>]

Delivery == INSTANCE AlertDelivery WITH sent <- published, client <- [s \in Sockets |-> ClientBar(s)]

\* Behind the snapshots, the failing sends, the two places that unregister and the
\* restarts, each client sees one gap-free, ordered, duplicate-free stream: every
\* step of the code is one step of AlertDelivery, or changes nothing of it.
DeliveryImplemented == Delivery!Spec

-----------------------------------------------------------------------------
(* Liveness, under the fairness of AlertPipeline.                          *)

\* A client that leaves while its endpoint is receiving is unregistered.
DisconnectsCleanUp == \A s \in Sockets :
    (handler[s] = "receiving" /\ peer[s] = "gone") ~> ~RegisteredAt(HostOf[s], s)

-----------------------------------------------------------------------------
(* A claim of the repository that the code does not keep.                  *)

\* "location_id -> set of live websocket connections subscribed to it"
\* (connection_manager.py:22): a registered socket has an endpoint that runs.
RegistryHoldsLiveConnections == \A r \in Replicas, s \in Sockets :
    RegisteredAt(r, s) => handler[s] \in {"greeting", "receiving"}

=============================================================================
