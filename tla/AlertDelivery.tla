---------------------------- MODULE AlertDelivery ----------------------------
(***************************************************************************)
(* What the fan-out promises to the clients: a client that joins with some *)
(* locations of interest gets, as long as it stays, the messages sent for  *)
(* them from some point on, in order, with no gap and no repetition.  Of   *)
(* replicas, forwarders, registries and snapshots a client knows nothing.  *)
(***************************************************************************)
EXTENDS Naturals, Sequences

CONSTANTS Sockets, Locations

VARIABLES
    sent,       \* the location of each message, in the order they were sent
    client      \* socket -> [stage, interest, since, got]

vars == <<sent, client>>

Absent == [stage |-> "absent", interest |-> {}, since |-> 0, got |-> <<>>]

\* A client that has left: what it had got is all it will ever have.
Left(got) == [stage |-> "left", interest |-> {}, since |-> 0, got |-> got]

Init == sent = <<>> /\ client = [s \in Sockets |-> Absent]

Send(l) == sent' = Append(sent, l) /\ UNCHANGED client

Join(s) ==
    /\ client[s].stage = "absent"
    /\ \E ls \in SUBSET Locations, n \in 0..Len(sent) :
         client' = [client EXCEPT ![s] = [stage |-> "joined", interest |-> ls, since |-> n, got |-> <<>>]]
    /\ UNCHANGED sent

\* The messages client c is to get.
Due(c) == {n \in c.since + 1 .. Len(sent) : sent[n] \in c.interest}

Got(c) == {c.got[i] : i \in DOMAIN c.got}

\* The first one it does not have yet.
Deliver(s) ==
    /\ client[s].stage = "joined"
    /\ \E n \in Due(client[s]) \ Got(client[s]) :
         /\ \A m \in Due(client[s]) \ Got(client[s]) : n <= m
         /\ \A m \in Got(client[s]) : m < n
         /\ client' = [client EXCEPT ![s].got = Append(@, n)]
    /\ UNCHANGED sent

\* Clients leave, or their replica stops and all of its clients are cut off.
Leave(S) ==
    /\ client' = [s \in Sockets |-> IF s \in S THEN Left(client[s].got) ELSE client[s]]
    /\ UNCHANGED sent

Next ==
    \/ \E l \in Locations : Send(l)
    \/ \E s \in Sockets : Join(s) \/ Deliver(s)
    \/ \E S \in SUBSET Sockets : Leave(S)

Spec == Init /\ [][Next]_vars
=============================================================================
