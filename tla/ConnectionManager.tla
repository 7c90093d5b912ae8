-------------------------- MODULE ConnectionManager --------------------------
(***************************************************************************)
(* The per-process registry of app/services/connection_manager.py: two     *)
(* dictionaries that must stay inverse to one another.  A registry is a    *)
(* record whose two fields are partial functions, as the dictionaries are: *)
(*   byLocation : location id -> non-empty set of sockets  (_by_location)  *)
(*   bySocket   : socket -> set of location ids            (_by_socket)    *)
(* register() and unregister() hold the asyncio lock for their whole body  *)
(* and never suspend inside it, so each is one atomic operator.            *)
(***************************************************************************)
CONSTANTS Sockets, Locations

\* Variant: a lookup with a wrong default.
GetOrKey(d, k) == IF k \in DOMAIN d THEN d[k] ELSE {k}

\* d.get(k, set()) of a dictionary of sets.
Get(d, k) == IF k \in DOMAIN d THEN d[k] ELSE {}

EmptyDict == [x \in {} |-> {}]

EmptyRegistry == [byLocation |-> EmptyDict, bySocket |-> EmptyDict]

Registered(reg, ws) == ws \in DOMAIN reg.bySocket

\* register(): remember the ids of the socket and add it under each of them.
Register(reg, ws, ids) ==
    [byLocation |-> [l \in DOMAIN reg.byLocation \cup ids |->
                       IF l \in ids THEN Get(reg.byLocation, l) \cup {ws}
                                    ELSE reg.byLocation[l]],
     bySocket   |-> [s \in DOMAIN reg.bySocket \cup {ws} |->
                       IF s = ws THEN ids ELSE reg.bySocket[s]]]

\* Variant: the socket is forgotten but left in the per-location sets.
UnregisterSocketOnly(reg, ws) ==
    [reg EXCEPT !.bySocket = [s \in DOMAIN @ \ {ws} |-> @[s]]]

\* unregister(): forget the socket, discard it under each of the ids it had,
\* and delete a location whose set becomes empty.  A no-op if unknown.
Unregister(reg, ws) ==
    LET ids  == Get(reg.bySocket, ws)
        kept == {l \in DOMAIN reg.byLocation : l \in ids => reg.byLocation[l] # {ws}}
    IN [byLocation |-> [l \in kept |-> IF l \in ids THEN reg.byLocation[l] \ {ws}
                                                    ELSE reg.byLocation[l]],
        bySocket   |-> [s \in DOMAIN reg.bySocket \ {ws} |-> reg.bySocket[s]]]

\* Variant: a broadcast to every socket of the replica.
AudienceEverybody(reg, l) == DOMAIN reg.bySocket

\* The sockets a broadcast to location l will be attempted on.
Audience(reg, l) == Get(reg.byLocation, l)

-----------------------------------------------------------------------------

IsRegistry(reg) ==
    /\ reg = [byLocation |-> reg.byLocation, bySocket |-> reg.bySocket]
    /\ DOMAIN reg.byLocation \subseteq Locations
    /\ DOMAIN reg.bySocket \subseteq Sockets
    /\ \A l \in DOMAIN reg.byLocation : reg.byLocation[l] \subseteq Sockets
    /\ \A s \in DOMAIN reg.bySocket : reg.bySocket[s] \subseteq Locations

\* The two dictionaries are inverse relations, and no empty set is kept.
Consistent(reg) ==
    /\ \A l \in Locations, s \in Sockets :
         s \in Get(reg.byLocation, l) <=> l \in Get(reg.bySocket, s)
    /\ \A l \in DOMAIN reg.byLocation : reg.byLocation[l] # {}
=============================================================================
