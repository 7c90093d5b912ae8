--------------------------- MODULE WeatherRoutes ---------------------------
(***************************************************************************)
(* One API replica serving the weather routes and the alert sockets        *)
(* (weather.py, ws.py) from one pool of database connections (database.py) *)
(* and one cached weather answer in Redis: the key of one location, which  *)
(* other keys do not affect.                                               *)
(*                                                                         *)
(* The session of a request takes a connection from the pool with its      *)
(* first query, the look-up of the user, and keeps it, no route ending the *)
(* transaction, until get_session() closes it when the request is over:    *)
(* through an upstream call of up to 10 s, and for a socket until the      *)
(* client leaves.  A request that finds the pool empty waits, for at most  *)
(* the pool's timeout.                                                     *)
(***************************************************************************)
EXTENDS Naturals, FiniteSets

CONSTANTS
    Requests,
    PoolSize,       \* connections of the pool, its overflow included
    Ttl             \* weather_cache_ttl_seconds, in ticks

ASSUME WeatherAssumption ==
    IsFiniteSet(Requests) /\ PoolSize \in Nat \ {0} /\ Ttl \in Nat \ {0}

VARIABLES
    stage,          \* request -> where its coroutine is
    route,          \* request -> the route it is for
    free,           \* connections that are in the pool
    cached          \* ticks the cached answer has left to live; 0: no answer

vars == <<stage, route, free, cached>>

Routes == {"current", "history", "alerts"}

\* Holding a connection: looking in the cache, calling Open-Meteo, storing its
\* answer, reading the readings, and pushing alerts.
Holding == {"looking", "fetching", "storing", "querying", "streaming"}

In(st) == {q \in Requests : stage[q] = st}

TypeOK ==
    /\ stage \in [Requests -> {"idle", "waiting"} \cup Holding]
    /\ route \in [Requests -> Routes]
    /\ free \in 0..PoolSize
    /\ cached \in 0..Ttl

Init ==
    /\ stage = [q \in Requests |-> "idle"]
    /\ route = [q \in Requests |-> "current"]
    /\ free = PoolSize
    /\ cached = 0

GoTo(q, st) == stage' = [stage EXCEPT ![q] = st]

\* get_session(): the request is over, by a return or by an exception, and its
\* session is closed.
Close(q) == GoTo(q, "idle") /\ free' = free + 1

-----------------------------------------------------------------------------
(* get_current_user() and get_current_user_ws(): the first query.          *)

Arrive(q, r) ==
    /\ stage[q] = "idle"
    /\ GoTo(q, "waiting")
    /\ route' = [route EXCEPT ![q] = r]
    /\ UNCHANGED <<free, cached>>

\* A connection is free; the user and the location are found, or the request is
\* over with a 401 or a 404 and the connection is back.
Acquire(q) ==
    /\ stage[q] = "waiting"
    /\ free > 0
    /\ \/ free' = free - 1
          /\ GoTo(q, CASE route[q] = "current" -> "looking"
                       [] route[q] = "history" -> "querying"
                       [] route[q] = "alerts" -> "streaming")
       \/ free' = free /\ GoTo(q, "idle")
    /\ UNCHANGED <<route, cached>>

\* Variant: a request waits for a connection as long as it takes.
NeverTimesOut(q) == FALSE /\ UNCHANGED vars

\* No connection comes back within the pool's timeout: 500.
PoolTimeout(q) ==
    /\ stage[q] = "waiting"
    /\ free = 0
    /\ GoTo(q, "idle")
    /\ UNCHANGED <<route, free, cached>>

-----------------------------------------------------------------------------
(* get_current_weather()                                                   *)

Hit(q) ==
    /\ stage[q] = "looking"
    /\ cached > 0
    /\ Close(q)
    /\ UNCHANGED <<route, cached>>

\* Variant: the session is closed before the upstream call.
MissClosingFirst(q) ==
    /\ stage[q] = "looking"
    /\ cached = 0
    /\ GoTo(q, "fetching")
    /\ free' = free + 1
    /\ UNCHANGED <<route, cached>>

Miss(q) ==
    /\ stage[q] = "looking"
    /\ cached = 0
    /\ GoTo(q, "fetching")
    /\ UNCHANGED <<route, free, cached>>

FetchAnswers(q) ==
    /\ stage[q] = "fetching"
    /\ GoTo(q, "storing")
    /\ UNCHANGED <<route, free, cached>>

\* Variant: the session stays open when the upstream call fails.
FetchFailsLeaking(q) ==
    /\ stage[q] = "fetching"
    /\ GoTo(q, "idle")
    /\ UNCHANGED <<route, free, cached>>

\* WeatherFetchError, answered by 502 (exceptions.py), or another exception: 500.
FetchFails(q) ==
    /\ stage[q] = "fetching"
    /\ Close(q)
    /\ UNCHANGED <<route, cached>>

\* SETEX replaces whatever a concurrent miss has stored meanwhile.
Store(q) ==
    /\ stage[q] = "storing"
    /\ cached' = Ttl
    /\ Close(q)
    /\ UNCHANGED route

-----------------------------------------------------------------------------

\* get_weather_history() returns its rows.
Query(q) ==
    /\ stage[q] = "querying"
    /\ Close(q)
    /\ UNCHANGED <<route, cached>>

\* Redis (which may have stored the answer) or the database raises, or the client
\* of a socket leaves.
Ends(q) ==
    /\ stage[q] \in {"looking", "storing", "querying", "streaming"}
    /\ cached' = cached \/ (stage[q] = "storing" /\ cached' = Ttl)
    /\ Close(q)
    /\ UNCHANGED route

Tick ==
    /\ cached > 0
    /\ cached' = cached - 1
    /\ UNCHANGED <<stage, route, free>>

\* The replica stops: its requests, its sockets and its pool are gone.
Restart ==
    /\ stage' = [q \in Requests |-> "idle"]
    /\ free' = PoolSize
    /\ UNCHANGED <<route, cached>>

Serve(q) ==
    \/ Acquire(q) \/ PoolTimeout(q)
    \/ Hit(q) \/ Miss(q) \/ FetchAnswers(q) \/ FetchFails(q) \/ Store(q)
    \/ Query(q)

Next ==
    \/ \E q \in Requests : (\E r \in Routes : Arrive(q, r)) \/ Serve(q) \/ Ends(q)
    \/ Tick \/ Restart

Spec == Init /\ [][Next]_vars

\* Every awaited call ends: the upstream call and the wait for a connection have
\* timeouts, Redis and the database answer.  Nothing makes a socket end.
FairSpec == Spec /\ \A q \in Requests : WF_vars(Serve(q))

-----------------------------------------------------------------------------

\* "always closed afterwards, whether the request succeeded or failed"
\* (database.py:6): each connection is in the pool or held by a request that has
\* not been answered, on every path through the routes.
NoConnectionLost == free + Cardinality({q \in Requests : stage[q] \in Holding}) = PoolSize

\* The cache is no lock: nothing but the pool bounds the calls to Open-Meteo that
\* a burst of queries makes at once, and open sockets use that bound up too.
BurstBoundedByPool == Cardinality(In("fetching")) + Cardinality(In("streaming")) <= PoolSize

\* Under FairSpec every HTTP request is answered, even when sockets that never
\* end hold all connections: by then with the pool's timeout.
EveryRequestAnswered == \A q \in Requests :
    (stage[q] = "waiting" /\ route[q] # "alerts") ~> stage[q] = "idle"

-----------------------------------------------------------------------------
(* A claim of the repository that the code does not keep.                  *)

\* "so a burst of user queries never translates into a burst of upstream
\* Open-Meteo calls" (weather.py:34-36): one call at a time for one location.
NoBurstUpstream == Cardinality(In("fetching")) <= 1
=============================================================================
