------------------------- MODULE WeatherRoutesProofs -------------------------
(***************************************************************************)
(* Theorems about WeatherRoutes, for any number of requests, any size of   *)
(* the pool and any TTL.                                                   *)
(***************************************************************************)
EXTENDS WeatherRoutes, FiniteSetTheorems, TLAPS

Held == {q \in Requests : stage[q] \in Holding}

\* No type holds by itself: that a returned connection fits into the pool follows
\* from the count of those that are held.
PoolInv == TypeOK /\ NoConnectionLost

\* Only finitely many connections are held.
LEMMA HeldFinite == IsFiniteSet(Held) /\ Cardinality(Held) \in Nat
BY WeatherAssumption, FS_Subset, FS_CardinalityType DEF Held

\* A request that takes a connection is one more holder of one.
LEMMA OneMoreHeld ==
    ASSUME PoolInv, NEW q \in Requests, stage[q] \notin Holding, NEW st \in Holding, GoTo(q, st)
    PROVE  Cardinality(Held') = Cardinality(Held) + 1
<1>1. Held' = Held \cup {q} /\ q \notin Held
  BY DEF PoolInv, TypeOK, Held, GoTo
<1> QED BY <1>1, HeldFinite, FS_AddElement

\* A request whose session is closed is one holder less, and there was one.
LEMMA OneLessHeld ==
    ASSUME PoolInv, NEW q \in Requests, stage[q] \in Holding, GoTo(q, "idle")
    PROVE  Cardinality(Held') = Cardinality(Held) - 1 /\ Cardinality(Held) > 0
<1>1. Held' = Held \ {q} /\ q \in Held
  BY DEF PoolInv, TypeOK, Held, GoTo, Holding
<1>2. Cardinality(Held') = Cardinality(Held) - 1 /\ Cardinality(Held') \in Nat
  BY <1>1, HeldFinite, FS_RemoveElement, FS_CardinalityType
<1> QED BY <1>2, HeldFinite

\* Closing a session returns what the request held.
LEMMA CloseReturns ==
    ASSUME PoolInv, NEW q \in Requests, stage[q] \in Holding, Close(q),
           UNCHANGED route, cached' \in 0..Ttl
    PROVE  PoolInv'
<1>1. Cardinality(Held') = Cardinality(Held) - 1 /\ Cardinality(Held) > 0
  BY OneLessHeld DEF Close
<1>2. NoConnectionLost'
  BY <1>1, HeldFinite, WeatherAssumption DEF PoolInv, TypeOK, NoConnectionLost, Held, Close
<1>3. TypeOK'
  BY <1>1, HeldFinite, WeatherAssumption DEF PoolInv, TypeOK, NoConnectionLost, Held, Close, GoTo
<1> QED BY <1>2, <1>3 DEF PoolInv

\* A step within a request keeps what it holds.
LEMMA KeepsHeld ==
    ASSUME PoolInv, NEW q \in Requests, NEW st \in {"idle", "waiting"} \cup Holding, GoTo(q, st),
           stage[q] \in Holding <=> st \in Holding,
           route' \in [Requests -> Routes], UNCHANGED <<free, cached>>
    PROVE  PoolInv'
<1>1. Held' = Held
  BY DEF PoolInv, TypeOK, Held, GoTo
<1> QED BY <1>1 DEF PoolInv, TypeOK, NoConnectionLost, Held, GoTo

\* Every path through the routes, and the end of the replica, keeps the account.
LEMMA PoolStep == PoolInv /\ [Next]_vars => PoolInv'
<1> SUFFICES ASSUME PoolInv, [Next]_vars PROVE PoolInv'
  OBVIOUS
<1>0. TypeOK
  BY DEF PoolInv
<1>1. CASE UNCHANGED vars
  BY <1>1 DEF vars, PoolInv, TypeOK, NoConnectionLost
<1>2. ASSUME NEW q \in Requests, NEW r \in Routes, Arrive(q, r) PROVE PoolInv'
  BY <1>0, <1>2, KeepsHeld DEF Arrive, Holding, TypeOK
<1>3. ASSUME NEW q \in Requests, Acquire(q) PROVE PoolInv'
  <2>1. CASE free' = free /\ GoTo(q, "idle")
    BY <1>0, <1>3, <2>1, KeepsHeld DEF Acquire, Holding, TypeOK
  <2>2. ASSUME free' = free - 1, NEW st \in Holding, GoTo(q, st) PROVE PoolInv'
    <3>1. stage[q] \notin Holding
      BY <1>3 DEF Acquire, Holding
    <3>2. Cardinality(Held') = Cardinality(Held) + 1
      BY <2>2, <3>1, OneMoreHeld
    <3>3. NoConnectionLost'
      BY <1>3, <2>2, <3>2, HeldFinite, WeatherAssumption
      DEF Acquire, PoolInv, TypeOK, NoConnectionLost, Held
    <3>4. TypeOK'
      BY <1>0, <1>3, <2>2, WeatherAssumption DEF Acquire, TypeOK, GoTo
    <3> QED BY <3>3, <3>4 DEF PoolInv
  <2> QED BY <1>0, <1>3, <2>1, <2>2 DEF Acquire, TypeOK, Routes, Holding
<1>4. ASSUME NEW q \in Requests, PoolTimeout(q) \/ Miss(q) \/ FetchAnswers(q) PROVE PoolInv'
  BY <1>0, <1>4, KeepsHeld DEF PoolTimeout, Miss, FetchAnswers, Holding, TypeOK
<1>5. ASSUME NEW q \in Requests,
             Hit(q) \/ FetchFails(q) \/ Store(q) \/ Query(q) \/ Ends(q)
      PROVE  PoolInv'
  <2>1. stage[q] \in Holding /\ Close(q) /\ UNCHANGED route
    BY <1>5 DEF Hit, FetchFails, Store, Query, Ends, Holding
  <2>2. cached' \in 0..Ttl
    BY <1>0, <1>5, WeatherAssumption DEF Hit, FetchFails, Store, Query, Ends, TypeOK
  <2> QED BY <2>1, <2>2, CloseReturns
<1>6. CASE Tick
  BY <1>0, <1>6, WeatherAssumption DEF Tick, PoolInv, TypeOK, NoConnectionLost
<1>7. CASE Restart
  <2>1. {q \in Requests : stage'[q] \in Holding} = {}
    BY <1>7 DEF Restart, Holding
  <2> QED BY <1>0, <1>7, <2>1, FS_EmptySet, WeatherAssumption
      DEF Restart, PoolInv, TypeOK, NoConnectionLost
<1> QED BY <1>1, <1>2, <1>3, <1>4, <1>5, <1>6, <1>7 DEF Next, Serve

\* Initially the pool is full.
LEMMA PoolInit == Init => PoolInv
<1> SUFFICES ASSUME Init PROVE PoolInv
  OBVIOUS
<1>1. {q \in Requests : stage[q] \in Holding} = {}
  BY DEF Init, Holding
<1> QED BY <1>1, FS_EmptySet, WeatherAssumption DEF Init, PoolInv, TypeOK, NoConnectionLost, Routes

\* Each variable keeps its type: in particular the pool never holds more
\* connections than it has.
THEOREM PoolTypeCorrect == Spec => []TypeOK
<1>1. PoolInv => TypeOK
  BY DEF PoolInv
<1> QED BY <1>1, PoolInit, PoolStep, PTL DEF Spec

\* A connection is in the pool or held by a request that is not over, whatever
\* fails on the way.
THEOREM ConnectionsAccountedFor == Spec => []NoConnectionLost
<1>1. PoolInv => NoConnectionLost
  BY DEF PoolInv
<1> QED BY <1>1, PoolInit, PoolStep, PTL DEF Spec

\* The calls to Open-Meteo and the open sockets share the pool: together they are
\* never more than its connections.
THEOREM BurstIsBounded == Spec => []BurstBoundedByPool
<1>1. ASSUME PoolInv PROVE BurstBoundedByPool
  <2> DEFINE F == In("fetching")
             S == In("streaming")
  <2>1. F \subseteq Held /\ S \subseteq Held /\ F \cap S = {}
    BY DEF In, Held, Holding
  <2>2. IsFiniteSet(F) /\ IsFiniteSet(S) /\ IsFiniteSet(Held)
    BY <2>1, HeldFinite, FS_Subset
  <2> HIDE DEF F, S
  <2>3. Cardinality(F \cup S) = Cardinality(F) + Cardinality(S) - Cardinality(F \cap S)
    BY <2>2, FS_Union
  <2>4. Cardinality(F \cap S) = 0
    BY <2>1, FS_EmptySet
  <2>5. Cardinality(F \cup S) <= Cardinality(Held)
    BY <2>1, <2>2, FS_Subset
  <2>6. free \in Nat /\ free + Cardinality(Held) = PoolSize
    BY <1>1, WeatherAssumption DEF PoolInv, TypeOK, NoConnectionLost, Held
  <2>7. /\ Cardinality(F) \in Nat /\ Cardinality(S) \in Nat /\ Cardinality(Held) \in Nat
    BY <2>2, FS_CardinalityType
  <2>8. Cardinality(F) + Cardinality(S) <= PoolSize
    BY <2>3, <2>4, <2>5, <2>6, <2>7, WeatherAssumption
  <2> QED BY <2>8 DEF BurstBoundedByPool, F, S
<1> QED BY <1>1, PoolInit, PoolStep, PTL DEF Spec
=============================================================================
