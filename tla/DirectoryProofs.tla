--------------------------- MODULE DirectoryProofs ---------------------------
(***************************************************************************)
(* The routes of the directory implement their atomic specification, for   *)
(* any number of concurrent requests, users, names, emails and coordinates.*)
(***************************************************************************)
EXTENDS Directory, TLAPS

\* What a request has established by the stage it is in, and what the other
\* requests cannot undo: a row that was there remains there, the call that found
\* none when it arrived may be refused, and what is updated exists.
RequestInv(q) ==
    LET c == request[q].call
        stage == request[q].stage
    IN /\ stage # "done" => c \in Calls
       /\ stage = "called" => Found(db, c) \/ request[q].absent
       /\ stage = "inserting" =>
            /\ request[q].absent
            /\ c.op \in {"register", "create", "subscribe"}
            /\ c.op = "subscribe" => c.location \in DOMAIN db.locations
       /\ stage \in {"updating", "refreshing"} =>
            /\ c.op \in {"subscribe", "unsubscribe"}
            /\ Key(c) \in DOMAIN db.subscriptions
       /\ stage = "refreshing" => c.op = "subscribe"

DirectoryInv == TypeOK /\ \A q \in Requests : RequestInv(q)

-----------------------------------------------------------------------------
(* What the writes do to the tables.                                       *)

\* Rows are added to a table, none is removed.
Grows(t, u) ==
    /\ t.accounts \subseteq u.accounts
    /\ DOMAIN t.locations \subseteq DOMAIN u.locations
    /\ \A id \in DOMAIN t.locations : u.locations[id] = t.locations[id]
    /\ DOMAIN t.subscriptions \subseteq DOMAIN u.subscriptions

\* A row that a route has found is found again later.
LEMMA FoundGrows ==
    ASSUME NEW t, NEW u, NEW c, Grows(t, u), Found(t, c)
    PROVE  Found(u, c)
BY DEF Found, Grows

\* What the fields of a call are, by its route.
LEMMA CallFields ==
    ASSUME NEW c \in Calls
    PROVE  /\ c.op \in {"register", "create", "subscribe", "unsubscribe"}
           /\ c.op = "register" => c.name \in Names /\ c.email \in Emails
           /\ c.op = "create" => c.point \in Points
           /\ c.op \in {"subscribe", "unsubscribe"} =>
                c.user \in Users /\ c.location \in 1..MaxLocations
BY DEF Calls

\* The tables of a new database.
LEMMA EmptyIsTables == AreTables(Empty)
BY DEF AreTables, Empty

\* Writing the subscription of an existing location keeps the tables well formed.
LEMMA SetActiveTables ==
    ASSUME NEW t, AreTables(t), NEW c, c.user \in Users, c.location \in DOMAIN t.locations,
           NEW active \in BOOLEAN
    PROVE  /\ AreTables(SetActive(t, c, active))
           /\ Grows(t, SetActive(t, c, active))
           /\ Key(c) \in DOMAIN SetActive(t, c, active).subscriptions
<1> DEFINE u == SetActive(t, c, active)
           rows == [k \in DOMAIN t.subscriptions \cup {Key(c)} |->
                      IF k = Key(c) THEN active ELSE t.subscriptions[k]]
<1>1. rows \in [DOMAIN rows -> BOOLEAN] /\ DOMAIN rows = DOMAIN t.subscriptions \cup {Key(c)}
  BY DEF AreTables
<1>2. u = [t EXCEPT !.subscriptions = rows]
  BY DEF SetActive
<1>3. Key(c) \in Users \X DOMAIN t.locations
  BY DEF Key
<1> HIDE DEF rows, u
<1>4. u.accounts = t.accounts /\ u.locations = t.locations /\ u.subscriptions = rows
  BY <1>2 DEF AreTables
<1>5. AreTables(u)
  BY <1>1, <1>2, <1>3, <1>4 DEF AreTables
<1>6. Grows(t, u) /\ Key(c) \in DOMAIN u.subscriptions
  BY <1>1, <1>4 DEF Grows
<1> QED BY <1>5, <1>6 DEF u

\* Writing the value that a subscription has already changes nothing.
LEMMA SetActiveIdle ==
    ASSUME NEW t, AreTables(t), NEW c, Key(c) \in DOMAIN t.subscriptions,
           NEW active \in BOOLEAN, t.subscriptions[Key(c)] = active
    PROVE  SetActive(t, c, active) = t
<1> DEFINE rows == [k \in DOMAIN t.subscriptions \cup {Key(c)} |->
                      IF k = Key(c) THEN active ELSE t.subscriptions[k]]
<1>1. rows = t.subscriptions
  BY DEF AreTables
<1>2. SetActive(t, c, active) = [t EXCEPT !.subscriptions = rows]
  BY DEF SetActive
<1> HIDE DEF rows
<1> QED BY <1>1, <1>2 DEF AreTables

\* So does the row that a route inserts.
LEMMA InsertTables ==
    ASSUME NEW t, AreTables(t), NEW c \in Calls,
           c.op \in {"register", "create", "subscribe"},
           c.op = "subscribe" => c.location \in DOMAIN t.locations
    PROVE  /\ AreTables(Insert(t, c))
           /\ Grows(t, Insert(t, c))
           /\ Found(Insert(t, c), c)
<1>1. CASE c.op = "register"
  <2> DEFINE u == [t EXCEPT !.accounts = @ \cup {[name |-> c.name, email |-> c.email]}]
  <2>1. Insert(t, c) = u
    BY <1>1 DEF Insert
  <2>2. [name |-> c.name, email |-> c.email] \in [name : Names, email : Emails]
    BY <1>1, CallFields
  <2>3. AreTables(u) /\ Grows(t, u)
    BY <2>2 DEF AreTables, Grows
  <2>4. u.accounts = t.accounts \cup {[name |-> c.name, email |-> c.email]}
    BY DEF AreTables
  <2> HIDE DEF u
  <2>5. \E a \in u.accounts : a.name = c.name \/ a.email = c.email
    <3> DEFINE a == [name |-> c.name, email |-> c.email]
    <3>1. a \in u.accounts
      BY <2>4
    <3> QED BY <3>1
  <2>6. Found(u, c)
    BY <1>1, <2>5 DEF Found
  <2> QED BY <2>1, <2>3, <2>6
<1>2. CASE c.op = "create"
  <2> DEFINE u == [t EXCEPT !.locations = Append(@, CellOf(c.point))]
             more == Append(t.locations, CellOf(c.point))
  <2>1. Insert(t, c) = u
    BY <1>2 DEF Insert
  <2>2. t.locations \in Seq(Cells) /\ CellOf(c.point) \in Cells
    BY <1>2, CallFields DEF Cells, AreTables
  <2>3. /\ more \in Seq(Cells)
        /\ DOMAIN t.locations \subseteq DOMAIN more
        /\ \A id \in DOMAIN t.locations : more[id] = t.locations[id]
        /\ \E id \in DOMAIN more : more[id] = CellOf(c.point)
    <3> HIDE DEF more
    <3> DEFINE n == Len(t.locations)
    <3>1. /\ more \in Seq(Cells) /\ DOMAIN more = 1 .. n + 1 /\ more[n + 1] = CellOf(c.point)
          /\ \A id \in 1..n : more[id] = t.locations[id]
      BY <2>2 DEF more
    <3>2. n \in Nat /\ DOMAIN t.locations = 1..n
      BY <2>2
    <3> QED BY <3>1, <3>2
  <2>4. u = [t EXCEPT !.locations = more]
    OBVIOUS
  <2> HIDE DEF u, more
  <2>5. u.accounts = t.accounts /\ u.locations = more /\ u.subscriptions = t.subscriptions
    BY <2>4 DEF AreTables
  <2>6. AreTables(u) /\ Grows(t, u)
    BY <2>3, <2>4, <2>5 DEF AreTables, Grows
  <2>7. Found(u, c)
    BY <1>2, <2>3, <2>5 DEF Found
  <2> QED BY <2>1, <2>6, <2>7
<1>3. CASE c.op = "subscribe"
  <2>1. Insert(t, c) = SetActive(t, c, TRUE)
    BY <1>3 DEF Insert
  <2>2. c.user \in Users
    BY <1>3, CallFields
  <2> QED BY <1>3, <2>1, <2>2, SetActiveTables DEF Found
<1> QED BY <1>1, <1>2, <1>3

-----------------------------------------------------------------------------
(* The invariant.                                                          *)

\* What a request has established survives the steps of the others, which leave
\* it as it is and only add rows.
LEMMA OthersPreserve ==
    ASSUME NEW q \in Requests, RequestInv(q), request'[q] = request[q], Grows(db, db')
    PROVE  RequestInv(q)'
<1>1. Found(db, request[q].call) => Found(db', request[q].call)
  BY FoundGrows
<1>2. DOMAIN db.locations \subseteq DOMAIN db'.locations
      /\ DOMAIN db.subscriptions \subseteq DOMAIN db'.subscriptions
  BY DEF Grows
<1> QED BY <1>1, <1>2 DEF RequestInv

\* A request that is over has established nothing, whatever it answered.
LEMMA OverPreserves ==
    ASSUME DirectoryInv, NEW q \in Requests, NEW answer \in [outcome : Outcomes, id : Nat],
           Reply(q, answer), AreTables(db'), Grows(db, db')
    PROVE  DirectoryInv'
<1>1. TypeOK'
  BY DEF DirectoryInv, TypeOK, Reply, Over, Stages
<1>2. request'[q].stage = "done"
  BY DEF DirectoryInv, TypeOK, Reply, Over
<1>3. ASSUME NEW r \in Requests PROVE RequestInv(r)'
  <2>1. CASE r = q
    BY <1>2, <2>1 DEF RequestInv
  <2>2. CASE r # q
    BY <2>2, OthersPreserve DEF DirectoryInv, TypeOK, Reply
  <2> QED BY <2>1, <2>2
<1> QED BY <1>1, <1>3 DEF DirectoryInv

\* A request that goes on must have established what its next stage relies on.
LEMMA GoToPreserves ==
    ASSUME DirectoryInv, NEW q \in Requests, NEW stage \in Stages, GoTo(q, stage),
           AreTables(db'), Grows(db, db'), RequestInv(q)'
    PROVE  DirectoryInv'
<1>1. TypeOK'
  BY DEF DirectoryInv, TypeOK, GoTo
<1>2. ASSUME NEW r \in Requests, r # q PROVE RequestInv(r)'
  BY <1>2, OthersPreserve DEF DirectoryInv, TypeOK, GoTo
<1> QED BY <1>1, <1>2 DEF DirectoryInv

\* The answers that are given without a look at a row.
LEMMA PlainAnswers ==
    /\ \A outcome \in Outcomes : Says(outcome) \in [outcome : Outcomes, id : Nat]
    /\ \A c : SaysStatus(db, c) \in [outcome : Outcomes, id : Nat]
BY DEF Says, SaysStatus, Outcomes

\* The answer with the id of a location.
LEMMA RowAnswer ==
    ASSUME NEW t, AreTables(t), NEW c, c.op = "create", Found(t, c)
    PROVE  SaysRow(t, c) \in [outcome : Outcomes, id : Nat]
<1>1. RowOf(t, c.point) \in DOMAIN t.locations
  BY DEF Found, RowOf
<1>2. DOMAIN t.locations \subseteq Nat
  BY DEF AreTables
<1> QED BY <1>1, <1>2 DEF SaysRow, Outcomes

\* What the commit of a request writes, and that the row is there afterwards.
LEMMA WrittenTables ==
    ASSUME DirectoryInv, NEW q \in Requests, request[q].stage \in {"inserting", "updating"}
    PROVE  LET c == request[q].call
               u == Written(c, request[q].stage)
           IN AreTables(u) /\ Grows(db, u) /\ Found(u, c)
<1> DEFINE c == request[q].call
           u == Written(c, request[q].stage)
<1>1. AreTables(db) /\ RequestInv(q) /\ c \in Calls
  BY DEF DirectoryInv, TypeOK, RequestInv
<1>2. CASE request[q].stage = "inserting"
  <2>1. u = Insert(db, c)
    BY <1>2 DEF Written
  <2>2. c.op \in {"register", "create", "subscribe"}
        /\ (c.op = "subscribe" => c.location \in DOMAIN db.locations)
    BY <1>1, <1>2 DEF RequestInv
  <2> HIDE DEF u, c
  <2> QED BY <1>1, <2>1, <2>2, InsertTables DEF u, c
<1>3. CASE request[q].stage = "updating"
  <2>1. u = SetActive(db, c, c.op = "subscribe")
    BY <1>3 DEF Written
  <2>2. c.op \in {"subscribe", "unsubscribe"} /\ Key(c) \in DOMAIN db.subscriptions
    BY <1>1, <1>3 DEF RequestInv
  <2>3. c.user \in Users /\ c.location \in DOMAIN db.locations
    BY <1>1, <2>2 DEF AreTables, Key
  <2> DEFINE active == c.op = "subscribe"
  <2>4. active \in BOOLEAN
    OBVIOUS
  <2>5. u = SetActive(db, c, active)
    BY <2>1
  <2> HIDE DEF active, u, c
  <2>6. AreTables(u) /\ Grows(db, u) /\ Key(c) \in DOMAIN u.subscriptions
    BY <1>1, <2>3, <2>4, <2>5, SetActiveTables
  <2> QED BY <2>2, <2>6 DEF Found, u, c
<1> QED BY <1>2, <1>3

\* The invariant holds at the start.
LEMMA InvInit == Init => DirectoryInv
<1> SUFFICES ASSUME Init PROVE DirectoryInv
  OBVIOUS
<1>1. TypeOK
  BY EmptyIsTables, PlainAnswers DEF Init, TypeOK, Over, Stages, Outcomes
<1>2. \A q \in Requests : RequestInv(q)
  BY DEF Init, Over, RequestInv
<1> QED BY <1>1, <1>2 DEF DirectoryInv

\* Every step keeps it.
LEMMA InvNext == DirectoryInv /\ [Next]_vars => DirectoryInv'
<1> SUFFICES ASSUME DirectoryInv, [Next]_vars PROVE DirectoryInv'
  OBVIOUS
<1>0. AreTables(db) /\ \A q \in Requests : RequestInv(q)
  BY DEF DirectoryInv, TypeOK
<1>same. ASSUME UNCHANGED db PROVE AreTables(db') /\ Grows(db, db')
  BY <1>0, <1>same DEF Grows
<1>1. ASSUME NEW q \in Requests, NEW c \in Calls, Call(q, c) PROVE DirectoryInv'
  <2>1. AreTables(db') /\ Grows(db, db')
    BY <1>1, <1>same DEF Call
  <2> DEFINE absent == ~Found(db, c)
  <2>2. absent \in BOOLEAN
    OBVIOUS
  <2>3. request' = [request EXCEPT ![q] = [stage |-> "called", call |-> c,
                                           answer |-> Says("none"), absent |-> absent]]
    BY <1>1 DEF Call
  <2>4. db' = db
    BY <1>1 DEF Call
  <2>5. Found(db, c) \/ absent
    OBVIOUS
  <2> HIDE DEF absent
  <2>6. Says("none") \in [outcome : Outcomes, id : Nat]
    BY PlainAnswers DEF Outcomes
  <2>7. TypeOK'
    BY <2>1, <2>2, <2>3, <2>6 DEF DirectoryInv, TypeOK, Stages
  <2>8. ASSUME NEW r \in Requests PROVE RequestInv(r)'
    <3>1. CASE r = q
      <4>1. /\ request'[q].stage = "called"
            /\ request'[q].call = c
            /\ request'[q].absent = absent
        BY <2>3 DEF DirectoryInv, TypeOK
      <4> QED BY <2>4, <2>5, <3>1, <4>1 DEF RequestInv
    <3>2. CASE r # q
      BY <1>0, <2>1, <2>3, <3>2, OthersPreserve DEF DirectoryInv, TypeOK
    <3> QED BY <3>1, <3>2
  <2> QED BY <2>7, <2>8 DEF DirectoryInv
<1>2. ASSUME NEW q \in Requests, Select(q) PROVE DirectoryInv'
  <2> DEFINE c == request[q].call
  <2>1. db' = db /\ AreTables(db') /\ Grows(db, db')
    BY <1>2, <1>same DEF Select, SelectAccount, SelectLocation, SelectToSubscribe,
                         SelectToUnsubscribe
  <2>2. request[q].stage = "called" /\ RequestInv(q) /\ c \in Calls
    BY <1>0, <1>2 DEF RequestInv, Select, SelectAccount, SelectLocation, SelectToSubscribe,
                      SelectToUnsubscribe, At
  <2>3. ASSUME NEW outcome \in Outcomes, Reply(q, Says(outcome)) PROVE DirectoryInv'
    BY <2>1, <2>3, OverPreserves, PlainAnswers
  <2>4. ASSUME GoTo(q, "inserting"), ~Found(db, c), c.op \in {"register", "create", "subscribe"},
               c.op = "subscribe" => c.location \in DOMAIN db.locations
        PROVE  DirectoryInv'
    <3>1. /\ request'[q].stage = "inserting"
          /\ request'[q].call = c
          /\ request'[q].absent = request[q].absent
      BY <2>4 DEF DirectoryInv, TypeOK, GoTo
    <3>2. RequestInv(q)'
      BY <2>1, <2>2, <2>4, <3>1 DEF RequestInv
    <3> QED BY <2>1, <2>4, <3>2, GoToPreserves DEF Stages
  <2>5. ASSUME GoTo(q, "updating"), Found(db, c), c.op \in {"subscribe", "unsubscribe"}
        PROVE  DirectoryInv'
    <3>1. /\ request'[q].stage = "updating"
          /\ request'[q].call = c
      BY <2>5 DEF DirectoryInv, TypeOK, GoTo
    <3>2. Key(c) \in DOMAIN db.subscriptions
      BY <2>5 DEF Found
    <3>3. RequestInv(q)'
      BY <2>1, <2>2, <2>5, <3>1, <3>2 DEF RequestInv
    <3> QED BY <2>1, <2>5, <3>3, GoToPreserves DEF Stages
  <2>6. CASE SelectAccount(q)
    BY <2>3, <2>4, <2>6 DEF SelectAccount, At, Outcomes
  <2>7. CASE SelectLocation(q)
    <3>1. CASE Found(db, c)
      <4>1. Reply(q, SaysRow(db, c)) /\ c.op = "create"
        BY <2>7, <3>1 DEF SelectLocation, At
      <4> QED BY <1>0, <2>1, <3>1, <4>1, RowAnswer, OverPreserves
    <3>2. CASE ~Found(db, c)
      BY <2>4, <2>7, <3>2 DEF SelectLocation, At
    <3> QED BY <3>1, <3>2
  <2>8. CASE SelectToSubscribe(q)
    BY <2>3, <2>4, <2>5, <2>8 DEF SelectToSubscribe, At, Outcomes
  <2>9. CASE SelectToUnsubscribe(q)
    BY <2>3, <2>5, <2>9 DEF SelectToUnsubscribe, At, Outcomes
  <2> QED BY <1>2, <2>6, <2>7, <2>8, <2>9 DEF Select
<1>3. ASSUME NEW q \in Requests, Commit(q) PROVE DirectoryInv'
  <2> DEFINE c == request[q].call
  <2>1. request[q].stage \in {"inserting", "updating"} /\ db' = Written(c, request[q].stage)
    BY <1>3 DEF Commit
  <2>2. RequestInv(q) /\ c \in Calls
    BY <1>0, <2>1 DEF RequestInv
  <2>3. AreTables(db') /\ Grows(db, db') /\ Found(db', c)
    BY <2>1, WrittenTables
  <2>4. CASE c.op = "register"
    <3>1. Reply(q, Says("created"))
      BY <1>3, <2>4 DEF Commit
    <3> QED BY <2>3, <3>1, OverPreserves, PlainAnswers DEF Outcomes
  <2>5. CASE c.op = "create"
    <3>1. Reply(q, SaysRow(db', c))
      BY <1>3, <2>5 DEF Commit
    <3> QED BY <2>3, <2>5, <3>1, RowAnswer, OverPreserves
  <2>6. CASE c.op = "subscribe"
    <3>1. GoTo(q, "refreshing")
      BY <1>3, <2>6 DEF Commit
    <3>2. request'[q].stage = "refreshing" /\ request'[q].call = c
      BY <3>1 DEF DirectoryInv, TypeOK, GoTo
    <3>3. Key(c) \in DOMAIN db'.subscriptions
      BY <2>3, <2>6 DEF Found
    <3>4. RequestInv(q)'
      BY <2>2, <2>6, <3>2, <3>3 DEF RequestInv
    <3> QED BY <2>3, <3>1, <3>4, GoToPreserves DEF Stages
  <2>7. CASE c.op = "unsubscribe"
    <3>1. Reply(q, Says("removed"))
      BY <1>3, <2>7 DEF Commit
    <3> QED BY <2>3, <3>1, OverPreserves, PlainAnswers DEF Outcomes
  <2> QED BY <2>2, <2>4, <2>5, <2>6, <2>7, CallFields
<1>4. ASSUME NEW q \in Requests, CommitRefused(q) PROVE DirectoryInv'
  BY <1>4, <1>same, OverPreserves, PlainAnswers DEF CommitRefused, Outcomes
<1>5. ASSUME NEW q \in Requests, Refresh(q) PROVE DirectoryInv'
  BY <1>5, <1>same, OverPreserves, PlainAnswers DEF Refresh
<1>6. ASSUME NEW q \in Requests, Fails(q) PROVE DirectoryInv'
  <2>1. Reply(q, Says("error")) /\ Says("error") \in [outcome : Outcomes, id : Nat]
    BY <1>6, PlainAnswers DEF Fails, Outcomes
  <2>2. AreTables(db') /\ Grows(db, db')
    BY <1>6, <1>same, WrittenTables DEF Fails
  <2> QED BY <2>1, <2>2, OverPreserves
<1>7. CASE UNCHANGED vars
  BY <1>7 DEF vars, DirectoryInv, TypeOK, RequestInv, Stages
<1> QED BY <1>1, <1>2, <1>3, <1>4, <1>5, <1>6, <1>7 DEF Next

\* The tables keep their shape, with subscriptions of existing locations only
\* (the foreign key), and every request its stages and answers.
THEOREM DirectoryTypeCorrect == Spec => []TypeOK
<1>1. DirectoryInv => TypeOK
  BY DEF DirectoryInv
<1> QED BY <1>1, InvInit, InvNext, PTL DEF Spec

-----------------------------------------------------------------------------
(* The refinement.                                                         *)

\* The task of the atomic specification that stands for a request, and for all.
Image(r) == [r EXCEPT !.stage = StageBar(@)]

Task == [q \in Requests |-> Image(request[q])]

\* Both specifications are about the same calls, tables and answers.
LEMMA SameTables ==
    /\ Atomic!Calls = Calls
    /\ Atomic!Empty = Empty
    /\ \A a : Atomic!Over(a) = Over(a)
    /\ \A a : Atomic!Says(a) = Says(a)
    /\ \A t, c : Atomic!Found(t, c) <=> Found(t, c)
    /\ \A t, c : Atomic!Insert(t, c) = Insert(t, c)
    /\ \A t, c, a : Atomic!SetActive(t, c, a) = SetActive(t, c, a)
    /\ \A t, c : Atomic!SaysRow(t, c) = SaysRow(t, c)
    /\ \A t, c : Atomic!SaysStatus(t, c) = SaysStatus(t, c)
<1>1. Atomic!Calls = Calls
  BY DEF Atomic!Calls, Calls
<1>2. Atomic!Empty = Empty
  BY Zenon DEF Atomic!Empty, Empty
<1>3. \A a : Atomic!Over(a) = Over(a)
  BY Zenon DEF Atomic!Over, Over, Atomic!NoCall, NoCall
<1>4. \A a : Atomic!Says(a) = Says(a)
  BY Zenon DEF Atomic!Says, Says
<1>5. \A t, c : Atomic!Found(t, c) <=> Found(t, c)
  BY Zenon DEF Atomic!Found, Found, Atomic!Key, Key, Atomic!CellOf, CellOf
<1>6. \A t, c, a : Atomic!SetActive(t, c, a) = SetActive(t, c, a)
  BY Zenon DEF Atomic!SetActive, SetActive, Atomic!Key, Key
<1>7. \A t, c : Atomic!Insert(t, c) = Insert(t, c)
  BY Zenon DEF Atomic!Insert, Insert, Atomic!CellOf, CellOf, Atomic!SetActive, SetActive,
               Atomic!Key, Key
<1>8. \A t, c : Atomic!SaysRow(t, c) = SaysRow(t, c)
  BY Zenon DEF Atomic!SaysRow, SaysRow, Atomic!RowOf, RowOf, Atomic!CellOf, CellOf
<1>9. \A t, c : Atomic!SaysStatus(t, c) = SaysStatus(t, c)
  BY Zenon DEF Atomic!SaysStatus, SaysStatus, Atomic!Says, Says, Atomic!Key, Key
<1> QED BY <1>1, <1>2, <1>3, <1>4, <1>5, <1>6, <1>7, <1>8, <1>9

\* The image of a task that is over is the task.
LEMMA OverImage ==
    ASSUME NEW answer PROVE Image(Over(answer)) = Over(answer)
<1>1. ASSUME NEW call, NEW absent
      PROVE  Image([stage |-> "done", call |-> call, answer |-> answer, absent |-> absent])
             = [stage |-> "done", call |-> call, answer |-> answer, absent |-> absent]
  BY DEF Image, StageBar
<1> DEFINE absent == FALSE
<1>2. Over(answer) = [stage |-> "done", call |-> NoCall, answer |-> answer, absent |-> absent]
  BY Zenon DEF Over
<1> HIDE DEF absent
<1> QED BY <1>1, <1>2

\* The task of a request that is replied to is over in both specifications.
LEMMA ReplyFinishes ==
    ASSUME TypeOK, NEW q \in Requests, NEW answer, Reply(q, answer)
    PROVE  Atomic!Finish(q, answer)
<1>1. request' = [request EXCEPT ![q] = Over(answer)]
  BY DEF Reply
<1>2. Image(Over(answer)) = Over(answer)
  BY OverImage
<1>3. request'[q] = Over(answer) /\ \A r \in Requests : r # q => request'[r] = request[r]
  BY <1>1 DEF TypeOK
<1>4. Task' = [r \in Requests |-> Image(request'[r])]
  BY DEF Task
<1>5. Task' = [Task EXCEPT ![q] = Over(answer)]
  BY <1>2, <1>3, <1>4 DEF Task
<1>6. Task' = [Task EXCEPT ![q] = Atomic!Over(answer)]
  BY <1>5, SameTables
<1> QED BY <1>6 DEF Atomic!Finish, Task, Image

\* A request that goes on between its look-up and its commit is pending all along.
LEMMA GoToStutters ==
    ASSUME TypeOK, NEW q \in Requests, NEW stage, GoTo(q, stage),
           StageBar(stage) = StageBar(request[q].stage)
    PROVE  Task' = Task
<1>1. /\ request'[q] = [request[q] EXCEPT !.stage = stage]
      /\ \A r \in Requests : r # q => request'[r] = request[r]
  BY DEF GoTo, TypeOK
<1>2. Image(request'[q]) = Image(request[q])
  BY <1>1 DEF Image, TypeOK
<1> QED BY <1>1, <1>2 DEF Task

\* The task of a request, by its stage.
LEMMA TaskOf ==
    ASSUME TypeOK, NEW q \in Requests
    PROVE  /\ Task[q].stage = StageBar(request[q].stage)
           /\ Task[q].call = request[q].call
           /\ Task[q].absent = request[q].absent
BY DEF Task, Image, TypeOK

\* What the specification lets a pending call do, when it has replied.
LEMMA Applies ==
    ASSUME TypeOK, NEW q \in Requests, request[q].stage \in {"called", "inserting", "updating"},
           NEW answer, Reply(q, answer)
    PROVE  LET c == request[q].call
           IN /\ (/\ c.op = "register"
                  /\ db' = IF Found(db, c) THEN db ELSE Insert(db, c)
                  /\ answer \in {Says(IF Found(db, c) THEN "taken" ELSE "created"), Says("error")})
                 => Atomic!Apply(q)
              /\ (/\ c.op = "create"
                  /\ db' = IF Found(db, c) THEN db ELSE Insert(db, c)
                  /\ answer \in {SaysRow(db', c), Says("error")})
                 => Atomic!Apply(q)
              /\ (/\ c.op = "subscribe"
                  /\ c.location \in DOMAIN db.locations
                  /\ db' = SetActive(db, c, TRUE)
                  /\ answer = Says("error") \/ (db' = db /\ answer = Says("active")))
                 => Atomic!Apply(q)
              /\ (/\ c.op = "unsubscribe"
                  /\ Found(db, c)
                  /\ db' = SetActive(db, c, FALSE)
                  /\ answer \in {Says("removed"), Says("error")})
                 => Atomic!Apply(q)
              /\ (/\ \/ c.op = "subscribe" /\ c.location \notin DOMAIN db.locations
                     \/ c.op = "unsubscribe" /\ ~Found(db, c)
                  /\ db' = db
                  /\ answer = Says("missing"))
                 => Atomic!Apply(q)
              /\ (/\ request[q].absent
                  /\ Found(db, c)
                  /\ db' = db
                  /\ answer = Says("conflict"))
                 => Atomic!Apply(q)
<1> DEFINE c == request[q].call
           task == [r \in Requests |-> [request[r] EXCEPT !.stage = StageBar(@)]]
<1>1. task[q].stage = "pending" /\ task[q].call = c /\ task[q].absent = request[q].absent
  BY TaskOf DEF StageBar, Task, Image
<1>2. task' = [task EXCEPT ![q] = Atomic!Over(answer)]
  BY ReplyFinishes DEF Atomic!Finish
<1>3. ASSUME c.op = "register", db' = IF Found(db, c) THEN db ELSE Insert(db, c),
             answer \in {Says(IF Found(db, c) THEN "taken" ELSE "created"), Says("error")}
      PROVE  Atomic!Apply(q)
  <2>1. db' = IF Atomic!Found(db, c) THEN db ELSE Atomic!Insert(db, c)
    BY <1>3, SameTables
  <2>2. answer = Atomic!Says(IF Atomic!Found(db, c) THEN "taken" ELSE "created")
        \/ answer = Atomic!Says("error")
    BY <1>3, SameTables
  <2> QED BY <1>1, <1>2, <1>3, <2>1, <2>2 DEF Atomic!Apply, Atomic!Register, Atomic!Finish
<1>4. ASSUME c.op = "create", db' = IF Found(db, c) THEN db ELSE Insert(db, c),
             answer \in {SaysRow(db', c), Says("error")}
      PROVE  Atomic!Apply(q)
  <2>1. db' = IF Atomic!Found(db, c) THEN db ELSE Atomic!Insert(db, c)
    BY <1>4, SameTables
  <2>2. answer = Atomic!SaysRow(db', c) \/ answer = Atomic!Says("error")
    BY <1>4, SameTables
  <2> QED BY <1>1, <1>2, <1>4, <2>1, <2>2 DEF Atomic!Apply, Atomic!CreateOrGet, Atomic!Finish
<1>5. ASSUME c.op = "subscribe", c.location \in DOMAIN db.locations,
             db' = SetActive(db, c, TRUE),
             answer = Says("error") \/ (db' = db /\ answer = Says("active"))
      PROVE  Atomic!Apply(q)
  <2>1. db' = Atomic!SetActive(db, c, TRUE)
    BY <1>5, SameTables
  <2>2. answer = Atomic!Says("error") \/ (db' = db /\ answer = Atomic!Says("active"))
    BY <1>5, SameTables
  <2> QED BY <1>1, <1>2, <1>5, <2>1, <2>2 DEF Atomic!Apply, Atomic!Subscribe, Atomic!Finish
<1>6. ASSUME c.op = "unsubscribe", Found(db, c), db' = SetActive(db, c, FALSE),
             answer \in {Says("removed"), Says("error")}
      PROVE  Atomic!Apply(q)
  <2>1. db' = Atomic!SetActive(db, c, FALSE) /\ Atomic!Found(db, c)
    BY <1>6, SameTables
  <2>2. answer = Atomic!Says("removed") \/ answer = Atomic!Says("error")
    BY <1>6, SameTables
  <2> QED BY <1>1, <1>2, <1>6, <2>1, <2>2 DEF Atomic!Apply, Atomic!Unsubscribe, Atomic!Finish
<1>7. ASSUME \/ c.op = "subscribe" /\ c.location \notin DOMAIN db.locations
             \/ c.op = "unsubscribe" /\ ~Found(db, c),
             db' = db, answer = Says("missing")
      PROVE  Atomic!Apply(q)
  <2>1. answer = Atomic!Says("missing") /\ (Atomic!Found(db, c) <=> Found(db, c))
    BY <1>7, SameTables
  <2> QED BY <1>1, <1>2, <1>7, <2>1 DEF Atomic!Apply, Atomic!Missing, Atomic!Finish
<1>8. ASSUME request[q].absent, Found(db, c), db' = db, answer = Says("conflict")
      PROVE  Atomic!Apply(q)
  <2>1. answer = Atomic!Says("conflict") /\ Atomic!Found(db, c)
    BY <1>8, SameTables
  <2> QED BY <1>1, <1>2, <1>8, <2>1 DEF Atomic!Apply, Atomic!Conflict, Atomic!Finish
<1> QED BY <1>3, <1>4, <1>5, <1>6, <1>7, <1>8

\* What a commit that is not refused writes is the effect of the call.
LEMMA WrittenEffect ==
    ASSUME DirectoryInv, NEW q \in Requests, request[q].stage \in {"inserting", "updating"},
           ~Refused(q)
    PROVE  LET c == request[q].call
               u == Written(c, request[q].stage)
           IN /\ c.op \in {"register", "create", "subscribe", "unsubscribe"}
              /\ c.op \in {"register", "create"} => u = IF Found(db, c) THEN db ELSE Insert(db, c)
              /\ c.op = "subscribe" =>
                   c.location \in DOMAIN db.locations /\ u = SetActive(db, c, TRUE)
              /\ c.op = "unsubscribe" => Found(db, c) /\ u = SetActive(db, c, FALSE)
<1> DEFINE c == request[q].call
           u == Written(c, request[q].stage)
<1>1. AreTables(db) /\ RequestInv(q) /\ c \in Calls
  BY DEF DirectoryInv, TypeOK, RequestInv
<1>2. CASE request[q].stage = "inserting"
  <2>1. ~Found(db, c) /\ u = Insert(db, c)
    BY <1>2 DEF Refused, Written
  <2>2. c.op \in {"register", "create", "subscribe"}
        /\ (c.op = "subscribe" => c.location \in DOMAIN db.locations)
    BY <1>1, <1>2 DEF RequestInv
  <2>3. c.op = "subscribe" => Insert(db, c) = SetActive(db, c, TRUE)
    BY DEF Insert
  <2> QED BY <2>1, <2>2, <2>3
<1>3. CASE request[q].stage = "updating"
  <2>1. c.op \in {"subscribe", "unsubscribe"} /\ Key(c) \in DOMAIN db.subscriptions
    BY <1>1, <1>3 DEF RequestInv
  <2>2. c.location \in DOMAIN db.locations /\ Found(db, c)
    BY <1>1, <2>1 DEF AreTables, Key, Found
  <2>3. u = SetActive(db, c, c.op = "subscribe")
    BY <1>3 DEF Written
  <2>4. CASE c.op = "subscribe"
    <3>1. u = SetActive(db, c, TRUE)
      BY <2>3, <2>4
    <3> QED BY <2>2, <2>4, <3>1
  <2>5. CASE c.op = "unsubscribe"
    <3>1. u = SetActive(db, c, FALSE)
      BY <2>3, <2>5
    <3> QED BY <2>2, <2>5, <3>1
  <2> QED BY <2>1, <2>4, <2>5
<1> QED BY <1>2, <1>3

\* Every step of the routes is a step of the atomic specification, or none: a
\* look-up that decides against a write, and a commit, are where a call applies;
\* a look-up that is followed by a write is not visible.
LEMMA StepsAreAtomic == DirectoryInv /\ [Next]_vars => [Atomic!Next]_(Atomic!vars)
<1> SUFFICES ASSUME DirectoryInv, [Next]_vars
             PROVE  Atomic!Next \/ (db' = db /\ Task' = Task)
  BY DEF Atomic!vars, Task, Image
<1>0. TypeOK /\ AreTables(db) /\ \A q \in Requests : RequestInv(q)
  BY DEF DirectoryInv, TypeOK
<1>a. ASSUME NEW q \in Requests, Atomic!Apply(q) PROVE Atomic!Next
  BY <1>a DEF Atomic!Next
<1>1. ASSUME NEW q \in Requests, NEW c \in Calls, Call(q, c) PROVE Atomic!Next
  <2> DEFINE absent == ~Found(db, c)
             new == [stage |-> "called", call |-> c, answer |-> Says("none"), absent |-> absent]
             task == [r \in Requests |-> [request[r] EXCEPT !.stage = StageBar(@)]]
             call == [stage |-> "pending", call |-> c, answer |-> Says("none"), absent |-> absent]
  <2>1. request' = [request EXCEPT ![q] = new] /\ request[q].stage = "done" /\ db' = db
    BY <1>1 DEF Call
  <2>2. ASSUME NEW answer, NEW b
        PROVE  Image([stage |-> "called", call |-> c, answer |-> answer, absent |-> b])
               = [stage |-> "pending", call |-> c, answer |-> answer, absent |-> b]
    BY DEF Image, StageBar
  <2> HIDE DEF absent
  <2>3. Image(new) = call
    BY <2>2
  <2> HIDE DEF new, call
  <2>4. Task' = [Task EXCEPT ![q] = call]
    <3>1. request'[q] = new /\ \A r \in Requests : r # q => request'[r] = request[r]
      BY <1>0, <2>1 DEF TypeOK
    <3> QED BY <2>3, <3>1 DEF Task
  <2>5. Task[q].stage = "done"
    BY <1>0, <2>1, TaskOf DEF StageBar
  <2>6. call = [stage |-> "pending", call |-> c, answer |-> Atomic!Says("none"),
                absent |-> ~Atomic!Found(db, c)]
    BY SameTables, Zenon DEF call, absent
  <2>7. task' = [task EXCEPT ![q] = [stage |-> "pending", call |-> c,
                                     answer |-> Atomic!Says("none"),
                                     absent |-> ~Atomic!Found(db, c)]]
    BY <2>4, <2>6, Zenon DEF Task, Image
  <2>8. Atomic!Call(q, c)
    BY <2>1, <2>5, <2>7 DEF Atomic!Call, Task, Image
  <2> QED BY <2>8, SameTables DEF Atomic!Next
<1>2. ASSUME NEW q \in Requests, Select(q)
      PROVE  Atomic!Next \/ (db' = db /\ Task' = Task)
  <2> DEFINE c == request[q].call
  <2>1. request[q].stage = "called" /\ c \in Calls /\ db' = db
    BY <1>0, <1>2 DEF RequestInv, Select, SelectAccount, SelectLocation, SelectToSubscribe,
                      SelectToUnsubscribe, At
  <2>2. ASSUME NEW stage \in {"inserting", "updating"}, GoTo(q, stage) PROVE Task' = Task
    BY <1>0, <2>1, <2>2, GoToStutters DEF StageBar
  <2>3. CASE SelectAccount(q)
    <3>1. CASE Found(db, c)
      <4>1. Reply(q, Says("taken")) /\ c.op = "register"
        BY <2>3, <3>1 DEF SelectAccount, At
      <4> QED BY <1>0, <1>a, <2>1, <3>1, <4>1, Applies
    <3>2. CASE ~Found(db, c)
      BY <2>1, <2>2, <2>3, <3>2 DEF SelectAccount
    <3> QED BY <3>1, <3>2
  <2>4. CASE SelectLocation(q)
    <3>1. CASE Found(db, c)
      <4>1. Reply(q, SaysRow(db, c)) /\ c.op = "create"
        BY <2>4, <3>1 DEF SelectLocation, At
      <4> QED BY <1>0, <1>a, <2>1, <3>1, <4>1, Applies
    <3>2. CASE ~Found(db, c)
      BY <2>1, <2>2, <2>4, <3>2 DEF SelectLocation
    <3> QED BY <3>1, <3>2
  <2>5. CASE SelectToSubscribe(q)
    <3>0. c.op = "subscribe"
      BY <2>5 DEF SelectToSubscribe, At
    <3>1. CASE c.location \notin DOMAIN db.locations /\ Reply(q, Says("missing"))
      BY <1>0, <1>a, <2>1, <3>0, <3>1, Applies
    <3>2. CASE Found(db, c) /\ db.subscriptions[Key(c)] /\ Reply(q, Says("active"))
      <4>1. Key(c) \in DOMAIN db.subscriptions
        BY <3>0, <3>2 DEF Found
      <4>2. c.location \in DOMAIN db.locations
        BY <1>0, <4>1 DEF AreTables, Key
      <4>3. SetActive(db, c, TRUE) = db
        BY <1>0, <3>2, <4>1, SetActiveIdle DEF AreTables
      <4> QED BY <1>0, <1>a, <2>1, <3>0, <3>2, <4>2, <4>3, Applies
    <3>3. CASE GoTo(q, "inserting") \/ GoTo(q, "updating")
      BY <2>1, <2>2, <3>3
    <3> QED BY <2>5, <3>1, <3>2, <3>3 DEF SelectToSubscribe
  <2>6. CASE SelectToUnsubscribe(q)
    <3>0. c.op = "unsubscribe"
      BY <2>6 DEF SelectToUnsubscribe, At
    <3>1. CASE ~Found(db, c) /\ Reply(q, Says("missing"))
      BY <1>0, <1>a, <2>1, <3>0, <3>1, Applies
    <3>2. CASE Found(db, c) /\ ~db.subscriptions[Key(c)] /\ Reply(q, Says("removed"))
      <4>1. Key(c) \in DOMAIN db.subscriptions
        BY <3>0, <3>2 DEF Found
      <4>2. SetActive(db, c, FALSE) = db
        BY <1>0, <3>2, <4>1, SetActiveIdle DEF AreTables
      <4> QED BY <1>0, <1>a, <2>1, <3>0, <3>2, <4>2, Applies
    <3>3. CASE GoTo(q, "updating")
      BY <2>1, <2>2, <3>3
    <3> QED BY <2>6, <3>1, <3>2, <3>3 DEF SelectToUnsubscribe
  <2> QED BY <1>2, <2>3, <2>4, <2>5, <2>6 DEF Select
<1>3. ASSUME NEW q \in Requests, Commit(q) PROVE Atomic!Next
  <2> DEFINE c == request[q].call
             task == [r \in Requests |-> [request[r] EXCEPT !.stage = StageBar(@)]]
  <2>1. request[q].stage \in {"inserting", "updating"} /\ ~Refused(q)
        /\ db' = Written(c, request[q].stage)
    BY <1>3 DEF Commit
  <2>2. /\ c.op \in {"register", "create", "subscribe", "unsubscribe"}
        /\ c.op \in {"register", "create"} => db' = IF Found(db, c) THEN db ELSE Insert(db, c)
        /\ c.op = "subscribe" =>
             c.location \in DOMAIN db.locations /\ db' = SetActive(db, c, TRUE)
        /\ c.op = "unsubscribe" => Found(db, c) /\ db' = SetActive(db, c, FALSE)
    BY <2>1, WrittenEffect
  <2>3. CASE c.op = "register"
    <3>1. Reply(q, Says("created"))
      BY <1>3, <2>3 DEF Commit
    <3>2. ~Found(db, c)
      BY <1>0, <2>1, <2>3 DEF RequestInv, Refused
    <3>3. "created" = IF Found(db, c) THEN "taken" ELSE "created"
      BY <3>2
    <3> QED BY <1>0, <1>a, <2>1, <2>2, <2>3, <3>1, <3>3, Applies
  <2>4. CASE c.op = "create"
    <3>1. Reply(q, SaysRow(db', c))
      BY <1>3, <2>4 DEF Commit
    <3> QED BY <1>0, <1>a, <2>1, <2>2, <2>4, <3>1, Applies
  <2>5. CASE c.op = "subscribe"
    <3>1. GoTo(q, "refreshing")
      BY <1>3, <2>5 DEF Commit
    <3>2. task[q].stage = "pending" /\ task[q].call = c
      BY <1>0, <2>1, TaskOf DEF StageBar, Task, Image
    <3>3. request'[q] = [request[q] EXCEPT !.stage = "refreshing"]
          /\ \A r \in Requests : r # q => request'[r] = request[r]
      BY <1>0, <3>1 DEF GoTo, TypeOK
    <3>4. Image(request'[q]) = [Image(request[q]) EXCEPT !.stage = "applied"]
      BY <1>0, <3>3 DEF Image, StageBar, TypeOK
    <3>5. Task' = [Task EXCEPT ![q].stage = "applied"]
      BY <3>3, <3>4 DEF Task
    <3>6. task' = [task EXCEPT ![q].stage = "applied"]
      BY <3>5 DEF Task, Image
    <3>7. c.location \in DOMAIN db.locations /\ db' = Atomic!SetActive(db, c, TRUE)
      BY <2>2, <2>5, SameTables
    <3>8. Atomic!Apply(q)
      BY <2>5, <3>2, <3>6, <3>7 DEF Atomic!Apply, Atomic!Subscribe
    <3> QED BY <1>a, <3>8
  <2>6. CASE c.op = "unsubscribe"
    <3>1. Reply(q, Says("removed"))
      BY <1>3, <2>6 DEF Commit
    <3> QED BY <1>0, <1>a, <2>1, <2>2, <2>6, <3>1, Applies
  <2> QED BY <2>2, <2>3, <2>4, <2>5, <2>6
<1>4. ASSUME NEW q \in Requests, CommitRefused(q) PROVE Atomic!Next
  <2>1. request[q].stage = "inserting" /\ Found(db, request[q].call) /\ db' = db
        /\ Reply(q, Says("conflict"))
    BY <1>4 DEF CommitRefused, Refused
  <2>2. request[q].absent
    BY <1>0, <2>1 DEF RequestInv
  <2> QED BY <1>0, <1>a, <2>1, <2>2, Applies
<1>5. ASSUME NEW q \in Requests, Refresh(q) PROVE Atomic!Next
  <2> DEFINE task == [r \in Requests |-> [request[r] EXCEPT !.stage = StageBar(@)]]
  <2>1. task[q].stage = "applied" /\ task[q].call = request[q].call
    BY <1>0, <1>5, TaskOf DEF Refresh, StageBar, Task, Image
  <2>2. task' = [task EXCEPT ![q] = Atomic!Over(Atomic!SaysStatus(db, request[q].call))]
    BY <1>0, <1>5, ReplyFinishes, SameTables DEF Refresh, Atomic!Finish
  <2>3. Atomic!Reread(q)
    BY <1>5, <2>1, <2>2 DEF Refresh, Atomic!Reread, Atomic!Finish
  <2> QED BY <2>3 DEF Atomic!Next
<1>6. ASSUME NEW q \in Requests, Fails(q) PROVE Atomic!Next
  <2> DEFINE c == request[q].call
             task == [r \in Requests |-> [request[r] EXCEPT !.stage = StageBar(@)]]
  <2>1. request[q].stage # "done" /\ Reply(q, Says("error"))
    BY <1>6 DEF Fails
  <2>2. CASE db' = db
    <3>1. task[q].stage # "done"
      BY <1>0, <2>1, TaskOf DEF StageBar, Task, Image, TypeOK, Stages
    <3>2. task' = [task EXCEPT ![q] = Atomic!Over(Atomic!Says("error"))]
      BY <1>0, <2>1, ReplyFinishes, SameTables DEF Atomic!Finish
    <3>3. Atomic!Fail(q)
      BY <2>2, <3>1, <3>2 DEF Atomic!Fail, Atomic!Finish
    <3> QED BY <3>3 DEF Atomic!Next
  <2>3. CASE request[q].stage \in {"inserting", "updating"} /\ ~Refused(q)
             /\ db' = Written(c, request[q].stage)
    <3>1. /\ c.op \in {"register", "create", "subscribe", "unsubscribe"}
          /\ c.op \in {"register", "create"} => db' = IF Found(db, c) THEN db ELSE Insert(db, c)
          /\ c.op = "subscribe" =>
               c.location \in DOMAIN db.locations /\ db' = SetActive(db, c, TRUE)
          /\ c.op = "unsubscribe" => Found(db, c) /\ db' = SetActive(db, c, FALSE)
      BY <2>3, WrittenEffect
    <3> QED BY <1>0, <1>a, <2>1, <2>3, <3>1, Applies
  <2> QED BY <1>6, <2>2, <2>3 DEF Fails
<1>7. CASE UNCHANGED vars
  BY <1>7 DEF vars, Task
<1> QED BY <1>1, <1>2, <1>3, <1>4, <1>5, <1>6, <1>7 DEF Next

\* For any number of requests at the same time the routes do what their atomic
\* specification does: no row is stored twice, no effect is lost, every answer is
\* true of one instant of its request.
THEOREM DirectoryImplementsAtomic == Spec => RoutesAreAtomic
<1>1. Init => Atomic!Init
  <2> SUFFICES ASSUME Init PROVE Atomic!Init
    OBVIOUS
  <2> DEFINE task == [r \in Requests |-> [request[r] EXCEPT !.stage = StageBar(@)]]
  <2>1. Task = [r \in Requests |-> Over(Says("none"))]
    BY OverImage DEF Init, Task
  <2>2. task = [r \in Requests |-> Atomic!Over(Atomic!Says("none"))]
    BY <2>1, SameTables DEF Task, Image
  <2>3. db = Atomic!Empty
    BY SameTables DEF Init
  <2> QED BY <2>2, <2>3 DEF Atomic!Init
<1> QED BY <1>1, InvInit, InvNext, StepsAreAtomic, PTL DEF Spec, RoutesAreAtomic, Atomic!Spec

=============================================================================
