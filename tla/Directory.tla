----------------------------- MODULE Directory -----------------------------
(***************************************************************************)
(* POST /auth/register, POST /locations and the subscriptions routes: they *)
(* all look a row up, decide, and write in a later statement, in READ      *)
(* COMMITTED transactions of their own (auth.py, locations.py,             *)
(* subscriptions.py).  Any number of replicas may run them, so requests    *)
(* interleave at every await on the database.                              *)
(*                                                                         *)
(* An INSERT takes effect with its commit, or is refused by the unique     *)
(* constraint when another transaction has committed the row first.  The   *)
(* ORM writes an attribute only when it differs from the value read.       *)
(*                                                                         *)
(* A row of users or locations never changes, so reading it back after the *)
(* commit is not a step; nor is a read that ends in no decision.           *)
(***************************************************************************)
EXTENDS DirectoryTables

CONSTANT Requests

VARIABLES
    db,         \* the tables
    request     \* request -> [stage, call, answer, absent]; absent is history

vars == <<db, request>>

Stages == {"done", "called", "inserting", "updating", "refreshing"}

TypeOK ==
    /\ AreTables(db)
    /\ request \in [Requests -> [stage : Stages, call : Calls \cup {NoCall}, absent : BOOLEAN,
                                 answer : [outcome : Outcomes, id : Nat]]]

Init ==
    /\ db = Empty
    /\ request = [q \in Requests |-> Over(Says("none"))]

Call(q, c) ==
    /\ request[q].stage = "done"
    /\ request' = [request EXCEPT ![q] = [stage |-> "called", call |-> c, answer |-> Says("none"),
                                          absent |-> ~Found(db, c)]]
    /\ UNCHANGED db

At(q, stage, op) == request[q].stage = stage /\ request[q].call.op = op

GoTo(q, stage) == request' = [request EXCEPT ![q].stage = stage]

Reply(q, answer) == request' = [request EXCEPT ![q] = Over(answer)]

-----------------------------------------------------------------------------
(* The SELECT that each route begins with, and what follows from it.       *)

\* register(): by name or email; 409 if there is one.
SelectAccount(q) ==
    /\ At(q, "called", "register")
    /\ IF Found(db, request[q].call) THEN Reply(q, Says("taken")) ELSE GoTo(q, "inserting")
    /\ UNCHANGED db

\* create_or_get_location(): by the rounded coordinates.
SelectLocation(q) ==
    LET c == request[q].call
    IN /\ At(q, "called", "create")
       /\ IF Found(db, c) THEN Reply(q, SaysRow(db, c)) ELSE GoTo(q, "inserting")
       /\ UNCHANGED db

\* Variant: the location is not looked up.
SelectToSubscribeBlindly(q) ==
    LET c == request[q].call
    IN /\ At(q, "called", "subscribe")
       /\ \/ ~Found(db, c) /\ GoTo(q, "inserting")
          \/ Found(db, c) /\ db.subscriptions[Key(c)] /\ Reply(q, Says("active"))
          \/ Found(db, c) /\ ~db.subscriptions[Key(c)] /\ GoTo(q, "updating")
       /\ UNCHANGED db

\* subscribe(): the location must exist; then by user and location.  (Locations
\* are never deleted: both reads are taken together.)
SelectToSubscribe(q) ==
    LET c == request[q].call
    IN /\ At(q, "called", "subscribe")
       /\ \/ c.location \notin DOMAIN db.locations /\ Reply(q, Says("missing"))
          \/ c.location \in DOMAIN db.locations /\ ~Found(db, c) /\ GoTo(q, "inserting")
          \/ Found(db, c) /\ db.subscriptions[Key(c)] /\ Reply(q, Says("active"))
          \/ Found(db, c) /\ ~db.subscriptions[Key(c)] /\ GoTo(q, "updating")
       /\ UNCHANGED db

\* unsubscribe(): a row that is inactive already is not written.
SelectToUnsubscribe(q) ==
    LET c == request[q].call
    IN /\ At(q, "called", "unsubscribe")
       /\ \/ ~Found(db, c) /\ Reply(q, Says("missing"))
          \/ Found(db, c) /\ db.subscriptions[Key(c)] /\ GoTo(q, "updating")
          \/ Found(db, c) /\ ~db.subscriptions[Key(c)] /\ Reply(q, Says("removed"))
       /\ UNCHANGED db

-----------------------------------------------------------------------------
(* The commit, and the refresh after it.                                   *)

\* The statement of the commit, on the tables as they are by then.
Written(c, stage) ==
    IF stage = "inserting" THEN Insert(db, c) ELSE SetActive(db, c, c.op = "subscribe")

\* Variant: only the name of an account is unique, the coordinates are not.
RefusedByName(q) ==
    LET c == request[q].call
    IN request[q].stage = "inserting" /\ c.op # "create" /\ Found(db, c)

\* The unique constraint refuses the row.
Refused(q) == request[q].stage = "inserting" /\ Found(db, request[q].call)

\* IntegrityError, which no route catches: 500.
CommitRefused(q) ==
    /\ Refused(q)
    /\ Reply(q, Says("conflict"))
    /\ UNCHANGED db

Commit(q) ==
    LET c == request[q].call
    IN /\ request[q].stage \in {"inserting", "updating"}
       /\ ~Refused(q)
       /\ db' = Written(c, request[q].stage)
       /\ CASE c.op = "register"    -> Reply(q, Says("created"))
            [] c.op = "create"      -> Reply(q, SaysRow(db', c))
            [] c.op = "subscribe"   -> GoTo(q, "refreshing")
            [] c.op = "unsubscribe" -> Reply(q, Says("removed"))

\* refresh() after a write; the reload that follows keeps the values it has read.
Refresh(q) ==
    /\ request[q].stage = "refreshing"
    /\ Reply(q, SaysStatus(db, request[q].call))
    /\ UNCHANGED db

\* The connection to the database breaks at any await; a commit that was under
\* way may have taken effect.
Fails(q) ==
    /\ request[q].stage # "done"
    /\ Reply(q, Says("error"))
    /\ \/ UNCHANGED db
       \/ /\ request[q].stage \in {"inserting", "updating"} /\ ~Refused(q)
          /\ db' = Written(request[q].call, request[q].stage)

Select(q) ==
    SelectAccount(q) \/ SelectLocation(q) \/ SelectToSubscribe(q) \/ SelectToUnsubscribe(q)

Next == \E q \in Requests :
    (\E c \in Calls : Call(q, c)) \/ Select(q) \/ Commit(q) \/ CommitRefused(q) \/ Refresh(q) \/ Fails(q)

Spec == Init /\ [][Next]_vars

-----------------------------------------------------------------------------
(* The routes implement their atomic specification: a request is pending    *)
(* until its SELECT has decided against a write or its commit has returned. *)

StageBar(stage) ==
    IF stage \in {"called", "inserting", "updating"} THEN "pending"
    ELSE IF stage = "refreshing" THEN "applied" ELSE "done"

Atomic == INSTANCE AtomicDirectory
    WITH task <- [q \in Requests |-> [request[q] EXCEPT !.stage = StageBar(@)]]

\* Whatever two requests do between the look-up and the write of another, no row
\* is stored twice, no subscribe or unsubscribe is lost, every answer is true of
\* one instant of its request, and only the loser of a race is refused.
RoutesAreAtomic == Atomic!Spec

=============================================================================
