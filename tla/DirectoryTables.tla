-------------------------- MODULE DirectoryTables --------------------------
(***************************************************************************)
(* The tables behind POST /auth/register, POST /locations and the          *)
(* subscriptions routes, with the unique constraints of the schema         *)
(* (alembic/versions/0001_initial.py):                                     *)
(*   accounts      : set of [name, email], each of the two unique          *)
(*   locations     : cell of each row, in order of insertion; a row's id   *)
(*                   is its index, and no cell occurs twice                *)
(*   subscriptions : <<user, location id>> -> is_active                    *)
(* A call is the decoded request: the route and what it is about.          *)
(***************************************************************************)
EXTENDS Integers, Sequences

CONSTANTS
    Users, Names, Emails,
    Points,         \* coordinates that are asked for, in thousandths of a degree
    MaxLocations    \* bound on the location ids that are asked for

ASSUME DirectoryAssumption == Points \subseteq Int /\ MaxLocations \in Nat

\* _round_coord(): to hundredths.  (One coordinate stands for the pair.  How a tie
\* is rounded depends on the float and no instance contains one.)
CellOf(point) == (point + 5) \div 10

Calls == [op : {"register"}, name : Names, email : Emails]
    \cup [op : {"create"}, point : Points]
    \cup [op : {"subscribe", "unsubscribe"}, user : Users, location : 1..MaxLocations]

NoCall == [op |-> "none"]

Empty == [accounts |-> {}, locations |-> <<>>, subscriptions |-> [k \in {} |-> FALSE]]

Key(c) == <<c.user, c.location>>

\* The row that the route's SELECT looks for, which is also the one that a unique
\* constraint would reject an INSERT for.
Found(db, c) ==
    \/ c.op = "register" /\ \E a \in db.accounts : a.name = c.name \/ a.email = c.email
    \/ c.op = "create" /\ \E id \in DOMAIN db.locations : db.locations[id] = CellOf(c.point)
    \/ c.op \in {"subscribe", "unsubscribe"} /\ Key(c) \in DOMAIN db.subscriptions

RowOf(db, point) == CHOOSE id \in DOMAIN db.locations : db.locations[id] = CellOf(point)

\* The row of a subscription is written; any other one is left as it is.
SetActive(db, c, active) ==
    [db EXCEPT !.subscriptions = [k \in DOMAIN @ \cup {Key(c)} |->
                                    IF k = Key(c) THEN active ELSE @[k]]]

Insert(db, c) ==
    CASE c.op = "register"  -> [db EXCEPT !.accounts = @ \cup {[name |-> c.name, email |-> c.email]}]
      [] c.op = "create"    -> [db EXCEPT !.locations = Append(@, CellOf(c.point))]
      [] c.op = "subscribe" -> SetActive(db, c, TRUE)

-----------------------------------------------------------------------------
(* What a client is told: the outcome, and the id of a location row.       *)

Outcomes == {"none", "created", "taken", "row", "active", "inactive", "removed",
             "missing", "conflict", "error"}

Says(outcome) == [outcome |-> outcome, id |-> 0]

\* A request that is over, with what it answered.
Over(answer) == [stage |-> "done", call |-> NoCall, answer |-> answer, absent |-> FALSE]

SaysRow(db, c) == [outcome |-> "row", id |-> RowOf(db, c.point)]

SaysStatus(db, c) == Says(IF db.subscriptions[Key(c)] THEN "active" ELSE "inactive")

Cells == {CellOf(p) : p \in Points}

AreTables(db) ==
    /\ db \in [accounts : SUBSET [name : Names, email : Emails], locations : Seq(Cells),
               subscriptions : [DOMAIN db.subscriptions -> BOOLEAN]]
    /\ DOMAIN db.subscriptions \subseteq Users \X DOMAIN db.locations
=============================================================================
