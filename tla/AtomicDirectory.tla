-------------------------- MODULE AtomicDirectory --------------------------
(***************************************************************************)
(* What the routes promise to clients that call them at the same time:     *)
(* each call takes effect in one instant between the request and the       *)
(* answer, as if it were alone.  An insertion that another call has made   *)
(* first while this one was under way may be refused ("conflict"), and     *)
(* any call may fail with the database ("error", with or without effect).  *)
(***************************************************************************)
EXTENDS DirectoryTables

CONSTANT Requests

VARIABLES
    db,     \* the tables
    task    \* request -> [stage, call, answer, absent]

vars == <<db, task>>

Init ==
    /\ db = Empty
    /\ task = [q \in Requests |-> Over(Says("none"))]

\* absent records whether the row was missing when the request arrived.
Call(q, c) ==
    /\ task[q].stage = "done"
    /\ task' = [task EXCEPT ![q] = [stage |-> "pending", call |-> c, answer |-> Says("none"),
                                    absent |-> ~Found(db, c)]]
    /\ UNCHANGED db

Finish(q, answer) == task' = [task EXCEPT ![q] = Over(answer)]

\* Taken alone, a call registers a free name, finds or creates a location ...
Register(q, c) ==
    /\ c.op = "register"
    /\ db' = IF Found(db, c) THEN db ELSE Insert(db, c)
    /\ Finish(q, Says(IF Found(db, c) THEN "taken" ELSE "created")) \/ Finish(q, Says("error"))

CreateOrGet(q, c) ==
    /\ c.op = "create"
    /\ db' = IF Found(db, c) THEN db ELSE Insert(db, c)
    /\ Finish(q, SaysRow(db', c)) \/ Finish(q, Says("error"))

\* ... and switches a subscription on or off.  After an effect the row is read
\* once more before the answer.
Subscribe(q, c) ==
    /\ c.op = "subscribe"
    /\ c.location \in DOMAIN db.locations
    /\ db' = SetActive(db, c, TRUE)
    /\ \/ task' = [task EXCEPT ![q].stage = "applied"]
       \/ db' = db /\ Finish(q, Says("active"))
       \/ Finish(q, Says("error"))

Unsubscribe(q, c) ==
    /\ c.op = "unsubscribe"
    /\ Found(db, c)
    /\ db' = SetActive(db, c, FALSE)
    /\ Finish(q, Says("removed")) \/ Finish(q, Says("error"))

Missing(q, c) ==
    /\ \/ c.op = "subscribe" /\ c.location \notin DOMAIN db.locations
       \/ c.op = "unsubscribe" /\ ~Found(db, c)
    /\ Finish(q, Says("missing"))
    /\ UNCHANGED db

Conflict(q, c) ==
    /\ task[q].absent /\ Found(db, c)
    /\ Finish(q, Says("conflict"))
    /\ UNCHANGED db

Apply(q) ==
    LET c == task[q].call
    IN /\ task[q].stage = "pending"
       /\ Register(q, c) \/ CreateOrGet(q, c) \/ Subscribe(q, c) \/ Unsubscribe(q, c)
            \/ Missing(q, c) \/ Conflict(q, c)

Reread(q) ==
    /\ task[q].stage = "applied"
    /\ Finish(q, SaysStatus(db, task[q].call))
    /\ UNCHANGED db

Fail(q) ==
    /\ task[q].stage # "done"
    /\ Finish(q, Says("error"))
    /\ UNCHANGED db

Next == \E q \in Requests :
    (\E c \in Calls : Call(q, c)) \/ Apply(q) \/ Reread(q) \/ Fail(q)

Spec == Init /\ [][Next]_vars
=============================================================================
