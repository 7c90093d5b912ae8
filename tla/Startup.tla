------------------------------- MODULE Startup -------------------------------
(***************************************************************************)
(* How the containers start (docker-compose.yml, docker/entrypoint-*.sh):  *)
(* each API replica waits for Postgres and migrates the schema before it   *)
(* serves; the poller waits for one table, alerts, to be visible.          *)
(*                                                                         *)
(* `alembic upgrade head` runs the one migration there is in a single      *)
(* transaction (alembic/env.py; DDL is transactional in Postgres): its     *)
(* tables become visible at the commit, and a transaction that wants to    *)
(* create a table that an open one has created waits for that one to end.  *)
(***************************************************************************)
EXTENDS Naturals, Sequences

CONSTANTS
    Apis,           \* the API replicas
    poller,
    MaxFailures     \* bound on services that go down and containers that are killed

ASSUME StartupAssumption == poller \notin Apis /\ MaxFailures \in Nat

VARIABLES
    up,         \* the services that are up
    schema,     \* the committed tables
    version,    \* whether alembic_version holds the head revision
    stage,      \* container -> where its entrypoint is
    built,      \* replica -> tables its open transaction has created
    failures    \* number of failures so far

vars == <<up, schema, version, stage, built, failures>>

Containers == Apis \cup {poller}

Services == {"postgres", "redis"}

\* upgrade(): the tables in the order it creates them, and those each refers to.
Tables == <<"users", "refresh_tokens", "locations", "subscriptions", "weather_readings", "alerts">>

References == [users |-> {}, refresh_tokens |-> {"users"}, locations |-> {},
               subscriptions |-> {"users", "locations"}, weather_readings |-> {"locations"},
               alerts |-> {"locations", "weather_readings"}]

TablesUpTo(n) == {Tables[i] : i \in 1..n}

AllTables == TablesUpTo(Len(Tables))

TypeOK ==
    /\ up \subseteq Services
    /\ schema \subseteq AllTables
    /\ version \in BOOLEAN
    /\ stage \in [Containers -> {"created", "exited", "waiting", "upgrading", "creating",
                                 "booting", "watching", "running"}]
    /\ built \in [Apis -> 0..Len(Tables)]
    /\ failures \in 0..MaxFailures
    /\ \A a \in Apis : built[a] > 0 => stage[a] = "creating"

Init ==
    /\ up = Services
    /\ schema = {} /\ version = FALSE
    /\ stage = [c \in Containers |-> "created"]
    /\ built = [a \in Apis |-> 0]
    /\ failures = 0

GoTo(c, st) == stage' = [stage EXCEPT ![c] = st]

-----------------------------------------------------------------------------
(* docker compose                                                          *)

\* depends_on: the services are healthy, and for the poller the API has started.
Start(c) ==
    /\ stage[c] = "created"
    /\ up = Services
    /\ c = poller => \A a \in Apis : stage[a] # "created"
    /\ GoTo(c, "waiting")
    /\ UNCHANGED <<up, schema, version, built, failures>>

\* restart: unless-stopped waits for nothing.
Restart(c) ==
    /\ stage[c] = "exited"
    /\ GoTo(c, "waiting")
    /\ UNCHANGED <<up, schema, version, built, failures>>

\* Variant: the transaction of a container that is gone stays open.
ExitHoldingTransaction(C) ==
    /\ stage' = [c \in Containers |-> IF c \in C THEN "exited" ELSE stage[c]]
    /\ UNCHANGED built

\* Containers end; Postgres rolls back the transactions they had open.
Exit(C) ==
    /\ stage' = [c \in Containers |-> IF c \in C THEN "exited" ELSE stage[c]]
    /\ built' = [a \in Apis |-> IF a \in C THEN 0 ELSE built[a]]

Migrated == schema' = schema \cup AllTables /\ version' = TRUE

\* Of the containers that lose their connection, one may have been waiting for its
\* commit, which takes effect or does not.
CommitUncertain(C) ==
    \/ UNCHANGED <<schema, version>>
    \/ (\E a \in C \cap Apis : built[a] = Len(Tables)) /\ Migrated

Kill(c) ==
    /\ failures < MaxFailures /\ failures' = failures + 1
    /\ stage[c] \notin {"created", "exited"}
    /\ CommitUncertain({c})
    /\ Exit({c})
    /\ UNCHANGED up

\* With Postgres every migration ends that is under way: alembic raises, set -e.
GoDown(s) ==
    LET broken == IF s = "postgres" THEN {a \in Apis : stage[a] = "creating"} ELSE {}
    IN /\ failures < MaxFailures /\ failures' = failures + 1
       /\ s \in up
       /\ up' = up \ {s}
       /\ CommitUncertain(broken)
       /\ Exit(broken)

ComeUp(s) ==
    /\ s \notin up
    /\ up' = up \cup {s}
    /\ UNCHANGED <<schema, version, stage, built, failures>>

-----------------------------------------------------------------------------
(* entrypoint-api.sh                                                       *)

\* until asyncpg.connect() succeeds; the poller's entrypoint does the same.
PostgresAnswers(c) ==
    /\ stage[c] = "waiting"
    /\ "postgres" \in up
    /\ GoTo(c, IF c = poller THEN "watching" ELSE "upgrading")
    /\ UNCHANGED <<up, schema, version, built, failures>>

\* alembic reads the version: there is nothing to do, or the migration to run.
ReadVersion(a) ==
    /\ stage[a] = "upgrading"
    /\ "postgres" \in up
    /\ GoTo(a, IF version THEN "booting" ELSE "creating")
    /\ UNCHANGED <<up, schema, version, built, failures>>

NextTable(a) == Tables[built[a] + 1]

\* No other replica has committed it, and the tables it refers to are there.
Creatable(a) ==
    /\ NextTable(a) \notin schema
    /\ References[NextTable(a)] \subseteq schema \cup TablesUpTo(built[a])

\* Variant: every table is committed by itself.
CreateTableCommitted(a) ==
    /\ stage[a] = "creating" /\ built[a] < Len(Tables)
    /\ Creatable(a)
    /\ built' = [built EXCEPT ![a] = @ + 1]
    /\ schema' = schema \cup {NextTable(a)}
    /\ UNCHANGED <<up, version, stage, failures>>

\* op.create_table(), once no open transaction of another replica has created it.
CreateTable(a) ==
    /\ stage[a] = "creating" /\ built[a] < Len(Tables)
    /\ \A b \in Apis \ {a} : NextTable(a) \notin TablesUpTo(built[b])
    /\ Creatable(a)
    /\ built' = [built EXCEPT ![a] = @ + 1]
    /\ UNCHANGED <<up, schema, version, stage, failures>>

CreateTableRaises(a) ==
    /\ stage[a] = "creating" /\ built[a] < Len(Tables)
    /\ ~Creatable(a)
    /\ Exit({a})
    /\ UNCHANGED <<up, schema, version, failures>>

CommitUpgrade(a) ==
    /\ stage[a] = "creating" /\ built[a] = Len(Tables)
    /\ Migrated
    /\ GoTo(a, "booting") /\ built' = [built EXCEPT ![a] = 0]
    /\ UNCHANGED <<up, failures>>

\* set -e: alembic does not reach Postgres.
UpgradeRaises(a) ==
    /\ stage[a] = "upgrading"
    /\ "postgres" \notin up
    /\ Exit({a})
    /\ UNCHANGED <<up, schema, version, failures>>

\* exec uvicorn: lifespan() subscribes at Redis, or raises and the server ends.
Boot(a) ==
    /\ stage[a] = "booting"
    /\ IF "redis" \in up THEN GoTo(a, "running") /\ UNCHANGED built ELSE Exit({a})
    /\ UNCHANGED <<up, schema, version, failures>>

-----------------------------------------------------------------------------
(* entrypoint-poller.sh                                                    *)

\* Variant: the poller starts as soon as Postgres answers.
StartPollerAtOnce ==
    /\ stage[poller] = "watching"
    /\ GoTo(poller, "running")
    /\ UNCHANGED <<up, schema, version, built, failures>>

\* until to_regclass('public.alerts') finds the table; then the poller runs.
SchemaAppears ==
    /\ stage[poller] = "watching"
    /\ "postgres" \in up
    /\ "alerts" \in schema
    /\ GoTo(poller, "running")
    /\ UNCHANGED <<up, schema, version, built, failures>>

-----------------------------------------------------------------------------

Entrypoint(c) ==
    \/ Start(c) \/ Restart(c) \/ PostgresAnswers(c)
    \/ /\ c \in Apis
       /\ \/ ReadVersion(c) \/ CreateTable(c) \/ CreateTableRaises(c)
          \/ CommitUpgrade(c) \/ UpgradeRaises(c) \/ Boot(c)
    \/ c = poller /\ SchemaAppears

Next ==
    \/ \E c \in Containers : Entrypoint(c) \/ Kill(c)
    \/ \E s \in Services : GoDown(s) \/ ComeUp(s)

Spec == Init /\ [][Next]_vars

\* The containers run, and services that go down come up again.
FairSpec ==
    /\ Spec
    /\ \A c \in Containers : WF_vars(Entrypoint(c))
    /\ \A s \in Services : WF_vars(ComeUp(s))

-----------------------------------------------------------------------------

\* Whichever replica migrates, and whatever is killed or goes down meanwhile, the
\* schema is never left half made: the migration could not be run again, and the
\* poller takes the one table it looks for as a sign of all of them.
AllTablesOrNone == schema = IF version THEN AllTables ELSE {}

\* No API replica and no poller runs on a database without the whole schema.
RunsOnWholeSchema == (\E c \in Containers : stage[c] = "running") => schema = AllTables

\* Under FairSpec everything runs in the end: the loser of two migrations exits,
\* finds the version on its next start, and no wait is for ever.
EverythingRuns == <>[](\A c \in Containers : stage[c] = "running")
=============================================================================
