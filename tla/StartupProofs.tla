---------------------------- MODULE StartupProofs ----------------------------
(***************************************************************************)
(* Theorems about Startup, for any number of API replicas and of failures. *)
(***************************************************************************)
EXTENDS Startup, TLAPS

\* A container is past the migration, or its wait for it, only on a schema that
\* has been migrated; and the schema is migrated as a whole.
SchemaInv ==
    /\ TypeOK
    /\ AllTablesOrNone
    /\ \A c \in Containers : stage[c] \in {"booting", "running"} => version

\* The last table the migration creates is one of them.
LEMMA AlertsIsATable == "alerts" \in AllTables /\ Len(Tables) = 6
BY DEF AllTables, TablesUpTo, Tables

\* Before the migration there is no table, after it there are all.
LEMMA MigratedWhole ==
    ASSUME TypeOK, AllTablesOrNone, Migrated
    PROVE  AllTablesOrNone' /\ schema' \subseteq AllTables /\ version' = TRUE
BY DEF TypeOK, AllTablesOrNone, Migrated

\* Containers that end are neither booting nor running, and of a transaction they
\* had open nothing remains.
LEMMA ExitStep ==
    ASSUME SchemaInv, NEW C, Exit(C), AllTablesOrNone', schema' \subseteq AllTables,
           version' \in BOOLEAN, version => version', up' \subseteq Services,
           failures' \in 0..MaxFailures
    PROVE  SchemaInv'
<1>1. TypeOK'
  BY AlertsIsATable DEF SchemaInv, TypeOK, Exit, Containers
<1>2. \A c \in Containers : stage'[c] \in {"booting", "running"} => version'
  BY DEF SchemaInv, TypeOK, Exit
<1> QED BY <1>1, <1>2 DEF SchemaInv

\* A step of a container that is not the commit, to a stage the schema allows.
LEMMA AdvanceStep ==
    ASSUME SchemaInv, NEW c \in Containers,
           NEW st \in {"waiting", "upgrading", "creating", "booting", "watching", "running"},
           GoTo(c, st), st \in {"booting", "running"} => version,
           c \in Apis => stage[c] # "creating",
           UNCHANGED <<up, schema, version, built, failures>>
    PROVE  SchemaInv'
<1>1. TypeOK'
  BY DEF SchemaInv, TypeOK, GoTo, Containers
<1>2. AllTablesOrNone'
  BY DEF SchemaInv, AllTablesOrNone
<1>3. \A d \in Containers : stage'[d] \in {"booting", "running"} => version'
  BY DEF SchemaInv, TypeOK, GoTo
<1> QED BY <1>1, <1>2, <1>3 DEF SchemaInv

\* No step of an entrypoint, no failure and no recovery breaks the invariant.
LEMMA SchemaStep == SchemaInv /\ [Next]_vars => SchemaInv'
<1> SUFFICES ASSUME SchemaInv, [Next]_vars PROVE SchemaInv'
  OBVIOUS
<1>0. TypeOK /\ AllTablesOrNone
  BY DEF SchemaInv
<1>a. \A a \in Apis : a \in Containers
  BY DEF Containers
<1>b. poller \in Containers /\ poller \notin Apis
  BY StartupAssumption DEF Containers
<1>1. CASE UNCHANGED vars
  BY <1>1 DEF vars, SchemaInv, TypeOK, AllTablesOrNone
<1>2. ASSUME NEW c \in Containers, Start(c) \/ Restart(c) PROVE SchemaInv'
  BY <1>2, AdvanceStep DEF Start, Restart
<1>3. ASSUME NEW c \in Containers, PostgresAnswers(c) PROVE SchemaInv'
  BY <1>3, AdvanceStep DEF PostgresAnswers
<1>4. ASSUME NEW a \in Apis, ReadVersion(a) PROVE SchemaInv'
  BY <1>4, <1>a, AdvanceStep DEF ReadVersion
<1>5. ASSUME NEW a \in Apis, CreateTable(a) PROVE SchemaInv'
  BY <1>0, <1>5, AlertsIsATable DEF CreateTable, SchemaInv, TypeOK, AllTablesOrNone
<1>6. ASSUME NEW a \in Apis, CreateTableRaises(a) \/ UpgradeRaises(a) PROVE SchemaInv'
  <2>1. Exit({a}) /\ UNCHANGED <<up, schema, version, failures>>
    BY <1>6 DEF CreateTableRaises, UpgradeRaises
  <2> QED BY <1>0, <2>1, ExitStep DEF TypeOK, AllTablesOrNone
<1>7. ASSUME NEW a \in Apis, CommitUpgrade(a) PROVE SchemaInv'
  <2>1. AllTablesOrNone' /\ schema' \subseteq AllTables /\ version' = TRUE
    BY <1>0, <1>7, MigratedWhole DEF CommitUpgrade
  <2>2. TypeOK'
    BY <1>0, <1>7, <2>1, AlertsIsATable DEF CommitUpgrade, TypeOK, GoTo, Containers
  <2> QED BY <2>1, <2>2 DEF SchemaInv
<1>8. ASSUME NEW a \in Apis, Boot(a) PROVE SchemaInv'
  <2>1. version /\ stage[a] = "booting"
    BY <1>8, <1>a DEF Boot, SchemaInv
  <2>2. CASE "redis" \in up
    BY <1>8, <1>a, <2>1, <2>2, AdvanceStep DEF Boot
  <2>3. CASE "redis" \notin up
    <3>1. Exit({a}) /\ UNCHANGED <<up, schema, version, failures>>
      BY <1>8, <2>3 DEF Boot
    <3> QED BY <1>0, <3>1, ExitStep DEF TypeOK, AllTablesOrNone
  <2> QED BY <2>2, <2>3
<1>9. CASE SchemaAppears
  <2>1. version
    BY <1>0, <1>9 DEF SchemaAppears, AllTablesOrNone
  <2> QED BY <1>9, <1>b, <2>1, AdvanceStep DEF SchemaAppears
<1>10. ASSUME NEW C, CommitUncertain(C)
       PROVE  /\ AllTablesOrNone' /\ schema' \subseteq AllTables
              /\ version' \in BOOLEAN /\ (version => version')
  <2>1. CASE UNCHANGED <<schema, version>>
    BY <1>0, <2>1 DEF TypeOK, AllTablesOrNone
  <2>2. CASE Migrated
    <3>1. AllTablesOrNone' /\ schema' \subseteq AllTables /\ version' = TRUE
      BY <1>0, <2>2, MigratedWhole
    <3> QED BY <3>1
  <2> QED BY <1>10, <2>1, <2>2 DEF CommitUncertain
<1>11. ASSUME NEW c \in Containers, Kill(c) PROVE SchemaInv'
  <2>1. /\ CommitUncertain({c}) /\ Exit({c}) /\ UNCHANGED up
        /\ failures' \in 0..MaxFailures
    BY <1>0, <1>11, StartupAssumption DEF Kill, TypeOK
  <2> QED BY <1>0, <1>10, <2>1, ExitStep DEF TypeOK
<1>12. ASSUME NEW s \in Services, GoDown(s) PROVE SchemaInv'
  <2> DEFINE broken == IF s = "postgres" THEN {a \in Apis : stage[a] = "creating"} ELSE {}
  <2>1. /\ CommitUncertain(broken) /\ Exit(broken) /\ up' \subseteq Services
        /\ failures' \in 0..MaxFailures
    BY <1>0, <1>12, StartupAssumption DEF GoDown, TypeOK
  <2> HIDE DEF broken
  <2> QED BY <1>0, <1>10, <2>1, ExitStep
<1>13. ASSUME NEW s \in Services, ComeUp(s) PROVE SchemaInv'
  BY <1>13 DEF ComeUp, SchemaInv, TypeOK, AllTablesOrNone
<1> QED
  BY <1>1, <1>2, <1>3, <1>4, <1>5, <1>6, <1>7, <1>8, <1>9, <1>11, <1>12, <1>13
  DEF Next, Entrypoint

\* Initially there is no schema and no container has started.
LEMMA SchemaInit == Init => SchemaInv
<1> SUFFICES ASSUME Init PROVE SchemaInv
  OBVIOUS
<1>1. TypeOK
  <2>1. version \in BOOLEAN
    BY DEF Init
  <2>2. /\ up \subseteq Services /\ schema \subseteq AllTables /\ failures \in 0..MaxFailures
        /\ stage \in [Containers -> {"created", "exited", "waiting", "upgrading", "creating",
                                     "booting", "watching", "running"}]
    BY StartupAssumption DEF Init
  <2>3. built \in [Apis -> 0..Len(Tables)] /\ \A a \in Apis : ~(built[a] > 0)
    BY AlertsIsATable DEF Init
  <2> QED BY <2>1, <2>2, <2>3 DEF TypeOK
<1>2. AllTablesOrNone
  BY DEF Init, AllTablesOrNone
<1>3. \A c \in Containers : stage[c] = "created"
  BY DEF Init
<1> QED BY <1>1, <1>2, <1>3 DEF SchemaInv

\* Each variable keeps its type; in particular only a replica that is migrating has
\* a transaction open.
THEOREM StartupTypeCorrect == Spec => []TypeOK
<1>1. SchemaInv => TypeOK
  BY DEF SchemaInv
<1> QED BY <1>1, SchemaInit, SchemaStep, PTL DEF Spec

\* The schema is there as a whole or not at all.
THEOREM SchemaNeverHalfMade == Spec => []AllTablesOrNone
<1>1. SchemaInv => AllTablesOrNone
  BY DEF SchemaInv
<1> QED BY <1>1, SchemaInit, SchemaStep, PTL DEF Spec

\* Nothing runs without the whole schema: a replica because it has seen the
\* version, the poller because the one table it looks for implies the others.
THEOREM NothingRunsUnmigrated == Spec => []RunsOnWholeSchema
<1>1. SchemaInv => RunsOnWholeSchema
  BY DEF SchemaInv, RunsOnWholeSchema, AllTablesOrNone
<1> QED BY <1>1, SchemaInit, SchemaStep, PTL DEF Spec
=============================================================================
