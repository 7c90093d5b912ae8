-------------------------------- MODULE Poller --------------------------------
(***************************************************************************)
(* The poller process (app/services/poller.py): run_poller() and the cycle *)
(* it repeats, its one database transaction per location, and the publish  *)
(* of each alert once that transaction has committed.                      *)
(*                                                                         *)
(* An action ends at an await.  At each of them the awaited call may raise *)
(* and the process may be killed; a commit or a publish that raises may    *)
(* have taken effect all the same.                                         *)
(*                                                                         *)
(* The locations of a cycle come from SELECT DISTINCT without an order, so *)
(* the list that remains to be polled is a set.                            *)
(***************************************************************************)
EXTENDS SeverityEngine, FiniteSets

CONSTANTS
    Locations,
    Weathers,       \* the readings Open-Meteo may answer with
    MaxCycles,      \* bound on the number of poll cycles
    MaxKills        \* bound on the number of times the process is killed

ASSUME PollerAssumption ==
    /\ Weathers \subseteq Readings
    /\ MaxCycles \in Nat
    /\ MaxKills \in Nat

VARIABLES
    watched,        \* locations with at least one active subscription
    pc,             \* where the process is
    locations,      \* this cycle's answer of the SELECT
    todo,           \* those of them the loop has not come to yet
    open,           \* the open transaction: <<>> or one [location, weather]
    outgoing,       \* committed alerts (row numbers) still to be published
    readings,       \* the weather_readings table, in order of insertion
    alerts,         \* the alerts table, in order of insertion
    channel,        \* history: row numbers of the alerts published, in order
    cycle,          \* number of cycles begun
    aborted,        \* history: cycles ended by an exception or a kill
    kills           \* number of kills so far

tables == <<readings, alerts>>
locals == <<locations, todo, open, outgoing>>
vars == <<watched, pc, locals, tables, channel, cycle, aborted, kills>>

PCs == {"stopped", "asleep", "polling", "committing", "publishing"}

ReadingRows == [location : Locations, weather : Weathers, cycle : 1..MaxCycles]
AlertRows == [location : Locations, reading : Nat, severity : WATCH..SEVERE,
              condition_type : Conditions]

TypeOK ==
    /\ watched \subseteq Locations
    /\ pc \in PCs
    /\ todo \subseteq locations /\ locations \subseteq Locations
    /\ open \in {<<>>} \cup {<<[location |-> l, weather |-> w]>> : l \in Locations, w \in Weathers}
    /\ outgoing \in Seq(Nat)
    /\ readings \in Seq(ReadingRows)
    /\ alerts \in Seq(AlertRows)
    /\ channel \in Seq(Nat)
    /\ cycle \in 0..MaxCycles
    /\ aborted \subseteq 1..MaxCycles
    /\ kills \in 0..MaxKills

Init ==
    /\ watched = {}
    /\ pc = "asleep"
    /\ locations = {} /\ todo = {} /\ open = <<>> /\ outgoing = <<>>
    /\ readings = <<>> /\ alerts = <<>>
    /\ channel = <<>>
    /\ cycle = 0
    /\ aborted = {}
    /\ kills = 0

-----------------------------------------------------------------------------
(* The subscriptions routes of the API. *)

Watch(l) ==
    /\ l \notin watched
    /\ watched' = watched \cup {l}
    /\ UNCHANGED <<pc, locals, tables, channel, cycle, aborted, kills>>

Unwatch(l) ==
    /\ l \in watched
    /\ watched' = watched \ {l}
    /\ UNCHANGED <<pc, locals, tables, channel, cycle, aborted, kills>>

-----------------------------------------------------------------------------
(* poll_cycle() *)

\* Variant: what the last cycle left out is polled as well.
StartCycleCarryingOver ==
    /\ pc = "asleep"
    /\ cycle < MaxCycles
    /\ cycle' = cycle + 1
    /\ locations' = watched
    /\ todo' = todo \cup watched
    /\ pc' = "polling"
    /\ UNCHANGED <<watched, open, outgoing, tables, channel, aborted, kills>>

\* The sleep is over and the SELECT returns the watched locations.
StartCycle ==
    /\ pc = "asleep"
    /\ cycle < MaxCycles
    /\ cycle' = cycle + 1
    /\ locations' = watched
    /\ todo' = watched
    /\ pc' = "polling"
    /\ UNCHANGED <<watched, open, outgoing, tables, channel, aborted, kills>>

\* The SELECT raises: run_poller() logs it and sleeps, nothing was begun.
SelectRaises ==
    /\ pc = "asleep"
    /\ cycle < MaxCycles
    /\ cycle' = cycle + 1
    /\ locations' = {} /\ todo' = {}
    /\ aborted' = aborted \cup {cycle'}
    /\ UNCHANGED <<watched, pc, open, outgoing, tables, channel, kills>>

\* The loop is over: run_poller() sleeps.
EndCycle ==
    /\ pc = "polling"
    /\ todo = {}
    /\ pc' = "asleep"
    /\ UNCHANGED <<watched, locals, tables, channel, cycle, aborted, kills>>

\* Variant: the exception also leaves the loop of run_poller().
AbortEndsLoop ==
    /\ pc' = "ended"
    /\ open' = <<>>
    /\ outgoing' = <<>>
    /\ aborted' = aborted \cup {cycle}

\* An exception leaves poll_cycle(): the session is closed, which rolls back, and
\* run_poller() logs it and sleeps.  The code does not keep what was left of the
\* cycle; here todo still says, until the next one, which locations it was.
Abort ==
    /\ pc' = "asleep"
    /\ open' = <<>>
    /\ outgoing' = <<>>
    /\ aborted' = aborted \cup {cycle}

-----------------------------------------------------------------------------
(* poll_location_once() *)

\* Variant: the location stays in the list, to be polled once more.
FetchAgain(l, w) ==
    /\ pc = "polling"
    /\ l \in todo
    /\ Len(readings) < MaxCycles + 1
    /\ open' = <<[location |-> l, weather |-> w]>>
    /\ pc' = "committing"
    /\ UNCHANGED <<watched, locations, todo, outgoing, tables, channel, cycle, aborted, kills>>

\* fetch_current_weather() answers; the reading is flushed and its alerts added.
Fetch(l, w) ==
    /\ pc = "polling"
    /\ l \in todo
    /\ todo' = todo \ {l}
    /\ open' = <<[location |-> l, weather |-> w]>>
    /\ pc' = "committing"
    /\ UNCHANGED <<watched, locations, outgoing, tables, channel, cycle, aborted, kills>>

\* WeatherFetchError: the location is skipped until the next cycle.
FetchFails(l) ==
    /\ pc = "polling"
    /\ l \in todo
    /\ todo' = todo \ {l}
    /\ UNCHANGED <<watched, pc, locations, open, outgoing, tables, channel, cycle, aborted, kills>>

\* Any other exception of the fetch (an answer that is not JSON), or of the
\* flush that follows it.
FetchRaises(l) ==
    /\ pc = "polling"
    /\ l \in todo
    /\ todo' = todo \ {l}
    /\ Abort
    /\ UNCHANGED <<watched, locations, tables, channel, cycle, kills>>

\* The rows of the open transaction.
AlertsOf(tx) ==
    LET found == Classify(tx.weather)
    IN [i \in DOMAIN found |-> [location |-> tx.location, reading |-> Len(readings) + 1,
                                severity |-> found[i].severity,
                                condition_type |-> found[i].condition_type]]

\* Variant: the reading is committed by itself, its alerts only with the answer.
PersistReadingOnly ==
    /\ readings' = Append(readings, [location |-> open[1].location,
                                     weather |-> open[1].weather, cycle |-> cycle])
    /\ UNCHANGED alerts

\* One commit makes a reading and all its alerts permanent together.
Persist ==
    /\ readings' = Append(readings, [location |-> open[1].location,
                                     weather |-> open[1].weather, cycle |-> cycle])
    /\ alerts' = alerts \o AlertsOf(open[1])

Commit ==
    /\ pc = "committing"
    /\ Persist
    /\ outgoing' = [i \in DOMAIN AlertsOf(open[1]) |-> Len(alerts) + i]
    /\ open' = <<>>
    /\ pc' = "publishing"
    /\ UNCHANGED <<watched, locations, todo, channel, cycle, aborted, kills>>

\* commit() raises; the database may have committed before the answer was lost.
CommitRaises ==
    /\ pc = "committing"
    /\ Persist \/ UNCHANGED tables
    /\ Abort
    /\ UNCHANGED <<watched, locations, todo, channel, cycle, kills>>

\* Variant: the alerts are published from the back of the list.
PublishLast ==
    /\ pc = "publishing"
    /\ outgoing # <<>>
    /\ channel' = Append(channel, outgoing[Len(outgoing)])
    /\ outgoing' = SubSeq(outgoing, 1, Len(outgoing) - 1)
    /\ UNCHANGED <<watched, pc, locations, todo, open, tables, cycle, aborted, kills>>

\* Variant: a publish that raises is skipped and forgotten.
PublishSkipped ==
    /\ pc = "publishing"
    /\ outgoing # <<>>
    /\ outgoing' = Tail(outgoing)
    /\ UNCHANGED <<watched, pc, locations, todo, open, tables, channel, cycle, aborted, kills>>

Publish ==
    /\ pc = "publishing"
    /\ outgoing # <<>>
    /\ channel' = Append(channel, Head(outgoing))
    /\ outgoing' = Tail(outgoing)
    /\ UNCHANGED <<watched, pc, locations, todo, open, tables, cycle, aborted, kills>>

\* publish() raises, and Redis may or may not have taken the message: the other
\* alerts of the reading are never published, the other locations not polled.
PublishRaises ==
    /\ pc = "publishing"
    /\ outgoing # <<>>
    /\ channel' \in {channel, Append(channel, Head(outgoing))}
    /\ Abort
    /\ UNCHANGED <<watched, locations, todo, tables, cycle, kills>>

\* poll_location_once() returns to the loop.
FinishLocation ==
    /\ pc = "publishing"
    /\ outgoing = <<>>
    /\ pc' = "polling"
    /\ UNCHANGED <<watched, locals, tables, channel, cycle, aborted, kills>>

-----------------------------------------------------------------------------
(* The container. *)

\* The process is killed.  A commit it was waiting for may take effect.
Kill ==
    /\ pc # "stopped"
    /\ kills < MaxKills
    /\ kills' = kills + 1
    /\ \/ pc = "committing" /\ Persist
       \/ UNCHANGED tables
    /\ aborted' = IF pc = "asleep" THEN aborted ELSE aborted \cup {cycle}
    /\ pc' = "stopped"
    /\ locations' = {} /\ todo' = {} /\ open' = <<>> /\ outgoing' = <<>>
    /\ UNCHANGED <<watched, channel, cycle>>

\* restart: unless-stopped; the entrypoint waits for the schema and starts over.
Restart ==
    /\ pc = "stopped"
    /\ pc' = "asleep"
    /\ UNCHANGED <<watched, locals, tables, channel, cycle, aborted, kills>>

Step ==
    \/ StartCycle \/ SelectRaises \/ EndCycle
    \/ \E l \in Locations : FetchFails(l) \/ FetchRaises(l) \/ \E w \in Weathers : Fetch(l, w)
    \/ Commit \/ CommitRaises
    \/ Publish \/ PublishRaises \/ FinishLocation

Next ==
    \/ Step
    \/ Kill \/ Restart
    \/ \E l \in Locations : Watch(l) \/ Unwatch(l)

Spec == Init /\ [][Next]_vars

-----------------------------------------------------------------------------
(* Safety.                                                                 *)

\* The alert rows of reading i.
RowsOf(i) == {a \in DOMAIN alerts : alerts[a].reading = i}

\* A kill or an error between the flush, the classification and the commit never
\* leaves a reading without its alerts or an alert without its reading: the rows
\* stored for a reading follow each other, and are exactly the alerts the engine
\* raises for it, in its order and at its location.
ReadingsCarryAlerts ==
    /\ \A i \in DOMAIN readings :
         LET found == Classify(readings[i].weather)
         IN \E n \in 0..Len(alerts) :
              /\ RowsOf(i) = n + 1 .. n + Len(found)
              /\ \A k \in DOMAIN found :
                   /\ alerts[n + k].location = readings[i].location
                   /\ alerts[n + k].severity = found[k].severity
                   /\ alerts[n + k].condition_type = found[k].condition_type
    /\ \A a \in DOMAIN alerts : alerts[a].reading \in DOMAIN readings

\* Nothing is published that is not in the alerts table already, nothing twice,
\* and the channel carries the alerts in the order of the table.
PublishedOncePersisted ==
    /\ \A i \in DOMAIN channel : channel[i] \in DOMAIN alerts
    /\ \A i, j \in DOMAIN channel : i < j => channel[i] < channel[j]

InSeq(x, q) == \E i \in DOMAIN q : q[i] = x

\* An alert that was stored and not published is still to be published, unless
\* its cycle was cut short by an exception or a kill: no path of the code that
\* returns normally loses one.
NoAlertForgotten == \A a \in DOMAIN alerts :
    \/ InSeq(a, channel)
    \/ InSeq(a, outgoing)
    \/ readings[alerts[a].reading].cycle \in aborted

\* "the poller hits the weather API exactly once per unique location per poll
\* cycle" (pubsub.py:9-11): a cycle stores at most one reading of a location,
\* however subscriptions change and whatever fails meanwhile.
OnePollPerCycle == \A i, j \in DOMAIN readings :
    readings[i].cycle = readings[j].cycle /\ readings[i].location = readings[j].location => i = j

-----------------------------------------------------------------------------
(* Liveness, under the fairness of AlertPipeline.                          *)

\* No exception of a fetch, the database or Redis stops the poller for good.
KeepsPolling == \A c \in 1..MaxCycles : <>(cycle >= c)

\* A stored alert is eventually published, or its cycle was cut short (for the
\* first two alerts of every reading, as many as the instances have).
AlertsGetPublished == \A a \in 1 .. MaxCycles * Cardinality(Locations) * 2 :
    a \in DOMAIN alerts ~>
      (\/ InSeq(a, channel)
       \/ a \in DOMAIN alerts /\ readings[alerts[a].reading].cycle \in aborted)

-----------------------------------------------------------------------------
(* A claim of the repository that the code does not keep.                  *)

\* "it's what guarantees each location is polled exactly once per cycle"
\* (poller.py:16-18): when a cycle is over, the loop has come to every location
\* that the SELECT had answered.
EveryLocationPolled == pc = "asleep" => todo = {}

=============================================================================
