---------------------------- MODULE PollerProofs ----------------------------
(***************************************************************************)
(* The poller, for any locations, any readings, and any number of cycles   *)
(* and kills.                                                              *)
(***************************************************************************)
EXTENDS Poller, TLAPS

\* Where the process can be while it holds a transaction or alerts to publish.
ProcessInv ==
    /\ pc \in {"polling", "committing", "publishing"} => cycle >= 1
    /\ pc = "committing" <=> open # <<>>
    /\ pc # "publishing" => outgoing = <<>>

\* What the current cycle has still to poll, or is polling, it has not stored; the
\* list that an exception has left behind is of no harm to the next cycle.
CycleInv ==
    /\ \A i \in DOMAIN readings :
         /\ readings[i].cycle <= cycle
         /\ readings[i].cycle = cycle =>
              /\ readings[i].location \notin todo
              /\ open # <<>> => readings[i].location # open[1].location
    /\ open # <<>> => open[1].location \notin todo
    /\ OnePollPerCycle

\* What is still to be published comes after everything on the channel, in the
\* order of the table, and is of a reading of the current cycle.
OutgoingInv ==
    /\ \A i \in DOMAIN outgoing :
         /\ outgoing[i] \in DOMAIN alerts
         /\ readings[alerts[outgoing[i]].reading].cycle = cycle
         /\ \A j \in DOMAIN outgoing : i < j => outgoing[i] < outgoing[j]
         /\ \A j \in DOMAIN channel : channel[j] < outgoing[i]
    /\ PublishedOncePersisted

PollerInv == ProcessInv /\ CycleInv /\ OutgoingInv /\ ReadingsCarryAlerts /\ NoAlertForgotten

-----------------------------------------------------------------------------
(* The engine and the tables.                                              *)

\* Concatenation, element by element.
LEMMA Concatenation ==
    ASSUME NEW S, NEW a \in Seq(S), NEW b \in Seq(S)
    PROVE  /\ a \o b \in Seq(S)
           /\ Len(a \o b) = Len(a) + Len(b)
           /\ DOMAIN (a \o b) = 1 .. Len(a) + Len(b)
           /\ \A i \in DOMAIN a : i \in DOMAIN (a \o b) /\ (a \o b)[i] = a[i]
           /\ \A i \in DOMAIN b : (a \o b)[Len(a) + i] = b[i]
OBVIOUS

EngineAlerts == [severity : WATCH..SEVERE, condition_type : Conditions]

\* The engine answers with a list of alerts whatever it is asked.
LEMMA ClassifyType == ASSUME NEW r PROVE Classify(r) \in Seq(EngineAlerts)
<1>1. ASSUME NEW tier \in 0..SEVERE, NEW condition \in Conditions
      PROVE  Alerts(tier, condition) \in Seq(EngineAlerts)
  <2>1. CASE tier = 0
    BY <2>1 DEF Alerts
  <2>2. CASE tier # 0
    <3>1. [severity |-> tier, condition_type |-> condition] \in EngineAlerts
      BY <2>2 DEF EngineAlerts, WATCH, SEVERE
    <3> QED BY <2>2, <3>1 DEF Alerts
  <2> QED BY <2>1, <2>2
<1> DEFINE heat == HighestTierMet(r.temperature, ExtremeHeat, FALSE)
           cold == HighestTierMet(r.temperature, ExtremeCold, TRUE)
           wind == HighestTierMet(r.wind, HighWind, FALSE)
           rain == HighestTierMet(r.precipitation, HeavyPrecipitation, FALSE)
           code == CodeTier(r.code)
<1>2. heat \in 0..SEVERE /\ cold \in 0..SEVERE /\ wind \in 0..SEVERE /\ rain \in 0..SEVERE
  BY DEF HighestTierMet, WATCH, WARNING, SEVERE
<1>3. code \in 0..SEVERE
  BY DEF CodeTier, WATCH, WARNING, SEVERE
<1>4. Classify(r) = Alerts(heat, "EXTREME_HEAT") \o Alerts(cold, "EXTREME_COLD")
                    \o Alerts(wind, "HIGH_WIND") \o Alerts(rain, "HEAVY_PRECIPITATION")
                    \o Alerts(code, "SEVERE_WEATHER_CODE")
  BY Zenon DEF Classify
<1> HIDE DEF heat, cold, wind, rain, code
<1>5. /\ Alerts(heat, "EXTREME_HEAT") \in Seq(EngineAlerts)
      /\ Alerts(cold, "EXTREME_COLD") \in Seq(EngineAlerts)
      /\ Alerts(wind, "HIGH_WIND") \in Seq(EngineAlerts)
      /\ Alerts(rain, "HEAVY_PRECIPITATION") \in Seq(EngineAlerts)
      /\ Alerts(code, "SEVERE_WEATHER_CODE") \in Seq(EngineAlerts)
  BY <1>1, <1>2, <1>3 DEF Conditions
<1> QED BY <1>4, <1>5

\* The rows of a transaction are as many as the alerts of its reading, in order.
LEMMA RowsOfTransaction ==
    ASSUME NEW l \in Locations, NEW w \in Weathers, Len(readings) \in Nat
    PROVE  LET tx == [location |-> l, weather |-> w]
               found == Classify(w)
           IN /\ AlertsOf(tx) \in Seq(AlertRows)
              /\ DOMAIN AlertsOf(tx) = DOMAIN found /\ Len(AlertsOf(tx)) = Len(found)
              /\ \A k \in DOMAIN found :
                   /\ AlertsOf(tx)[k].location = l
                   /\ AlertsOf(tx)[k].reading = Len(readings) + 1
                   /\ AlertsOf(tx)[k].severity = found[k].severity
                   /\ AlertsOf(tx)[k].condition_type = found[k].condition_type
<1> DEFINE tx == [location |-> l, weather |-> w]
           found == Classify(w)
           row(k) == [location |-> l, reading |-> Len(readings) + 1,
                      severity |-> found[k].severity,
                      condition_type |-> found[k].condition_type]
<1>1. found \in Seq(EngineAlerts)
  BY ClassifyType
<1>2. AlertsOf(tx) = [k \in DOMAIN found |-> row(k)]
  BY DEF AlertsOf
<1> HIDE DEF found
<1>3. ASSUME NEW k \in DOMAIN found PROVE row(k) \in AlertRows
  <2>1. found[k] \in EngineAlerts
    BY <1>1
  <2> QED BY <2>1 DEF EngineAlerts, AlertRows
<1>4. DOMAIN found = 1..Len(found) /\ Len(found) \in Nat
  BY <1>1
<1>5. ASSUME NEW k \in DOMAIN found
      PROVE  /\ AlertsOf(tx)[k].location = l
             /\ AlertsOf(tx)[k].reading = Len(readings) + 1
             /\ AlertsOf(tx)[k].severity = found[k].severity
             /\ AlertsOf(tx)[k].condition_type = found[k].condition_type
  <2>1. AlertsOf(tx)[k] = row(k)
    BY <1>2
  <2> QED BY <2>1
<1>6. [k \in DOMAIN found |-> row(k)] \in Seq(AlertRows)
  <2> HIDE DEF row
  <2> QED BY <1>3, <1>4
<1>7. Len([k \in DOMAIN found |-> row(k)]) = Len(found)
  <2> HIDE DEF row
  <2> QED BY <1>4
<1> QED BY <1>2, <1>4, <1>5, <1>6, <1>7 DEF found

\* The types of what the proofs talk about.
LEMMA PollerTypes ==
    ASSUME TypeOK
    PROVE  /\ readings \in Seq(ReadingRows) /\ alerts \in Seq(AlertRows)
           /\ channel \in Seq(Nat) /\ outgoing \in Seq(Nat)
           /\ Len(readings) \in Nat /\ DOMAIN readings = 1 .. Len(readings)
           /\ Len(alerts) \in Nat /\ DOMAIN alerts = 1 .. Len(alerts)
           /\ Len(channel) \in Nat /\ DOMAIN channel = 1 .. Len(channel)
           /\ Len(outgoing) \in Nat /\ DOMAIN outgoing = 1 .. Len(outgoing)
           /\ cycle \in Nat
           /\ \A i \in DOMAIN readings : readings[i].cycle \in Nat
           /\ \A a \in DOMAIN alerts : alerts[a].reading \in Nat
<1>1. /\ \A i \in DOMAIN readings : readings[i] \in ReadingRows
      /\ \A a \in DOMAIN alerts : alerts[a] \in AlertRows
  BY DEF TypeOK
<1>2. /\ \A i \in DOMAIN readings : readings[i].cycle \in Nat
      /\ \A a \in DOMAIN alerts : alerts[a].reading \in Nat
  BY <1>1, PollerAssumption DEF ReadingRows, AlertRows
<1> QED BY <1>2, PollerAssumption DEF TypeOK

\* The transaction that is being committed.
LEMMA OpenTransaction ==
    ASSUME TypeOK, ProcessInv, pc = "committing"
    PROVE  /\ open[1].location \in Locations /\ open[1].weather \in Weathers
           /\ open[1] = [location |-> open[1].location, weather |-> open[1].weather]
           /\ cycle \in 1..MaxCycles
<1>1. PICK l \in Locations, w \in Weathers : open = <<[location |-> l, weather |-> w]>>
  BY DEF TypeOK, ProcessInv
<1> QED BY <1>1, PollerAssumption DEF TypeOK, ProcessInv

\* A commit adds one reading and its alerts, and leaves what was there as it was.
LEMMA PersistEffect ==
    ASSUME TypeOK, ProcessInv, pc = "committing", Persist
    PROVE  LET found == Classify(open[1].weather)
           IN /\ readings' \in Seq(ReadingRows) /\ alerts' \in Seq(AlertRows)
              /\ DOMAIN readings' = 1 .. Len(readings) + 1
              /\ Len(alerts') = Len(alerts) + Len(found)
              /\ DOMAIN alerts' = 1 .. Len(alerts) + Len(found)
              /\ \A i \in DOMAIN readings : i \in DOMAIN readings' /\ readings'[i] = readings[i]
              /\ readings'[Len(readings) + 1].location = open[1].location
              /\ readings'[Len(readings) + 1].weather = open[1].weather
              /\ readings'[Len(readings) + 1].cycle = cycle
              /\ \A a \in DOMAIN alerts : a \in DOMAIN alerts' /\ alerts'[a] = alerts[a]
              /\ DOMAIN AlertsOf(open[1]) = DOMAIN found
              /\ found \in Seq(EngineAlerts)
              /\ \A k \in DOMAIN found :
                   /\ alerts'[Len(alerts) + k].location = open[1].location
                   /\ alerts'[Len(alerts) + k].reading = Len(readings) + 1
                   /\ alerts'[Len(alerts) + k].severity = found[k].severity
                   /\ alerts'[Len(alerts) + k].condition_type = found[k].condition_type
<1> DEFINE l == open[1].location
           w == open[1].weather
           found == Classify(w)
           rows == AlertsOf(open[1])
           reading == [location |-> l, weather |-> w, cycle |-> cycle]
<1>1. l \in Locations /\ w \in Weathers /\ open[1] = [location |-> l, weather |-> w] /\ cycle \in 1..MaxCycles
  BY OpenTransaction
<1>2. /\ readings \in Seq(ReadingRows) /\ alerts \in Seq(AlertRows)
      /\ Len(readings) \in Nat /\ DOMAIN readings = 1 .. Len(readings)
      /\ Len(alerts) \in Nat /\ DOMAIN alerts = 1 .. Len(alerts)
  BY PollerTypes
<1> HIDE DEF l, w
<1>3. /\ rows \in Seq(AlertRows)
      /\ DOMAIN rows = DOMAIN found /\ Len(rows) = Len(found)
      /\ \A k \in DOMAIN found :
           /\ rows[k].location = l
           /\ rows[k].reading = Len(readings) + 1
           /\ rows[k].severity = found[k].severity
           /\ rows[k].condition_type = found[k].condition_type
  BY <1>1, <1>2, RowsOfTransaction
<1>4. readings' = Append(readings, reading) /\ alerts' = alerts \o rows
  BY DEF Persist, l, w
<1>5. /\ reading \in ReadingRows
      /\ reading.location = l /\ reading.weather = w /\ reading.cycle = cycle
  BY <1>1 DEF ReadingRows
<1>6. found \in Seq(EngineAlerts)
  BY ClassifyType
<1> HIDE DEF found, rows, reading
<1>7. /\ readings' \in Seq(ReadingRows)
      /\ DOMAIN readings' = 1 .. Len(readings) + 1
      /\ \A i \in DOMAIN readings : i \in DOMAIN readings' /\ readings'[i] = readings[i]
      /\ readings'[Len(readings) + 1] = reading
  BY <1>2, <1>4, <1>5
<1>8. /\ alerts' \in Seq(AlertRows)
      /\ Len(alerts') = Len(alerts) + Len(found)
      /\ DOMAIN alerts' = 1 .. Len(alerts) + Len(found)
      /\ \A a \in DOMAIN alerts : a \in DOMAIN alerts' /\ alerts'[a] = alerts[a]
  <2>1. alerts \in Seq(AlertRows) /\ rows \in Seq(AlertRows) /\ Len(rows) = Len(found)
    BY <1>2, <1>3
  <2>2. /\ alerts \o rows \in Seq(AlertRows)
        /\ Len(alerts \o rows) = Len(alerts) + Len(rows)
        /\ DOMAIN (alerts \o rows) = 1 .. Len(alerts) + Len(rows)
        /\ \A i \in DOMAIN alerts : i \in DOMAIN (alerts \o rows) /\ (alerts \o rows)[i] = alerts[i]
    BY ONLY <2>1, Concatenation
  <2>3. alerts' = alerts \o rows
    BY <1>4
  <2> QED BY ONLY <2>1, <2>2, <2>3
<1>9. \A k \in DOMAIN found : alerts'[Len(alerts) + k] = rows[k]
  BY <1>2, <1>3, <1>4, Concatenation
<1> QED BY <1>3, <1>5, <1>6, <1>7, <1>8, <1>9 DEF l, w, found, rows

\* Nothing but a commit writes the tables.
LEMMA TablesStep ==
    ASSUME [Next]_vars
    PROVE  \/ UNCHANGED tables
           \/ pc = "committing" /\ Persist
BY DEF Next, Step, StartCycle, SelectRaises, EndCycle, FetchFails, Fetch, FetchRaises, Commit,
       CommitRaises, Publish, PublishRaises, FinishLocation, Kill, Restart, Watch, Unwatch, vars, tables

-----------------------------------------------------------------------------
(* Each part of the invariant is kept.                                     *)

LEMMA TablesTypeStep ==
    ASSUME TypeOK, ProcessInv, [Next]_vars
    PROVE  readings' \in Seq(ReadingRows) /\ alerts' \in Seq(AlertRows)
<1>1. CASE UNCHANGED tables
  BY <1>1 DEF tables, TypeOK
<1>2. CASE pc = "committing" /\ Persist
  BY <1>2, PersistEffect
<1> QED BY <1>1, <1>2, TablesStep

LEMMA TypeStep == TypeOK /\ ProcessInv /\ [Next]_vars => TypeOK'
<1> SUFFICES ASSUME TypeOK, ProcessInv, [Next]_vars PROVE TypeOK'
  OBVIOUS
<1> DEFINE opens == {<<[location |-> l, weather |-> w]>> : l \in Locations, w \in Weathers}
<1>0. /\ watched \subseteq Locations /\ pc \in PCs
      /\ todo \subseteq locations /\ locations \subseteq Locations
      /\ open \in {<<>>} \cup opens
      /\ outgoing \in Seq(Nat) /\ channel \in Seq(Nat)
      /\ cycle \in 0..MaxCycles /\ aborted \subseteq 1..MaxCycles /\ kills \in 0..MaxKills
      /\ MaxCycles \in Nat /\ MaxKills \in Nat
  BY PollerAssumption DEF TypeOK
<1>00. pc \in {"polling", "committing", "publishing"} => cycle \in 1..MaxCycles
  BY <1>0 DEF ProcessInv
<1>T. readings' \in Seq(ReadingRows) /\ alerts' \in Seq(AlertRows)
  BY TablesTypeStep
<1> HIDE DEF opens
<1> SUFFICES /\ watched' \subseteq Locations /\ pc' \in PCs
             /\ todo' \subseteq locations' /\ locations' \subseteq Locations
             /\ open' \in {<<>>} \cup opens
             /\ outgoing' \in Seq(Nat) /\ channel' \in Seq(Nat)
             /\ cycle' \in 0..MaxCycles /\ aborted' \subseteq 1..MaxCycles /\ kills' \in 0..MaxKills
  BY <1>T DEF TypeOK, opens
<1> USE <1>0, <1>00 DEF PCs, locals, tables, Abort
<1>1. CASE UNCHANGED vars
  BY <1>1 DEF vars
<1>2. CASE \E l \in Locations : Watch(l) \/ Unwatch(l)
  BY <1>2 DEF Watch, Unwatch
<1>3. CASE StartCycle \/ SelectRaises \/ EndCycle \/ FinishLocation \/ Restart
  <2>1. CASE StartCycle
    BY <2>1 DEF StartCycle
  <2>2. CASE SelectRaises
    <3>1. cycle' \in 1..MaxCycles
      BY <2>2 DEF SelectRaises
    <3> QED BY <2>2, <3>1 DEF SelectRaises
  <2>3. CASE EndCycle \/ FinishLocation \/ Restart
    BY <2>3 DEF EndCycle, FinishLocation, Restart
  <2> QED BY <1>3, <2>1, <2>2, <2>3
<1>4. ASSUME NEW l \in Locations, NEW w \in Weathers, Fetch(l, w) PROVE open' \in opens
  BY <1>4 DEF Fetch, opens
<1>5. CASE \E l \in Locations : FetchFails(l) \/ \E w \in Weathers : Fetch(l, w)
  BY <1>4, <1>5 DEF FetchFails, Fetch
<1>6. CASE (\E l \in Locations : FetchRaises(l)) \/ CommitRaises
  <2>1. CASE \E l \in Locations : FetchRaises(l)
    BY <2>1 DEF FetchRaises
  <2>2. CASE CommitRaises
    BY <2>2 DEF CommitRaises
  <2> QED BY <1>6, <2>1, <2>2
<1>7. CASE Commit
  <2>1. DOMAIN AlertsOf(open[1]) = 1 .. Len(Classify(open[1].weather))
    BY <1>7, PersistEffect DEF Commit
  <2>2. Len(Classify(open[1].weather)) \in Nat /\ Len(alerts) \in Nat
    BY ClassifyType, PollerTypes
  <2> DEFINE n == Len(Classify(open[1].weather))
  <2>3. [i \in 1..n |-> Len(alerts) + i] \in Seq(Nat)
    <3> HIDE DEF n
    <3> QED BY <2>2 DEF n
  <2> QED BY <1>7, <2>1, <2>3 DEF Commit
<1>8. CASE Publish \/ PublishRaises
  <2>1. CASE outgoing # <<>>
    <3>1. Head(outgoing) \in Nat /\ Tail(outgoing) \in Seq(Nat)
      BY <2>1
    <3>2. Append(channel, Head(outgoing)) \in Seq(Nat)
      BY <3>1
    <3>3. CASE Publish
      BY <3>1, <3>2, <3>3 DEF Publish
    <3>4. CASE PublishRaises
      <4>1. /\ channel' \in {channel, Append(channel, Head(outgoing))}
            /\ pc' = "asleep" /\ open' = <<>> /\ outgoing' = <<>>
            /\ aborted' = aborted \cup {cycle} /\ cycle \in 1..MaxCycles
            /\ UNCHANGED <<watched, locations, todo, cycle, kills>>
        BY <3>4 DEF PublishRaises
      <4>2. channel' \in Seq(Nat)
        BY <3>2, <4>1
      <4> QED BY <4>1, <4>2
    <3> QED BY <1>8, <3>3, <3>4
  <2> QED BY <1>8, <2>1 DEF Publish, PublishRaises
<1>9. CASE Kill
  BY <1>9 DEF Kill
<1> QED
  BY <1>1, <1>2, <1>3, <1>5, <1>6, <1>7, <1>8, <1>9 DEF Next, Step

LEMMA ProcessStep == TypeOK /\ ProcessInv /\ [Next]_vars => ProcessInv'
<1> SUFFICES ASSUME TypeOK, ProcessInv, [Next]_vars PROVE ProcessInv'
  OBVIOUS
<1>0. cycle \in Nat /\ pc \in PCs
  BY PollerTypes DEF TypeOK
<1>1. ASSUME NEW l \in Locations, NEW w \in Weathers, Fetch(l, w) PROVE open' # <<>>
  BY <1>1 DEF Fetch
<1> QED
  BY <1>0, <1>1
  DEF ProcessInv, Next, Step, StartCycle, SelectRaises, EndCycle, FetchFails, Fetch, FetchRaises,
      Commit, CommitRaises, Publish, PublishRaises, FinishLocation, Kill, Restart, Watch, Unwatch,
      Abort, vars, locals, PCs

LEMMA CycleStep == TypeOK /\ ProcessInv /\ CycleInv /\ [Next]_vars => CycleInv'
<1> SUFFICES ASSUME TypeOK, ProcessInv, CycleInv, [Next]_vars PROVE CycleInv'
  OBVIOUS
<1>0. /\ cycle \in Nat /\ (\A i \in DOMAIN readings : readings[i].cycle \in Nat)
      /\ Len(readings) \in Nat /\ DOMAIN readings = 1 .. Len(readings)
  BY PollerTypes
<1>1. CASE UNCHANGED <<readings, todo, open, cycle>>
  BY <1>1 DEF CycleInv, OnePollPerCycle
<1>2. CASE StartCycle \/ SelectRaises
  <2>1. UNCHANGED readings /\ cycle' = cycle + 1 /\ open' = <<>>
    BY <1>2 DEF StartCycle, SelectRaises, ProcessInv, tables
  <2> QED BY <1>0, <2>1 DEF CycleInv, OnePollPerCycle
<1>3. ASSUME NEW l \in Locations, FetchFails(l) PROVE CycleInv'
  BY <1>3 DEF FetchFails, CycleInv, OnePollPerCycle, tables, locals
<1>4. ASSUME NEW l \in Locations, NEW w \in Weathers, Fetch(l, w) PROVE CycleInv'
  <2>1. /\ UNCHANGED <<readings, cycle>> /\ todo' = todo \ {l} /\ l \in todo
        /\ open'[1].location = l
    BY <1>4 DEF Fetch, tables
  <2> QED BY <2>1 DEF CycleInv, OnePollPerCycle
<1>5. ASSUME pc = "committing", Persist, UNCHANGED <<cycle>>, todo' \subseteq todo, open' = <<>>
      PROVE  CycleInv'
  <2> DEFINE n == Len(readings) + 1
  <2>1. /\ DOMAIN readings' = DOMAIN readings \cup {n} /\ n \notin DOMAIN readings
        /\ \A i \in DOMAIN readings : readings'[i] = readings[i]
        /\ readings'[n].location = open[1].location /\ readings'[n].cycle = cycle
    BY <1>0, <1>5, PersistEffect
  <2>2. open # <<>>
    BY <1>5 DEF ProcessInv
  <2>3. open[1].location \notin todo'
    BY <1>5, <2>2 DEF CycleInv
  <2>4. \A i \in DOMAIN readings : readings[i].cycle = cycle => readings[i].location # open[1].location
    BY <2>2 DEF CycleInv
  <2> HIDE DEF n
  <2>5. \A i \in DOMAIN readings' : /\ readings'[i].cycle <= cycle'
                                    /\ readings'[i].cycle = cycle' => readings'[i].location \notin todo'
    BY <1>0, <1>5, <2>1, <2>3 DEF CycleInv
  <2>6. OnePollPerCycle'
    BY <2>1, <2>4 DEF CycleInv, OnePollPerCycle
  <2> QED BY <1>5, <2>5, <2>6 DEF CycleInv
<1>6. ASSUME UNCHANGED <<readings, cycle>>, todo' \subseteq todo, open' = <<>> PROVE CycleInv'
  BY <1>6 DEF CycleInv, OnePollPerCycle
<1>7. CASE Commit \/ CommitRaises \/ Kill
  <2>1. UNCHANGED cycle /\ todo' \subseteq todo /\ open' = <<>>
    BY <1>7 DEF Commit, CommitRaises, Kill, Abort
  <2>2. (pc = "committing" /\ Persist) \/ UNCHANGED readings
    BY TablesStep DEF tables
  <2> QED BY <1>5, <1>6, <2>1, <2>2
<1>8. CASE (\E l \in Locations : FetchRaises(l)) \/ PublishRaises
  BY <1>6, <1>8 DEF FetchRaises, PublishRaises, Abort, tables
<1> QED
  BY <1>1, <1>2, <1>3, <1>4, <1>7, <1>8
  DEF Next, Step, EndCycle, Publish, FinishLocation, Restart, Watch, Unwatch, vars, locals, tables

LEMMA CarryStep == TypeOK /\ ProcessInv /\ ReadingsCarryAlerts /\ [Next]_vars => ReadingsCarryAlerts'
<1> SUFFICES ASSUME TypeOK, ProcessInv, ReadingsCarryAlerts, [Next]_vars PROVE ReadingsCarryAlerts'
  OBVIOUS
<1>1. CASE UNCHANGED tables
  BY <1>1 DEF tables, ReadingsCarryAlerts, RowsOf
<1>2. CASE pc = "committing" /\ Persist
  <2>0. PICK new : new = Len(readings) + 1
    OBVIOUS
  <2> DEFINE last == Len(alerts)
             found == Classify(open[1].weather)
  <2>1. /\ Len(readings) \in Nat /\ DOMAIN readings = 1 .. Len(readings)
        /\ last \in Nat /\ DOMAIN alerts = 1 .. last
    BY PollerTypes
  <2>2. /\ DOMAIN readings' = 1 .. new
        /\ Len(alerts') = last + Len(found) /\ DOMAIN alerts' = 1 .. last + Len(found)
        /\ \A i \in DOMAIN readings : readings'[i] = readings[i]
        /\ readings'[new].location = open[1].location /\ readings'[new].weather = open[1].weather
        /\ \A a \in DOMAIN alerts : a \in DOMAIN alerts' /\ alerts'[a] = alerts[a]
        /\ \A k \in DOMAIN found :
             /\ alerts'[last + k].location = open[1].location
             /\ alerts'[last + k].reading = new
             /\ alerts'[last + k].severity = found[k].severity
             /\ alerts'[last + k].condition_type = found[k].condition_type
    BY <1>2, <2>0, PersistEffect
  <2>3. Len(found) \in Nat /\ DOMAIN found = 1 .. Len(found)
    BY ClassifyType
  <2> HIDE DEF found
  <2>4. \A a \in DOMAIN alerts' \ DOMAIN alerts : a - last \in DOMAIN found /\ a = last + (a - last)
    BY <2>1, <2>2, <2>3
  <2>5. \A a \in DOMAIN alerts' \ DOMAIN alerts : alerts'[a].reading = new
    BY <2>2, <2>4
  <2>6. \A a \in DOMAIN alerts : alerts'[a].reading \in DOMAIN readings /\ alerts'[a].reading # new
    BY <2>0, <2>1, <2>2 DEF ReadingsCarryAlerts
  <2>7. \A a \in DOMAIN alerts' : alerts'[a].reading \in DOMAIN readings'
    BY <2>0, <2>1, <2>2, <2>5, <2>6
  <2>8. ASSUME NEW i \in DOMAIN readings
        PROVE  RowsOf(i)' = RowsOf(i)
    <3>1. i # new
      BY <2>0, <2>1
    <3> QED BY <2>2, <2>5, <3>1 DEF RowsOf
  <2>9. RowsOf(new)' = last + 1 .. last + Len(found)
    <3>1. RowsOf(new)' = DOMAIN alerts' \ DOMAIN alerts
      BY <2>5, <2>6 DEF RowsOf
    <3> QED BY <2>1, <2>2, <2>3, <3>1
  <2>10. ASSUME NEW i \in DOMAIN readings'
         PROVE  \E n \in 0..Len(alerts') :
                  /\ RowsOf(i)' = n + 1 .. n + Len(Classify(readings'[i].weather))
                  /\ \A k \in DOMAIN Classify(readings'[i].weather) :
                       /\ alerts'[n + k].location = readings'[i].location
                       /\ alerts'[n + k].severity = Classify(readings'[i].weather)[k].severity
                       /\ alerts'[n + k].condition_type = Classify(readings'[i].weather)[k].condition_type
    <3>1. CASE i = new
      <4>1. Classify(readings'[i].weather) = found
        BY <2>2, <3>1 DEF found
      <4>2. last \in 0..Len(alerts')
        BY <2>1, <2>2, <2>3
      <4> WITNESS last \in 0..Len(alerts')
      <4> QED BY <2>2, <2>9, <3>1, <4>1
    <3>2. CASE i # new
      <4>1. i \in DOMAIN readings /\ readings'[i] = readings[i]
        BY <2>0, <2>1, <2>2, <3>2
      <4> DEFINE rows == Classify(readings[i].weather)
      <4>2. PICK n \in 0..Len(alerts) :
                  /\ RowsOf(i) = n + 1 .. n + Len(rows)
                  /\ \A k \in DOMAIN rows :
                       /\ alerts[n + k].location = readings[i].location
                       /\ alerts[n + k].severity = rows[k].severity
                       /\ alerts[n + k].condition_type = rows[k].condition_type
        BY <4>1 DEF ReadingsCarryAlerts
      <4>3. DOMAIN rows = 1..Len(rows) /\ Len(rows) \in Nat
        BY ClassifyType
      <4>4. rows = Classify(readings'[i].weather)
        BY <4>1
      <4> HIDE DEF rows
      <4>5. \A k \in DOMAIN rows : n + k \in DOMAIN alerts
        <5>1. \A k \in DOMAIN rows : n + k \in RowsOf(i)
          BY <4>2, <4>3
        <5> QED BY <5>1 DEF RowsOf
      <4>6. n \in 0..Len(alerts')
        BY <2>1, <2>2, <2>3
      <4>7. RowsOf(i)' = n + 1 .. n + Len(rows)
        BY <2>8, <4>1, <4>2
      <4>8. \A k \in DOMAIN rows :
                       /\ alerts'[n + k].location = readings'[i].location
                       /\ alerts'[n + k].severity = rows[k].severity
                       /\ alerts'[n + k].condition_type = rows[k].condition_type
        BY <2>2, <4>1, <4>2, <4>5
      <4> QED BY <4>4, <4>6, <4>7, <4>8
    <3> QED BY <3>1, <3>2
  <2> QED BY <2>7, <2>10 DEF ReadingsCarryAlerts
<1> QED BY <1>1, <1>2, TablesStep

\* The cycle of the reading an alert belongs to.
CycleOf(a) == readings[alerts[a].reading].cycle

\* A stored alert keeps its cycle; a new one is of the current cycle.
LEMMA AlertsKeepCycle ==
    ASSUME TypeOK, ProcessInv, ReadingsCarryAlerts, [Next]_vars
    PROVE  /\ \A a \in DOMAIN alerts : a \in DOMAIN alerts' /\ CycleOf(a)' = CycleOf(a)
           /\ \A a \in DOMAIN alerts' \ DOMAIN alerts :
                CycleOf(a)' = cycle /\ a > Len(alerts) /\ pc = "committing"
<1>1. CASE UNCHANGED tables
  BY <1>1 DEF tables, CycleOf
<1>2. CASE pc = "committing" /\ Persist
  <2> DEFINE found == Classify(open[1].weather)
             new == Len(readings) + 1
             last == Len(alerts)
  <2>1. /\ last \in Nat /\ DOMAIN alerts = 1 .. last
        /\ Len(readings) \in Nat /\ DOMAIN readings = 1 .. Len(readings)
    BY PollerTypes
  <2>2. /\ DOMAIN alerts' = 1 .. last + Len(found)
        /\ \A i \in DOMAIN readings : readings'[i] = readings[i]
        /\ \A a \in DOMAIN alerts : a \in DOMAIN alerts' /\ alerts'[a] = alerts[a]
        /\ readings'[new].cycle = cycle
        /\ \A k \in DOMAIN found : alerts'[last + k].reading = new
    BY <1>2, PersistEffect
  <2>3. Len(found) \in Nat /\ DOMAIN found = 1 .. Len(found)
    BY ClassifyType
  <2>4. \A a \in DOMAIN alerts : alerts[a].reading \in DOMAIN readings
    BY DEF ReadingsCarryAlerts
  <2> HIDE DEF found, new
  <2>5. ASSUME NEW a \in DOMAIN alerts' \ DOMAIN alerts PROVE CycleOf(a)' = cycle /\ a > last
    <3>1. a - last \in DOMAIN found /\ a = last + (a - last) /\ a > last
      BY <2>1, <2>2, <2>3
    <3>2. alerts'[a].reading = new
      BY <2>2, <3>1
    <3> QED BY <2>2, <3>1, <3>2 DEF CycleOf
  <2>6. \A a \in DOMAIN alerts : a \in DOMAIN alerts' /\ CycleOf(a)' = CycleOf(a)
    BY <2>2, <2>4 DEF CycleOf
  <2> QED BY <1>2, <2>5, <2>6
<1> QED BY <1>1, <1>2, TablesStep

\* What a publish does to the channel and to what is left to publish.
LEMMA PublishEffect ==
    ASSUME TypeOK, OutgoingInv, outgoing # <<>>, channel' = Append(channel, Head(outgoing))
    PROVE  /\ \A i \in DOMAIN channel : i \in DOMAIN channel' /\ channel'[i] = channel[i]
           /\ \A i \in DOMAIN channel' : channel'[i] \in DOMAIN alerts
           /\ \A i, j \in DOMAIN channel' : i < j => channel'[i] < channel'[j]
           /\ \A j \in DOMAIN channel' : \A k \in 2 .. Len(outgoing) : channel'[j] < outgoing[k]
           /\ InSeq(outgoing[1], channel')
<1> DEFINE n == Len(channel) + 1
<1>1. /\ channel \in Seq(Nat) /\ outgoing \in Seq(Nat)
      /\ Len(channel) \in Nat /\ DOMAIN channel = 1 .. Len(channel)
      /\ Len(outgoing) \in Nat /\ DOMAIN outgoing = 1 .. Len(outgoing)
  BY PollerTypes
<1>2. 1 \in DOMAIN outgoing /\ Head(outgoing) = outgoing[1] /\ outgoing[1] \in Nat
  BY <1>1
<1>3. /\ DOMAIN channel' = 1 .. n /\ channel'[n] = outgoing[1]
      /\ \A i \in DOMAIN channel : i \in DOMAIN channel' /\ channel'[i] = channel[i]
  BY <1>1, <1>2
<1>4. \A i \in DOMAIN channel' : i \in DOMAIN channel \/ i = n
  BY <1>1, <1>3
<1>5. /\ \A i \in DOMAIN outgoing : outgoing[i] \in DOMAIN alerts
      /\ \A i, j \in DOMAIN outgoing : i < j => outgoing[i] < outgoing[j]
      /\ \A i \in DOMAIN outgoing, j \in DOMAIN channel : channel[j] < outgoing[i]
      /\ \A i \in DOMAIN channel : channel[i] \in DOMAIN alerts
      /\ \A i, j \in DOMAIN channel : i < j => channel[i] < channel[j]
  BY DEF OutgoingInv, PublishedOncePersisted
<1>6. \A i \in DOMAIN channel' : channel'[i] \in DOMAIN alerts
  BY <1>2, <1>3, <1>4, <1>5
<1>7. ASSUME NEW i \in DOMAIN channel', NEW j \in DOMAIN channel', i < j
      PROVE  channel'[i] < channel'[j]
  <2>1. i \in DOMAIN channel
    BY <1>1, <1>3, <1>7
  <2>2. CASE j \in DOMAIN channel
    BY <1>3, <1>5, <1>7, <2>1, <2>2
  <2>3. CASE j = n
    BY <1>2, <1>3, <1>5, <2>1, <2>3
  <2> QED BY <1>4, <2>2, <2>3
<1>8. ASSUME NEW j \in DOMAIN channel', NEW k \in 2 .. Len(outgoing) PROVE channel'[j] < outgoing[k]
  <2>1. k \in DOMAIN outgoing /\ 1 < k
    BY <1>1
  <2>2. CASE j \in DOMAIN channel
    BY <1>3, <1>5, <2>1, <2>2
  <2>3. CASE j = n
    BY <1>2, <1>3, <1>5, <2>1, <2>3
  <2> QED BY <1>4, <2>2, <2>3
<1>9. InSeq(outgoing[1], channel')
  <2>1. n \in DOMAIN channel'
    BY <1>1, <1>3
  <2> QED BY <1>3, <2>1 DEF InSeq
<1> QED BY <1>3, <1>6, <1>7, <1>8, <1>9

LEMMA OutgoingStep ==
    TypeOK /\ ProcessInv /\ ReadingsCarryAlerts /\ OutgoingInv /\ [Next]_vars => OutgoingInv'
<1> SUFFICES ASSUME TypeOK, ProcessInv, ReadingsCarryAlerts, OutgoingInv, [Next]_vars
             PROVE  OutgoingInv'
  OBVIOUS
<1>0. /\ \A a \in DOMAIN alerts : a \in DOMAIN alerts' /\ CycleOf(a)' = CycleOf(a)
      /\ \A a \in DOMAIN alerts' \ DOMAIN alerts : CycleOf(a)' = cycle /\ a > Len(alerts)
  BY AlertsKeepCycle
<1>1. /\ Len(channel) \in Nat /\ DOMAIN channel = 1 .. Len(channel)
      /\ Len(outgoing) \in Nat /\ DOMAIN outgoing = 1 .. Len(outgoing)
      /\ outgoing \in Seq(Nat) /\ channel \in Seq(Nat)
      /\ Len(alerts) \in Nat /\ DOMAIN alerts = 1 .. Len(alerts)
  BY PollerTypes
<1>2. CASE UNCHANGED <<channel, outgoing, cycle>>
  <2>1. \A i \in DOMAIN outgoing : outgoing[i] \in DOMAIN alerts' /\ CycleOf(outgoing[i])' = cycle
    <3>1. \A i \in DOMAIN outgoing : outgoing[i] \in DOMAIN alerts /\ CycleOf(outgoing[i]) = cycle
      BY DEF OutgoingInv, CycleOf
    <3> QED BY <1>0, <1>2, <3>1 DEF CycleOf
  <2>2. PublishedOncePersisted'
    BY <1>0, <1>2 DEF OutgoingInv, PublishedOncePersisted
  <2> QED BY <1>2, <2>1, <2>2 DEF OutgoingInv, CycleOf
<1>3. ASSUME UNCHANGED channel, outgoing' = <<>> PROVE OutgoingInv'
  BY <1>0, <1>3 DEF OutgoingInv, PublishedOncePersisted
<1>4. CASE StartCycle \/ SelectRaises
  BY <1>3, <1>4 DEF StartCycle, SelectRaises, ProcessInv
<1>5. CASE (\E l \in Locations : FetchRaises(l)) \/ CommitRaises \/ Kill
  BY <1>3, <1>5 DEF FetchRaises, CommitRaises, Kill, Abort
<1>6. CASE Commit
  <2>0. PICK last, n : last = Len(alerts) /\ n = Len(Classify(open[1].weather))
    OBVIOUS
  <2>1. n \in Nat /\ last \in Nat
    BY <2>0, ClassifyType, PollerTypes
  <2>2. DOMAIN Classify(open[1].weather) = 1 .. n
    BY <2>0, ClassifyType
  <2>3. /\ DOMAIN AlertsOf(open[1]) = 1 .. n
        /\ DOMAIN alerts' = 1 .. last + n
    BY <1>6, <2>0, <2>2, PersistEffect DEF Commit
  <2>4. outgoing' = [i \in 1 .. n |-> last + i] /\ UNCHANGED <<channel, cycle>>
    BY <1>6, <2>0, <2>3 DEF Commit
  <2>5. ASSUME NEW i \in 1 .. n
        PROVE  last + i \in DOMAIN alerts' /\ CycleOf(last + i)' = cycle
    <3>1. last + i \in DOMAIN alerts' \ DOMAIN alerts
      BY <1>1, <2>0, <2>1, <2>3
    <3> QED BY <1>0, <3>1
  <2>6. PublishedOncePersisted'
    BY <1>0, <2>4 DEF OutgoingInv, PublishedOncePersisted
  <2>7. \A j \in DOMAIN channel : channel[j] \in 1 .. last
    BY <1>1, <2>0 DEF OutgoingInv, PublishedOncePersisted
  <2>8. ASSUME NEW i \in DOMAIN outgoing'
        PROVE  /\ outgoing'[i] \in DOMAIN alerts' /\ CycleOf(outgoing[i])' = cycle'
               /\ \A j \in DOMAIN outgoing' : i < j => outgoing'[i] < outgoing'[j]
               /\ \A j \in DOMAIN channel' : channel'[j] < outgoing'[i]
    <3>1. i \in 1 .. n /\ outgoing'[i] = last + i /\ \A j \in 1 .. n : outgoing'[j] = last + j
      BY <2>4
    <3>2. CycleOf(outgoing[i])' = cycle'
      BY <2>4, <2>5, <3>1 DEF CycleOf
    <3> QED BY <2>1, <2>4, <2>5, <2>7, <3>1, <3>2
  <2> QED BY <2>6, <2>8 DEF OutgoingInv, CycleOf
<1>7. ASSUME outgoing # <<>>, channel' = Append(channel, Head(outgoing)), UNCHANGED <<tables, cycle>>,
             outgoing' \in {<<>>, Tail(outgoing)}
      PROVE  OutgoingInv'
  <2>1. /\ \A i \in DOMAIN channel' : channel'[i] \in DOMAIN alerts
        /\ \A i, j \in DOMAIN channel' : i < j => channel'[i] < channel'[j]
        /\ \A j \in DOMAIN channel' : \A k \in 2 .. Len(outgoing) : channel'[j] < outgoing[k]
    BY <1>7, PublishEffect
  <2>2. UNCHANGED <<readings, alerts, cycle>>
    BY <1>7 DEF tables
  <2>3. PublishedOncePersisted'
    BY <2>1, <2>2 DEF PublishedOncePersisted
  <2>4. CASE outgoing' = <<>>
    BY <2>3, <2>4 DEF OutgoingInv
  <2>5. CASE outgoing' = Tail(outgoing)
    <3>1. /\ DOMAIN outgoing' = 1 .. Len(outgoing) - 1
          /\ \A i \in DOMAIN outgoing' : outgoing'[i] = outgoing[i + 1]
      BY <1>1, <1>7, <2>5
    <3>2. \A i \in DOMAIN outgoing' : i + 1 \in DOMAIN outgoing /\ i + 1 \in 2 .. Len(outgoing)
      BY <1>1, <3>1
    <3>3. ASSUME NEW i \in DOMAIN outgoing'
          PROVE  /\ outgoing'[i] \in DOMAIN alerts /\ readings[alerts[outgoing'[i]].reading].cycle = cycle
                 /\ \A j \in DOMAIN outgoing' : i < j => outgoing'[i] < outgoing'[j]
                 /\ \A j \in DOMAIN channel' : channel'[j] < outgoing'[i]
      <4>1. \A j \in DOMAIN outgoing' : i < j => outgoing'[i] < outgoing'[j]
        <5>1. \A j \in DOMAIN outgoing' : i < j => i + 1 < j + 1
          BY <1>1, <3>1
        <5> QED BY <3>1, <3>2, <5>1 DEF OutgoingInv
      <4> QED BY <2>1, <3>1, <3>2, <4>1 DEF OutgoingInv
    <3> QED BY <2>2, <2>3, <3>3 DEF OutgoingInv
  <2> QED BY <1>7, <2>4, <2>5
<1>8. CASE Publish \/ PublishRaises
  <2>1. outgoing # <<>> /\ UNCHANGED <<tables, cycle>>
    BY <1>8 DEF Publish, PublishRaises
  <2>2. CASE channel' = Append(channel, Head(outgoing))
    BY <1>7, <1>8, <2>1, <2>2 DEF Publish, PublishRaises, Abort
  <2>3. CASE UNCHANGED channel /\ PublishRaises
    BY <1>3, <2>3 DEF PublishRaises, Abort
  <2> QED BY <1>8, <2>2, <2>3 DEF Publish, PublishRaises
<1> QED
  BY <1>2, <1>4, <1>5, <1>6, <1>8
  DEF Next, Step, EndCycle, FetchFails, Fetch, FinishLocation, Restart, Watch, Unwatch, vars, locals

\* What is published stays so, and what leaves the outgoing list has been
\* published or is of a cycle that was cut short.
LEMMA ForgottenStep ==
    TypeOK /\ ProcessInv /\ ReadingsCarryAlerts /\ OutgoingInv /\ NoAlertForgotten /\ [Next]_vars
      => NoAlertForgotten'
<1> SUFFICES ASSUME TypeOK, ProcessInv, ReadingsCarryAlerts, OutgoingInv, NoAlertForgotten, [Next]_vars,
                    NEW a \in DOMAIN alerts'
             PROVE  InSeq(a, channel') \/ InSeq(a, outgoing') \/ CycleOf(a)' \in aborted'
  BY DEF NoAlertForgotten, InSeq, CycleOf
<1>0. /\ a \in DOMAIN alerts => CycleOf(a)' = CycleOf(a)
      /\ a \notin DOMAIN alerts => CycleOf(a)' = cycle /\ a > Len(alerts) /\ pc = "committing"
  BY AlertsKeepCycle
<1>1. /\ Len(channel) \in Nat /\ DOMAIN channel = 1 .. Len(channel)
      /\ Len(outgoing) \in Nat /\ DOMAIN outgoing = 1 .. Len(outgoing)
      /\ outgoing \in Seq(Nat) /\ channel \in Seq(Nat)
      /\ Len(alerts) \in Nat /\ DOMAIN alerts = 1 .. Len(alerts)
      /\ cycle \in Nat
  BY PollerTypes
<1>2. a \in DOMAIN alerts => InSeq(a, channel) \/ InSeq(a, outgoing) \/ CycleOf(a) \in aborted
  BY DEF NoAlertForgotten, CycleOf
<1>3. InSeq(a, outgoing) => CycleOf(a) = cycle /\ pc = "publishing" /\ a \in DOMAIN alerts
  BY <1>1 DEF InSeq, OutgoingInv, ProcessInv, CycleOf
<1>4. aborted \subseteq aborted'
  BY DEF Next, Step, StartCycle, SelectRaises, EndCycle, FetchFails, Fetch, FetchRaises, Commit,
         CommitRaises, Publish, PublishRaises, FinishLocation, Kill, Restart, Watch, Unwatch, Abort, vars
<1>5. InSeq(a, channel) => InSeq(a, channel')
  <2>1. CASE UNCHANGED channel
    BY <2>1
  <2>2. CASE outgoing # <<>> /\ channel' = Append(channel, Head(outgoing))
    <3>1. \A i \in DOMAIN channel : i \in DOMAIN channel' /\ channel'[i] = channel[i]
      BY <2>2, PublishEffect
    <3> QED BY <3>1 DEF InSeq
  <2> QED
    BY <2>1, <2>2
    DEF Next, Step, StartCycle, SelectRaises, EndCycle, FetchFails, Fetch, FetchRaises, Commit,
        CommitRaises, Publish, PublishRaises, FinishLocation, Kill, Restart, Watch, Unwatch, vars
\* A cycle that an exception or a kill ends is among the aborted.
<1>6. ASSUME aborted' = aborted \cup {cycle} PROVE InSeq(a, channel') \/ CycleOf(a)' \in aborted'
  BY <1>0, <1>2, <1>3, <1>5, <1>6
<1>7. ASSUME UNCHANGED outgoing, a \in DOMAIN alerts
      PROVE  InSeq(a, channel') \/ InSeq(a, outgoing') \/ CycleOf(a)' \in aborted'
  BY <1>0, <1>2, <1>4, <1>5, <1>7
<1>8. CASE Commit
  <2>1. CASE a \in DOMAIN alerts
    <3>1. ~ InSeq(a, outgoing)
      BY <1>3, <1>8 DEF Commit
    <3> QED BY <1>0, <1>2, <1>4, <1>5, <2>1, <3>1
  <2>2. CASE a \notin DOMAIN alerts
    <3> DEFINE n == Len(Classify(open[1].weather))
               k == a - Len(alerts)
    <3>1. n \in Nat /\ DOMAIN Classify(open[1].weather) = 1 .. n
      BY ClassifyType
    <3>2. DOMAIN AlertsOf(open[1]) = 1 .. n /\ DOMAIN alerts' = 1 .. Len(alerts) + n
      BY <1>8, <3>1, PersistEffect DEF Commit
    <3>3. outgoing' = [i \in 1 .. n |-> Len(alerts) + i]
      BY <1>8, <3>2 DEF Commit
    <3>4. k \in 1 .. n /\ Len(alerts) + k = a
      BY <1>0, <1>1, <2>2, <3>1, <3>2
    <3>5. k \in DOMAIN outgoing' /\ outgoing'[k] = a
      BY <3>3, <3>4
    <3> QED BY <3>5 DEF InSeq
  <2> QED BY <2>1, <2>2
<1>9. CASE Publish
  <2>1. a \in DOMAIN alerts
    BY <1>0, <1>9 DEF Publish
  <2>2. CASE InSeq(a, outgoing)
    <3>1. PICK i \in DOMAIN outgoing : outgoing[i] = a
      BY <2>2 DEF InSeq
    <3>2. CASE i = 1
      BY <1>9, <3>1, <3>2, PublishEffect DEF Publish
    <3>3. CASE i # 1
      <4>1. i - 1 \in DOMAIN outgoing' /\ outgoing'[i - 1] = outgoing[i]
        BY <1>1, <1>9, <3>1, <3>3 DEF Publish
      <4> QED BY <3>1, <4>1 DEF InSeq
    <3> QED BY <3>2, <3>3
  <2>3. CASE ~ InSeq(a, outgoing)
    BY <1>0, <1>2, <1>4, <1>5, <2>1, <2>3
  <2> QED BY <2>2, <2>3
<1>10. CASE (\E l \in Locations : FetchRaises(l)) \/ CommitRaises \/ PublishRaises
  BY <1>6, <1>10 DEF FetchRaises, CommitRaises, PublishRaises, Abort
<1>11. CASE Kill
  <2>1. CASE pc = "asleep"
    BY <1>0, <1>2, <1>3, <1>4, <1>5, <2>1
  <2>2. CASE pc # "asleep"
    BY <1>6, <1>11, <2>2 DEF Kill
  <2> QED BY <2>1, <2>2
<1>12. CASE StartCycle \/ SelectRaises
  BY <1>0, <1>2, <1>3, <1>4, <1>5, <1>12 DEF StartCycle, SelectRaises
<1> QED
  BY <1>0, <1>7, <1>8, <1>9, <1>10, <1>11, <1>12
  DEF Next, Step, EndCycle, FetchFails, Fetch, FinishLocation, Restart, Watch, Unwatch, vars, locals, tables

-----------------------------------------------------------------------------
(* The theorems.                                                           *)

\* The invariant holds in every reachable state.
LEMMA PollerInvariant == Spec => [](TypeOK /\ PollerInv)
<1>1. Init => TypeOK
  BY PollerAssumption DEF Init, TypeOK, PCs
<1>2. Init => PollerInv
  BY DEF Init, PollerInv, ProcessInv, CycleInv, OutgoingInv, OnePollPerCycle, PublishedOncePersisted,
         ReadingsCarryAlerts, NoAlertForgotten
<1>3. TypeOK /\ PollerInv /\ [Next]_vars => (TypeOK /\ PollerInv)'
  BY TypeStep, ProcessStep, CycleStep, CarryStep, OutgoingStep, ForgottenStep DEF PollerInv
<1> QED BY <1>1, <1>2, <1>3, PTL DEF Spec

\* What others see of a step: rows of the alerts table stay as they are, and what
\* is published is a row that is in the table.
LEMMA ChannelStep ==
    ASSUME TypeOK, PollerInv, [Next]_vars
    PROVE  /\ \A a \in DOMAIN alerts : a \in DOMAIN alerts' /\ alerts'[a] = alerts[a]
           /\ \/ UNCHANGED channel
              \/ \E a \in DOMAIN alerts : channel' = Append(channel, a)
<1>0. ProcessInv /\ OutgoingInv
  BY DEF PollerInv
<1>1. \A a \in DOMAIN alerts : a \in DOMAIN alerts' /\ alerts'[a] = alerts[a]
  <2>1. CASE UNCHANGED tables
    BY <2>1 DEF tables
  <2>2. CASE pc = "committing" /\ Persist
    BY <1>0, <2>2, PersistEffect
  <2> QED BY <2>1, <2>2, TablesStep
<1>2. UNCHANGED channel \/ (outgoing # <<>> /\ channel' = Append(channel, Head(outgoing)))
  BY DEF Next, Step, StartCycle, SelectRaises, EndCycle, FetchFails, Fetch, FetchRaises, Commit,
         CommitRaises, Publish, PublishRaises, FinishLocation, Kill, Restart, Watch, Unwatch, vars
<1>3. ASSUME outgoing # <<>> PROVE Head(outgoing) \in DOMAIN alerts
  <2>1. 1 \in DOMAIN outgoing /\ Head(outgoing) = outgoing[1]
    BY <1>3, PollerTypes
  <2> QED BY <1>0, <2>1 DEF OutgoingInv
<1> QED BY <1>1, <1>2, <1>3

\* The process, its transaction and the tables are always well-formed.
THEOREM PollerTypeCorrect == Spec => []TypeOK
BY PollerInvariant, PTL

\* Whatever fails and whenever the process is killed, a stored reading has exactly
\* the alerts the engine raises for it, one after another.
THEOREM ReadingsAlwaysCarryAlerts == Spec => []ReadingsCarryAlerts
<1>1. PollerInv => ReadingsCarryAlerts
  BY DEF PollerInv
<1> QED BY <1>1, PollerInvariant, PTL

\* The channel carries stored alerts only, in the order of the table, none twice.
THEOREM NothingPublishedTwice == Spec => []PublishedOncePersisted
<1>1. PollerInv => PublishedOncePersisted
  BY DEF PollerInv, OutgoingInv
<1> QED BY <1>1, PollerInvariant, PTL

\* A stored alert is published, waits to be, or is of a cycle that was cut short.
THEOREM NoneForgotten == Spec => []NoAlertForgotten
<1>1. PollerInv => NoAlertForgotten
  BY DEF PollerInv
<1> QED BY <1>1, PollerInvariant, PTL

\* A cycle stores at most one reading of a location.
THEOREM PolledAtMostOnce == Spec => []OnePollPerCycle
<1>1. PollerInv => OnePollPerCycle
  BY DEF PollerInv, CycleInv
<1> QED BY <1>1, PollerInvariant, PTL
=============================================================================
