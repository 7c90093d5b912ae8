--------------------------- MODULE SeverityProofs ---------------------------
(***************************************************************************)
(* What the severity engine promises, for every integer temperature, wind, *)
(* precipitation and weather code.                                         *)
(***************************************************************************)
EXTENDS SeverityProperties, TLAPS

Tiers == WATCH..SEVERE

\* The thresholds get harder from tier to tier.
Rising(thresholds) ==
    /\ thresholds \in [Tiers -> Int]
    /\ thresholds[WATCH] < thresholds[WARNING] /\ thresholds[WARNING] < thresholds[SEVERE]

Falling(thresholds) ==
    /\ thresholds \in [Tiers -> Int]
    /\ thresholds[WATCH] > thresholds[WARNING] /\ thresholds[WARNING] > thresholds[SEVERE]

\* SEVERITY_RULES is well-formed.
LEMMA RulesAreMonotone ==
    Rising(ExtremeHeat) /\ Falling(ExtremeCold) /\ Rising(HighWind) /\ Rising(HeavyPrecipitation)
BY DEF Rising, Falling, Tiers, WATCH, WARNING, SEVERE,
       ExtremeHeat, ExtremeCold, HighWind, HeavyPrecipitation

\* The tier found for a quantity that is bad when high is the highest one entered.
LEMMA HighestTierUpwards ==
    ASSUME NEW thresholds, Rising(thresholds), NEW value \in Int
    PROVE  /\ HighestTierMet(value, thresholds, FALSE) \in 0..SEVERE
           /\ \A t \in Tiers : t <= HighestTierMet(value, thresholds, FALSE)
                               <=> value >= thresholds[t]
BY DEF HighestTierMet, Crossed, WATCH, WARNING, SEVERE, Tiers, Rising

\* The same for one that is bad when low.
LEMMA HighestTierDownwards ==
    ASSUME NEW thresholds, Falling(thresholds), NEW value \in Int
    PROVE  /\ HighestTierMet(value, thresholds, TRUE) \in 0..SEVERE
           /\ \A t \in Tiers : t <= HighestTierMet(value, thresholds, TRUE)
                               <=> value <= thresholds[t]
BY DEF HighestTierMet, Crossed, WATCH, WARNING, SEVERE, Tiers, Falling

LEMMA CodeTierType == ASSUME NEW code PROVE CodeTier(code) \in 0..SEVERE
BY DEF CodeTier, WATCH, WARNING, SEVERE

\* No temperature is both hot and cold.
LEMMA HeatOrCold ==
    ASSUME NEW value \in Int
    PROVE  \/ HighestTierMet(value, ExtremeHeat, FALSE) = 0
           \/ HighestTierMet(value, ExtremeCold, TRUE) = 0
BY DEF HighestTierMet, Crossed, ExtremeHeat, ExtremeCold, WATCH, WARNING, SEVERE

-----------------------------------------------------------------------------
(* The list of alerts.                                                     *)

\* The tier a reading enters under each condition.
Tier(r) == [c \in Conditions |->
    IF c = "EXTREME_HEAT" THEN HighestTierMet(r.temperature, ExtremeHeat, FALSE)
    ELSE IF c = "EXTREME_COLD" THEN HighestTierMet(r.temperature, ExtremeCold, TRUE)
    ELSE IF c = "HIGH_WIND" THEN HighestTierMet(r.wind, HighWind, FALSE)
    ELSE IF c = "HEAVY_PRECIPITATION" THEN HighestTierMet(r.precipitation, HeavyPrecipitation, FALSE)
    ELSE CodeTier(r.code)]

AlertRecords == [severity : Tiers, condition_type : Conditions]

\* alerts has one entry for each condition of D with a tier, and no other.
Lists(alerts, tier, D) ==
    /\ alerts \in Seq(AlertRecords)
    /\ \A i \in DOMAIN alerts :
         /\ alerts[i].condition_type \in D
         /\ alerts[i].severity = tier[alerts[i].condition_type]
    /\ \A c \in D : tier[c] # 0 => \E i \in DOMAIN alerts : alerts[i].condition_type = c
    /\ \A i, j \in DOMAIN alerts : alerts[i].condition_type = alerts[j].condition_type => i = j

\* What is listed under a condition has one of the three tiers.
LEMMA ListsType ==
    ASSUME NEW alerts, NEW tier, NEW D, Lists(alerts, tier, D), NEW i \in DOMAIN alerts
    PROVE  /\ alerts[i].condition_type \in Conditions
           /\ alerts[i].severity = tier[alerts[i].condition_type]
           /\ tier[alerts[i].condition_type] # 0
<1>1. alerts[i] \in AlertRecords
  BY DEF Lists
<1>2. alerts[i].severity # 0 /\ alerts[i].condition_type \in Conditions
  BY <1>1 DEF AlertRecords, Tiers, WATCH, SEVERE
<1> QED BY <1>2 DEF Lists

\* One more condition is listed.
LEMMA ListsMore ==
    ASSUME NEW tier \in [Conditions -> 0..SEVERE], NEW D \in SUBSET Conditions,
           NEW alerts, Lists(alerts, tier, D), NEW c \in Conditions \ D
    PROVE  Lists(alerts \o Alerts(tier[c], c), tier, D \cup {c})
<1> DEFINE new == [severity |-> tier[c], condition_type |-> c]
           longer == alerts \o Alerts(tier[c], c)
<1> SUFFICES Lists(longer, tier, D \cup {c})
  OBVIOUS
<1> HIDE DEF longer
<1>1. CASE tier[c] = 0
  <2>1. longer = alerts
    BY <1>1 DEF Alerts, Lists, longer
  <2> QED BY <1>1, <2>1 DEF Lists
<1>2. CASE tier[c] # 0
  <2>1. new \in AlertRecords
    BY <1>2 DEF AlertRecords, Tiers, WATCH, SEVERE
  <2>2. longer = alerts \o <<new>>
    BY <1>2 DEF Alerts, longer
  <2> HIDE DEF new
  <2>3. /\ longer \in Seq(AlertRecords)
        /\ DOMAIN longer = 1 .. Len(alerts) + 1
        /\ DOMAIN alerts = 1 .. Len(alerts)
        /\ \A i \in 1..Len(alerts) : longer[i] = alerts[i]
        /\ longer[Len(alerts) + 1] = new
        /\ Len(alerts) \in Nat
    BY <2>1, <2>2 DEF Lists
  <2>4. new.severity = tier[c] /\ new.condition_type = c
    BY DEF new
  <2>5. \A i \in DOMAIN longer :
          \/ i \in DOMAIN alerts /\ longer[i] = alerts[i]
          \/ i = Len(alerts) + 1 /\ longer[i] = new
    BY <2>3
  <2>6. \A i \in DOMAIN alerts : i \in DOMAIN longer /\ longer[i] = alerts[i]
    BY <2>3
  <2>7. ASSUME NEW d \in D \cup {c}, tier[d] # 0
        PROVE  \E i \in DOMAIN longer : longer[i].condition_type = d
    BY <2>3, <2>4, <2>6, <2>7 DEF Lists
  <2>8. ASSUME NEW i \in DOMAIN longer, NEW j \in DOMAIN longer,
               longer[i].condition_type = longer[j].condition_type
        PROVE  i = j
    <3>1. \A k \in DOMAIN alerts : alerts[k].condition_type # c
      BY DEF Lists
    <3>2. \A k, m \in DOMAIN alerts : alerts[k].condition_type = alerts[m].condition_type => k = m
      BY DEF Lists
    <3> QED BY <2>4, <2>5, <2>8, <3>1, <3>2
  <2>9. \A i \in DOMAIN longer : /\ longer[i].condition_type \in D \cup {c}
                                /\ longer[i].severity = tier[longer[i].condition_type]
    BY <2>4, <2>5 DEF Lists
  <2> QED BY <2>3, <2>7, <2>8, <2>9 DEF Lists
<1> QED BY <1>1, <1>2

\* Each tier is None or one of the three.
LEMMA TierType == ASSUME NEW r \in Readings PROVE Tier(r) \in [Conditions -> 0..SEVERE]
<1>1. /\ HighestTierMet(r.temperature, ExtremeHeat, FALSE) \in 0..SEVERE
      /\ HighestTierMet(r.temperature, ExtremeCold, TRUE) \in 0..SEVERE
      /\ HighestTierMet(r.wind, HighWind, FALSE) \in 0..SEVERE
      /\ HighestTierMet(r.precipitation, HeavyPrecipitation, FALSE) \in 0..SEVERE
  BY HighestTierUpwards, HighestTierDownwards, RulesAreMonotone DEF Readings
<1> QED BY <1>1, CodeTierType DEF Tier

\* classify() lists every condition once.
LEMMA ClassifyLists == ASSUME NEW r \in Readings PROVE Lists(Classify(r), Tier(r), Conditions)
<1> DEFINE tier == Tier(r)
           heat == <<>> \o Alerts(tier["EXTREME_HEAT"], "EXTREME_HEAT")
           cold == heat \o Alerts(tier["EXTREME_COLD"], "EXTREME_COLD")
           wind == cold \o Alerts(tier["HIGH_WIND"], "HIGH_WIND")
           rain == wind \o Alerts(tier["HEAVY_PRECIPITATION"], "HEAVY_PRECIPITATION")
           code == rain \o Alerts(tier["SEVERE_WEATHER_CODE"], "SEVERE_WEATHER_CODE")
<1>1. tier \in [Conditions -> 0..SEVERE]
  BY TierType
<1>2. Lists(<<>>, tier, {})
  BY DEF Lists
<1>3. code = Classify(r)
  <2>1. heat = Alerts(tier["EXTREME_HEAT"], "EXTREME_HEAT")
    BY DEF Alerts
  <2> HIDE DEF heat
  <2> QED BY <2>1 DEF Classify, Tier, Conditions
<1> HIDE DEF tier
<1>4. Lists(heat, tier, {} \cup {"EXTREME_HEAT"})
  BY <1>1, <1>2, ListsMore DEF Conditions
<1> HIDE DEF heat
<1>5. Lists(cold, tier, {"EXTREME_HEAT"} \cup {"EXTREME_COLD"})
  BY <1>1, <1>4, ListsMore DEF Conditions
<1> HIDE DEF cold
<1>6. Lists(wind, tier, {"EXTREME_HEAT", "EXTREME_COLD"} \cup {"HIGH_WIND"})
  BY <1>1, <1>5, ListsMore DEF Conditions
<1> HIDE DEF wind
<1>7. Lists(rain, tier, {"EXTREME_HEAT", "EXTREME_COLD", "HIGH_WIND"} \cup {"HEAVY_PRECIPITATION"})
  BY <1>1, <1>6, ListsMore DEF Conditions
<1> HIDE DEF rain
<1>8. Lists(code, tier, {"EXTREME_HEAT", "EXTREME_COLD", "HIGH_WIND", "HEAVY_PRECIPITATION"}
                          \cup {"SEVERE_WEATHER_CODE"})
  BY <1>1, <1>7, ListsMore DEF Conditions
<1> HIDE DEF code
<1> QED BY <1>3, <1>8 DEF Conditions, tier

\* What a category is given is the tier of its condition; of heat and cold at most
\* one has a tier.
LEMMA SeverityReported ==
    ASSUME NEW r \in Readings
    PROVE  /\ SeverityIn(Classify(r), "HIGH_WIND") = Tier(r)["HIGH_WIND"]
           /\ SeverityIn(Classify(r), "HEAVY_PRECIPITATION") = Tier(r)["HEAVY_PRECIPITATION"]
           /\ SeverityIn(Classify(r), "TEMPERATURE") =
                IF Tier(r)["EXTREME_HEAT"] # 0 THEN Tier(r)["EXTREME_HEAT"] ELSE Tier(r)["EXTREME_COLD"]
<1> DEFINE alerts == Classify(r)
           tier == Tier(r)
           at(category) == CHOOSE j \in DOMAIN alerts : Category(alerts[j].condition_type) = category
<1>1. Lists(alerts, tier, Conditions) /\ tier \in [Conditions -> 0..SEVERE]
  BY ClassifyLists, TierType
<1>2. tier["EXTREME_HEAT"] = 0 \/ tier["EXTREME_COLD"] = 0
  BY HeatOrCold DEF Tier, Conditions, Readings
<1> HIDE DEF alerts, tier
<1>3. ASSUME NEW category, \E j \in DOMAIN alerts : Category(alerts[j].condition_type) = category
      PROVE  /\ at(category) \in DOMAIN alerts
             /\ Category(alerts[at(category)].condition_type) = category
  BY <1>3
<1>4. ASSUME NEW i \in DOMAIN alerts
      PROVE  /\ alerts[i].condition_type \in Conditions
             /\ alerts[i].severity = tier[alerts[i].condition_type]
             /\ tier[alerts[i].condition_type] # 0
  BY <1>1, ListsType
<1>5. \A c \in Conditions : tier[c] # 0 => \E i \in DOMAIN alerts : alerts[i].condition_type = c
  BY <1>1 DEF Lists
<1>6. ASSUME NEW c \in {"HIGH_WIND", "HEAVY_PRECIPITATION"} PROVE SeverityIn(alerts, c) = tier[c]
  <2>1. \A d \in Conditions : Category(d) = c <=> d = c
    BY DEF Category, Conditions
  <2>2. c \in Conditions
    BY DEF Conditions
  <2>3. CASE \E j \in DOMAIN alerts : Category(alerts[j].condition_type) = c
    <3>1. SeverityIn(alerts, c) = alerts[at(c)].severity
      BY <2>3 DEF SeverityIn
    <3>2. at(c) \in DOMAIN alerts /\ Category(alerts[at(c)].condition_type) = c
      BY <1>3, <2>3
    <3> HIDE DEF at
    <3> QED BY <1>4, <2>1, <3>1, <3>2
  <2>4. CASE ~ \E j \in DOMAIN alerts : Category(alerts[j].condition_type) = c
    BY <1>5, <2>1, <2>2, <2>4 DEF SeverityIn
  <2> QED BY <2>3, <2>4
<1>7. SeverityIn(alerts, "TEMPERATURE") =
        IF tier["EXTREME_HEAT"] # 0 THEN tier["EXTREME_HEAT"] ELSE tier["EXTREME_COLD"]
  <2>1. \A d \in Conditions : Category(d) = "TEMPERATURE" <=> d \in {"EXTREME_HEAT", "EXTREME_COLD"}
    BY DEF Category, Conditions
  <2>2. {"EXTREME_HEAT", "EXTREME_COLD"} \subseteq Conditions
    BY DEF Conditions
  <2>3. CASE \E j \in DOMAIN alerts : Category(alerts[j].condition_type) = "TEMPERATURE"
    <3>1. SeverityIn(alerts, "TEMPERATURE") = alerts[at("TEMPERATURE")].severity
      BY <2>3 DEF SeverityIn
    <3>2. /\ at("TEMPERATURE") \in DOMAIN alerts
          /\ Category(alerts[at("TEMPERATURE")].condition_type) = "TEMPERATURE"
      BY <1>3, <2>3
    <3> HIDE DEF at
    <3> QED BY <1>2, <1>4, <2>1, <3>1, <3>2
  <2>4. CASE ~ \E j \in DOMAIN alerts : Category(alerts[j].condition_type) = "TEMPERATURE"
    BY <1>5, <2>1, <2>2, <2>4 DEF SeverityIn
  <2> QED BY <2>3, <2>4
<1> QED BY <1>6, <1>7 DEF alerts, tier

-----------------------------------------------------------------------------
(* The theorems.                                                           *)

\* Every quantity of the reading is an integer.
LEMMA ReadingType == Spec => [](reading \in Readings)
<1>1. Init => reading \in Readings
  BY SeverityAssumption DEF Init, Readings
<1>2. reading \in Readings /\ [Next]_reading => (reading \in Readings)'
  BY SeverityAssumption
  DEF Next, TemperatureChanges, WindChanges, PrecipitationChanges, CodeChanges, Readings
<1> QED BY <1>1, <1>2, PTL DEF Spec

\* classify() never raises two alerts of one category: no temperature crosses a
\* threshold of heat and one of cold, and every condition is listed once.
THEOREM NoCategoryTwice == Spec => []OnePerCategory
<1>1. ASSUME reading \in Readings PROVE OnePerCategory
  <2> DEFINE alerts == Classify(reading)
             tier == Tier(reading)
  <2>1. Lists(alerts, tier, Conditions)
    BY <1>1, ClassifyLists
  <2>2. tier["EXTREME_HEAT"] = 0 \/ tier["EXTREME_COLD"] = 0
    BY <1>1, HeatOrCold DEF Tier, Conditions, Readings
  <2> HIDE DEF alerts, tier
  <2>3. SUFFICES ASSUME NEW i \in DOMAIN alerts, NEW j \in DOMAIN alerts,
                        Category(alerts[i].condition_type) = Category(alerts[j].condition_type)
                 PROVE  i = j
    BY DEF OnePerCategory, alerts
  <2>4. \A k \in {i, j} : /\ alerts[k].condition_type \in Conditions
                          /\ tier[alerts[k].condition_type] # 0
    BY <2>1, ListsType
  <2>5. alerts[i].condition_type = alerts[j].condition_type
    BY <2>2, <2>3, <2>4 DEF Category, Conditions
  <2> QED BY <2>1, <2>5 DEF Lists
<1> QED BY <1>1, ReadingType, PTL

\* An alert reports the highest tier the reading has entered: every threshold up
\* to it is crossed and none above it.
THEOREM HighestTierIsReported == Spec => []HighestTierReported
<1>1. ASSUME reading \in Readings PROVE HighestTierReported
  <2> DEFINE alerts == Classify(reading)
             heat == HighestTierMet(reading.temperature, ExtremeHeat, FALSE)
             cold == HighestTierMet(reading.temperature, ExtremeCold, TRUE)
             wind == HighestTierMet(reading.wind, HighWind, FALSE)
             rain == HighestTierMet(reading.precipitation, HeavyPrecipitation, FALSE)
  <2>0. reading.temperature \in Int /\ reading.wind \in Int /\ reading.precipitation \in Int
    BY <1>1 DEF Readings
  <2>1. /\ SeverityIn(alerts, "HIGH_WIND") = wind
        /\ SeverityIn(alerts, "HEAVY_PRECIPITATION") = rain
        /\ SeverityIn(alerts, "TEMPERATURE") = IF heat # 0 THEN heat ELSE cold
    BY <1>1, SeverityReported DEF Tier, Conditions
  <2>2. /\ heat \in 0..SEVERE
        /\ \A t \in Tiers : t <= heat <=> reading.temperature >= ExtremeHeat[t]
        /\ \A t \in Tiers : t <= wind <=> reading.wind >= HighWind[t]
        /\ \A t \in Tiers : t <= rain <=> reading.precipitation >= HeavyPrecipitation[t]
    BY <2>0, HighestTierUpwards, RulesAreMonotone
  <2>3. /\ cold \in 0..SEVERE
        /\ \A t \in Tiers : t <= cold <=> reading.temperature <= ExtremeCold[t]
    BY <2>0, HighestTierDownwards, RulesAreMonotone
  <2> HIDE DEF heat, cold, wind, rain, alerts
  <2>4. reading.temperature > 160 => cold = 0
    BY <2>0, <2>3 DEF ExtremeCold, Tiers, WATCH, WARNING, SEVERE
  <2>5. reading.temperature <= 160 => heat = 0
    BY <2>0, <2>2 DEF ExtremeHeat, Tiers, WATCH, WARNING, SEVERE
  <2>6. \A t \in Tiers : -reading.temperature >= -ExtremeCold[t] <=> reading.temperature <= ExtremeCold[t]
    BY <2>0, RulesAreMonotone DEF Falling
  <2> DEFINE T == SeverityIn(alerts, "TEMPERATURE")
  <2>7. \A t \in Tiers : reading.temperature > 160 => (t <= T <=> reading.temperature >= ExtremeHeat[t])
    BY <2>0, <2>1, <2>2, <2>4
  <2>8. \A t \in Tiers : ~(reading.temperature > 160) =>
                           (t <= T <=> -reading.temperature >= -ExtremeCold[t])
    BY <2>0, <2>1, <2>3, <2>5, <2>6
  <2>9. [t \in WATCH..SEVERE |-> -ExtremeCold[t]] = [t \in Tiers |-> -ExtremeCold[t]]
    BY DEF Tiers
  <2> HIDE DEF T
  <2> QED
    BY <2>1, <2>2, <2>7, <2>8, <2>9 DEF HighestTierReported, alerts, T, Tiers
<1> QED BY <1>1, ReadingType, PTL

\* A tier does not fall when the quantity gets worse.
LEMMA TierIsMonotone ==
    /\ \A th : Rising(th) => \A u, v \in Int :
         u <= v => HighestTierMet(u, th, FALSE) <= HighestTierMet(v, th, FALSE)
    /\ \A th : Falling(th) => \A u, v \in Int :
         u >= v => HighestTierMet(u, th, TRUE) <= HighestTierMet(v, th, TRUE)
BY DEF HighestTierMet, Crossed, WATCH, WARNING, SEVERE, Tiers, Rising, Falling

\* Worse weather never lowers the severity of a category.
THEOREM NeverDowngrades == Spec => WorseningNeverDowngrades
<1> DEFINE Step == LET before == Classify(reading)
                       after  == Classify(reading')
       IN /\ reading'.wind >= reading.wind =>
               SeverityIn(after, "HIGH_WIND") >= SeverityIn(before, "HIGH_WIND")
          /\ reading'.precipitation >= reading.precipitation =>
               SeverityIn(after, "HEAVY_PRECIPITATION") >= SeverityIn(before, "HEAVY_PRECIPITATION")
          /\ reading'.temperature >= reading.temperature /\ reading.temperature >= 160 =>
               SeverityIn(after, "TEMPERATURE") >= SeverityIn(before, "TEMPERATURE")
          /\ reading'.temperature <= reading.temperature /\ reading.temperature <= 160 =>
               SeverityIn(after, "TEMPERATURE") >= SeverityIn(before, "TEMPERATURE")
<1>1. ASSUME reading \in Readings, (reading \in Readings)' PROVE Step
  <2> DEFINE heat(r) == HighestTierMet(r.temperature, ExtremeHeat, FALSE)
             cold(r) == HighestTierMet(r.temperature, ExtremeCold, TRUE)
             wind(r) == HighestTierMet(r.wind, HighWind, FALSE)
             rain(r) == HighestTierMet(r.precipitation, HeavyPrecipitation, FALSE)
  <2>1. \A r \in {reading, reading'} :
          /\ r \in Readings
          /\ r.temperature \in Int /\ r.wind \in Int /\ r.precipitation \in Int
    BY <1>1 DEF Readings
  <2>2. \A r \in {reading, reading'} :
          /\ SeverityIn(Classify(r), "HIGH_WIND") = wind(r)
          /\ SeverityIn(Classify(r), "HEAVY_PRECIPITATION") = rain(r)
          /\ SeverityIn(Classify(r), "TEMPERATURE") = IF heat(r) # 0 THEN heat(r) ELSE cold(r)
    BY <2>1, SeverityReported DEF Tier, Conditions
  <2>3. \A r \in {reading, reading'} :
          /\ heat(r) \in 0..SEVERE /\ (r.temperature < 320 => heat(r) = 0)
          /\ cold(r) \in 0..SEVERE /\ (r.temperature > 0 => cold(r) = 0)
    BY <2>1 DEF HighestTierMet, Crossed, ExtremeHeat, ExtremeCold, WATCH, WARNING, SEVERE
  <2>4. /\ reading'.wind >= reading.wind => wind(reading') >= wind(reading)
        /\ reading'.precipitation >= reading.precipitation => rain(reading') >= rain(reading)
        /\ reading'.temperature >= reading.temperature => heat(reading') >= heat(reading)
        /\ reading'.temperature <= reading.temperature => cold(reading') >= cold(reading)
    BY <2>1, TierIsMonotone, RulesAreMonotone
  <2> HIDE DEF heat, cold, wind, rain
  <2> QED BY <2>1, <2>2, <2>3, <2>4 DEF SEVERE
<1>2. ASSUME UNCHANGED reading PROVE Step \/ UNCHANGED reading
  BY <1>2
<1>3. WorseningNeverDowngrades <=> [][Step]_reading
  BY DEF WorseningNeverDowngrades
<1> QED BY <1>1, <1>3, ReadingType, PTL
=============================================================================
