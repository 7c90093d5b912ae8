------------------------- MODULE SeverityProperties -------------------------
(***************************************************************************)
(* What the severity engine promises, checked on a sequence of readings    *)
(* of one location that may change in any way between two polls.           *)
(***************************************************************************)
EXTENDS SeverityEngine

CONSTANTS Temperatures, Winds, Precipitations, Codes   \* the values explored

ASSUME SeverityAssumption ==
    (Temperatures \cup Winds \cup Precipitations \cup Codes) \subseteq Int

VARIABLE reading

Init == reading \in [temperature : Temperatures, wind : Winds,
                     precipitation : Precipitations, code : Codes]

\* The weather changes in one respect.
TemperatureChanges == \E v \in Temperatures : reading' = [reading EXCEPT !.temperature = v]
WindChanges == \E v \in Winds : reading' = [reading EXCEPT !.wind = v]
PrecipitationChanges == \E v \in Precipitations : reading' = [reading EXCEPT !.precipitation = v]
CodeChanges == \E v \in Codes : reading' = [reading EXCEPT !.code = v]

Next == TemperatureChanges \/ WindChanges \/ PrecipitationChanges \/ CodeChanges

Spec == Init /\ [][Next]_reading

-----------------------------------------------------------------------------

\* "for each category we emit at most one alert" (severity_engine.py:9-10), heat
\* and cold being one category: no reading raises two.
OnePerCategory ==
    LET alerts == Classify(reading)
    IN \A i, j \in DOMAIN alerts :
         Category(alerts[i].condition_type) = Category(alerts[j].condition_type) => i = j

\* "at the highest severity tier that the reading crosses" (lines 10-11): the
\* tier reported is entered, and no higher one is.
HighestTierReported ==
    LET Is(tier, value, thresholds) ==
          \A t \in WATCH..SEVERE : t <= tier <=> value >= thresholds[t]
        alerts == Classify(reading)
        Cold == [t \in WATCH..SEVERE |-> -ExtremeCold[t]]
        T == SeverityIn(alerts, "TEMPERATURE")
    IN /\ Is(SeverityIn(alerts, "HIGH_WIND"), reading.wind, HighWind)
       /\ Is(SeverityIn(alerts, "HEAVY_PRECIPITATION"), reading.precipitation, HeavyPrecipitation)
       /\ IF reading.temperature > 160 THEN Is(T, reading.temperature, ExtremeHeat)
                                       ELSE Is(T, -reading.temperature, Cold)

\* Weather that gets worse in every quantity never lowers the severity of a
\* category: a storm that builds up is not announced by a weaker alert.
WorseningNeverDowngrades ==
    [][LET before == Classify(reading)
           after  == Classify(reading')
       IN /\ reading'.wind >= reading.wind =>
               SeverityIn(after, "HIGH_WIND") >= SeverityIn(before, "HIGH_WIND")
          /\ reading'.precipitation >= reading.precipitation =>
               SeverityIn(after, "HEAVY_PRECIPITATION") >= SeverityIn(before, "HEAVY_PRECIPITATION")
          /\ reading'.temperature >= reading.temperature /\ reading.temperature >= 160 =>
               SeverityIn(after, "TEMPERATURE") >= SeverityIn(before, "TEMPERATURE")
          /\ reading'.temperature <= reading.temperature /\ reading.temperature <= 160 =>
               SeverityIn(after, "TEMPERATURE") >= SeverityIn(before, "TEMPERATURE")]_reading
=============================================================================
