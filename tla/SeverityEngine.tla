--------------------------- MODULE SeverityEngine ---------------------------
(***************************************************************************)
(* classify() of app/services/severity_engine.py: from one reading to the  *)
(* alerts it raises, in the order the code appends them.                   *)
(*                                                                         *)
(* Quantities are integers in tenths of the unit (the thresholds have one  *)
(* decimal).  A tier is 1, 2 or 3 for WATCH, WARNING, SEVERE; 0 is None.   *)
(* The text of an alert is left out.                                       *)
(***************************************************************************)
EXTENDS Integers, Sequences

WATCH == 1
WARNING == 2
SEVERE == 3

Conditions == {"EXTREME_HEAT", "EXTREME_COLD", "HIGH_WIND", "HEAVY_PRECIPITATION",
               "SEVERE_WEATHER_CODE"}

\* SEVERITY_RULES.
ExtremeHeat == <<320, 380, 440>>
ExtremeCold == <<0, -100, -200>>
HighWind    == <<400, 650, 900>>
HeavyPrecipitation == <<75, 150, 300>>

\* WEATHER_CODE_SEVERITY.get(code).
CodeTier(code) ==
    IF code \in {45, 48, 51, 53, 55, 71, 73, 80} THEN WATCH
    ELSE IF code \in {61, 63, 65, 66, 67, 75, 81, 82, 85, 86, 95} THEN WARNING
    ELSE IF code \in {96, 99} THEN SEVERE
    ELSE 0

Crossed(value, threshold, reverse) ==
    IF reverse THEN value <= threshold ELSE value >= threshold

\* Variant: the loop stops at the first tier it meets.
FirstTierMet(value, thresholds, reverse) ==
    IF Crossed(value, thresholds[WATCH], reverse) THEN WATCH
    ELSE IF Crossed(value, thresholds[WARNING], reverse) THEN WARNING
    ELSE IF Crossed(value, thresholds[SEVERE], reverse) THEN SEVERE
    ELSE 0

\* _highest_tier_met(): the loop visits the tiers upwards, the last one met wins.
HighestTierMet(value, thresholds, reverse) ==
    LET Visit(met, tier) == IF Crossed(value, thresholds[tier], reverse) THEN tier ELSE met
    IN Visit(Visit(Visit(0, WATCH), WARNING), SEVERE)

\* Zero or one alert of a condition.
Alerts(tier, condition) ==
    IF tier = 0 THEN <<>> ELSE <<[severity |-> tier, condition_type |-> condition]>>

\* Variant: cold is compared the way heat is.
ClassifyColdUpwards(reading) ==
       Alerts(HighestTierMet(reading.temperature, ExtremeHeat, FALSE), "EXTREME_HEAT")
    \o Alerts(HighestTierMet(reading.temperature, ExtremeCold, FALSE), "EXTREME_COLD")
    \o Alerts(HighestTierMet(reading.wind, HighWind, FALSE), "HIGH_WIND")
    \o Alerts(HighestTierMet(reading.precipitation, HeavyPrecipitation, FALSE), "HEAVY_PRECIPITATION")
    \o Alerts(CodeTier(reading.code), "SEVERE_WEATHER_CODE")

Classify(reading) ==
       Alerts(HighestTierMet(reading.temperature, ExtremeHeat, FALSE), "EXTREME_HEAT")
    \o Alerts(HighestTierMet(reading.temperature, ExtremeCold, TRUE), "EXTREME_COLD")
    \o Alerts(HighestTierMet(reading.wind, HighWind, FALSE), "HIGH_WIND")
    \o Alerts(HighestTierMet(reading.precipitation, HeavyPrecipitation, FALSE), "HEAVY_PRECIPITATION")
    \o Alerts(CodeTier(reading.code), "SEVERE_WEATHER_CODE")

Readings == [temperature : Int, wind : Int, precipitation : Int, code : Int]

-----------------------------------------------------------------------------

\* The category of a condition: heat and cold are both temperature.
Category(condition) ==
    IF condition \in {"EXTREME_HEAT", "EXTREME_COLD"} THEN "TEMPERATURE" ELSE condition

\* The severity a list of alerts gives to a category; 0 if it has none.
SeverityIn(alerts, category) ==
    IF \E i \in DOMAIN alerts : Category(alerts[i].condition_type) = category
    THEN LET i == CHOOSE j \in DOMAIN alerts : Category(alerts[j].condition_type) = category
         IN alerts[i].severity
    ELSE 0
=============================================================================
