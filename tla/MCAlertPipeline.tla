-------------------------- MODULE MCAlertPipeline --------------------------
(* The shortest pipeline: one location, one replica, one socket, and an     *)
(* answer of Open-Meteo that raises one alert.                              *)
EXTENDS AlertPipeline

CONSTANTS r1, s1, u1

OneSocket == {s1}
HostOne   == [s \in OneSocket |-> r1]
UserOne   == [s \in OneSocket |-> u1]

Heat == {[temperature |-> 385, wind |-> 100, precipitation |-> 0, code |-> 0]}
=============================================================================
