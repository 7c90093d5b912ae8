------------------------------ MODULE MCSeverity ------------------------------
(* Every threshold, one tenth below it and one tenth above it. *)
EXTENDS SeverityProperties

Around(thresholds) == UNION {{thresholds[t] - 1, thresholds[t], thresholds[t] + 1} : t \in WATCH..SEVERE}

MCTemperatures == Around(ExtremeHeat) \cup Around(ExtremeCold) \cup {150}
MCWinds == Around(HighWind)
MCPrecipitations == Around(HeavyPrecipitation)
MCCodes == {0, 45, 95, 96}
=============================================================================
