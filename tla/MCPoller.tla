------------------------------- MODULE MCPoller -------------------------------
(* Two locations and the three sizes of an answer: no alert, one, and two. *)
EXTENDS Poller, TLC

Calm  == [temperature |-> 180, wind |-> 100, precipitation |-> 0, code |-> 0]
Heat  == [temperature |-> 385, wind |-> 100, precipitation |-> 0, code |-> 0]
Storm == [temperature |-> 150, wind |-> 910, precipitation |-> 0, code |-> 99]

CalmHeatStorm == {Calm, Heat, Storm}
=============================================================================
