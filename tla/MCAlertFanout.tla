--------------------------- MODULE MCAlertFanout ---------------------------
(* Instances of AlertFanout for TLC: two sockets of one user on one replica, *)
(* which share a registry and a forwarder, and look up different locations   *)
(* when the subscriptions change between their connects.                     *)
EXTENDS AlertFanout, TLC

CONSTANTS r1, s1, s2, u1

TwoSockets == {s1, s2}
OneUser    == {u1}
OneReplica == {r1}
HostOne    == [s \in TwoSockets |-> r1]
UserSame   == [s \in TwoSockets |-> u1]

Interchangeable == Permutations(Sockets) \cup Permutations(Locations)
=============================================================================
