---------------------------- MODULE MCDirectory ----------------------------
(* An instance of Directory for TLC: three coordinates, two of which round  *)
(* to the same cell, and requests that are interchangeable.                 *)
EXTENDS Directory, TLC

ThreePoints == {-4, 6, 14}

Interchangeable == Permutations(Requests) \cup Permutations(Names) \cup Permutations(Emails)
=============================================================================
