----------------------------- MODULE MCTokenAuth -----------------------------
(* Two requests at a time; they are interchangeable. *)
EXTENDS TokenAuth, TLC

CONSTANTS q1, q2

TwoRequests == {q1, q2}
RequestSymmetry == Permutations(TwoRequests)
=============================================================================
