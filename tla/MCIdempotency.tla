---- MODULE MCIdempotency ----
(* Two tasks dispatch under one key: the smallest system in which a claim is *)
(* contended, taken over, lost and repeated.                                 *)
EXTENDS Idempotency, TLC

CONSTANTS p1, p2, k1, b1, b2

MCProcs == {p1, p2}
MCKeys == {k1}
MCBounds == {b1, b2}
Symmetry == Permutations(MCProcs) \cup Permutations(MCBounds)
====
