---- MODULE MCHeldWrite ----
EXTENDS HeldWrite, TLC

CONSTANTS r1, r2, t1, t2

OneRequest == {r1}
TwoRequests == {r1, r2}
NoRequest == {}
MCTasks == {t1, t2}
Symmetry == Permutations(MCTasks)
====
