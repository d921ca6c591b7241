---------------------------- MODULE ApprovalOnce ----------------------------
(***************************************************************************)
(* What an approval promises, without tasks, records or janitors: a human  *)
(* decides an open request once, only an approval can be spent, it is      *)
(* spent once, and the write it was given for runs at most once after it.  *)
(***************************************************************************)
EXTENDS Naturals

CONSTANT Requests

VARIABLES
    verdict,    \* what has become of each request
    runs        \* how often the write of each request has run

vars == <<verdict, runs>>

Verdicts == {"none", "open", "approved", "rejected", "lapsed", "spent"}

Init ==
    /\ verdict = [r \in Requests |-> "none"]
    /\ runs = [r \in Requests |-> 0]

Becomes(r, from, to) ==
    /\ verdict[r] = from
    /\ verdict' = [verdict EXCEPT ![r] = to]
    /\ UNCHANGED runs

Ask(r) == Becomes(r, "none", "open")
Decide(r) == \E d \in {"approved", "rejected"} : Becomes(r, "open", d)
Lapse(r) == Becomes(r, "open", "lapsed")
Spend(r) == Becomes(r, "approved", "spent")

Run(r) ==
    /\ verdict[r] = "spent"
    /\ runs[r] = 0
    /\ runs' = [runs EXCEPT ![r] = 1]
    /\ UNCHANGED verdict

Next == \E r \in Requests : Ask(r) \/ Decide(r) \/ Lapse(r) \/ Spend(r) \/ Run(r)

Spec == Init /\ [][Next]_vars
=============================================================================
