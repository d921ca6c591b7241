----------------------------- MODULE MCWorkPump -----------------------------
(***************************************************************************)
(* WorkPump for TLC.  MaxClaims is never what stops a claim in these       *)
(* instances: faults, lapses, crashes, requests and moves run out first.   *)
(***************************************************************************)
EXTENDS WorkPump

CONSTANTS r1, r2

NoRequests == {}
OneRequest == {r1}
TwoRequests == {r1, r2}
=============================================================================
