-------------------------- MODULE MCChannelOutbox --------------------------
(***************************************************************************)
(* ChannelOutbox for TLC: two gateways and a spare token.  The leases keep *)
(* the code's order, ownership (45 s) longer than a claim (30 s), in the   *)
(* fewest units of time that tell the two apart.                           *)
(***************************************************************************)
EXTENDS ChannelOutbox

MCSidecars == {"g1", "g2"}
MCTokens == 1..3
MCFirstToken == [s \in MCSidecars |-> IF s = "g1" THEN 1 ELSE 2]
============================================================================
