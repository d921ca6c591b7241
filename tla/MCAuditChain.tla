---------------------------- MODULE MCAuditChain ----------------------------
(* Instances of AuditChain for TLC. *)
EXTENDS AuditChain

CONSTANTS e1, e2, j1, j2, api, w1, w2

TwoJanitors == [t \in {e1, e2, j1, j2} |->
                  CASE t = j1 -> w1 [] t = j2 -> w2 [] OTHER -> api]
=============================================================================
