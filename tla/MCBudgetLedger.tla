--------------------------- MODULE MCBudgetLedger ---------------------------
(***************************************************************************)
(* Two spawns whose estimates fit a budget one at a time and not both.     *)
(* Either both belong to one department, whose id sorts before the         *)
(* tenant's, or the second is an agent bound to a verb, called without a   *)
(* run under a tenant budget per run.                                      *)
(***************************************************************************)
EXTENDS BudgetLedger

MCById == <<"dept", "tenant">>
MCRuns == {"r1", "r2", NoRun}
MCChars == [a |-> 80, b |-> 40]
MCTier == [a |-> "cheap", b |-> "standard"]
MCRate == [a |-> Pair(35, 75), b |-> Pair(NoRate, 350)]

\* A bare total above both estimates, and a split that leaves tokens over.
MCReports == {BareTotal(25), [total |-> 14, input |-> 9, output |-> 3]}

Limit(t, m) == [d \in Dims |-> IF d = "tokens" THEN t ELSE m]

Daily == [limit |-> Limit(30, NoLimit), hard |-> TRUE, window |-> "daily"]
Monthly == [Daily EXCEPT !.window = "monthly"]
PerRun == [limit |-> Limit(NoLimit, 50), hard |-> FALSE, window |-> "run"]

MCPolicies == {Daily, Monthly, PerRun}
MCInitial ==
    {[policy |-> [tenant |-> Monthly, dept |-> Daily],
      scopes |-> [a |-> <<"tenant", "dept">>, b |-> <<"tenant", "dept">>],
      run |-> [a |-> "r1", b |-> "r2"]],
     [policy |-> [tenant |-> PerRun, dept |-> NoPolicy],
      scopes |-> [a |-> <<"tenant", "dept">>, b |-> <<"tenant">>],
      run |-> [a |-> "r1", b |-> NoRun]]}
=============================================================================
