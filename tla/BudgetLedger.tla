---------------------------- MODULE BudgetLedger ----------------------------
(***************************************************************************)
(* Budgets of one tenant: CostAccountant.reserve and reconcile             *)
(* (kernel/cost.py), the Postgres ledger under them (store/budget_usage.py *)
(* and store/budget_policy.py), and the spawn that reserves an estimate,   *)
(* runs an agent and trues the ledger up (fleet/spawn.py).                 *)
(*                                                                         *)
(* A spawn reads every scope's budget without a lock, then takes the       *)
(* policy rows one by one in the order of their ids, and debits all of     *)
(* them or none.  The true-up is one statement per reserved window, long   *)
(* after; the day may have turned and an operator may have reset usage.    *)
(***************************************************************************)
EXTENDS Integers, Sequences, FiniteSets, Functions, Pricing

CONSTANTS Spawns,      \* agent runs: spawned, permanent or bound to a verb
          Scopes,      \* budget ids: the tenant and its departments
          ById,        \* the scopes as a sequence, in the order of their ids
          Runs,        \* run ids, and NoRun
          Chars,       \* per spawn: length of the composed prompt
          Tier,        \* per spawn: cost tier of the capability
          Rate,        \* per spawn: the price table's entry for its model
          Reports,     \* usage reports a runtime may return
          Policies,    \* policies an operator may set
          Initial,     \* what may be asked: each scope's policy at the start,
                       \* each spawn's budget_scope_ids and run id
          MaxDay,      \* bound: midnights passed
          MaxEvents,   \* bound: policy edits, usage resets, true-up statements
                       \* that fail and spawns lost, together
          NoRun, NoPolicy, Free

Dims == {"tokens", "micros"}

NoLimit == -1

Windows == {"run", "daily", "monthly"}

Policy == [limit : [Dims -> Nat \cup {NoLimit}], hard : BOOLEAN, window : Windows]

ASSUME LedgerAssumption ==
    /\ IsFiniteSet(Spawns)
    /\ \A i \in Initial :
          /\ i.policy \in [Scopes -> Policies \cup {NoPolicy}]
          /\ \A s \in Spawns : /\ i.scopes[s] \in Seq(Scopes) /\ i.run[s] \in Runs
                               /\ IsInjective(i.scopes[s])
    /\ \A s \in Spawns :
          /\ Chars[s] \in Nat /\ Tier[s] \in DOMAIN TierMicrosPerToken
          /\ Rate[s] \in [input : Nat \cup {NoRate}, output : Nat \cup {NoRate}]
    /\ \A u \in Reports : u.total \in Nat /\ u.input \in Nat /\ u.output \in Nat
    /\ Policies \subseteq Policy
    /\ NoPolicy \notin Policy /\ Free \notin Spawns
    /\ MaxDay \in Nat /\ MaxEvents \in Nat

\* window_key: a run has its own bucket, a day and a month share one.
Key(window, run, day) ==
    CASE window = "run"     -> <<"run", run>>
      [] window = "daily"   -> <<"day", day>>
      [] window = "monthly" -> <<"month", day \div 2>>

Keys == {"run"} \X Runs \cup {"day"} \X (0..MaxDay)
            \cup {"month"} \X (0..(MaxDay \div 2))

Buckets == Scopes \X Keys

VARIABLES policy,   \* budgets: per scope its policy, or NoPolicy
          usage,    \* budget_usage: per bucket [gen, spent]; no row reads as 0
          lock,     \* per scope: the spawn whose transaction holds its row
          pc,       \* per spawn: where it stands
          todo,     \* per spawn: scopes or windows still to handle
          over,     \* per spawn: an unlocked read saw a hard stop exceeded
          call,     \* per spawn: its scopes and run, and the day of reserved_at
          plan,     \* per spawn: [bucket, gen, spent] of each row it has locked
          refs,     \* per spawn: reserved windows [bucket, gen], in lock order
          delta,    \* per spawn: signed true-up per dimension
          report,   \* per spawn: the usage its runtime reported
          reset,    \* an operator's reset in flight [scope, dims, at], or Free
          day, events,
          base,     \* history, per bucket: spent as the last reset left it
          overrun,  \* history, per bucket: true-ups above the estimate
          edited    \* history: scopes whose policy an operator replaced

vars == <<policy, usage, lock, pc, todo, over, call, plan, refs, delta, report,
          reset, day, events, base, overrun, edited>>

spawnVars == <<pc, todo, over, call, plan, refs, delta, report>>
tableVars == <<policy, usage, base, overrun, edited>>
worldVars == <<reset, day, events>>

Zero == [d \in Dims |-> 0]

Estimates == [s \in Spawns |-> Estimate(Chars[s], Tier[s])]

Est(s) == Estimates[s]

Plus(a, b) == [d \in Dims |-> a[d] + b[d]]

Bucket(scope, s) == <<scope, Key(policy[scope].window, call[s].run, call[s].day)>>

\* A run window needs a run id: usage_view's "run_context_required", and the
\* BudgetWindowUnavailable window_ref raises.
Unavailable(scope, s) == policy[scope].window = "run" /\ call[s].run = NoRun

OverLimit(p, amount) ==
    \E d \in Dims : p.limit[d] # NoLimit /\ amount[d] > p.limit[d]

\* A plausible bug: the check looks at what is spent, not at what would be.
RefusesWhenSpent(scope, s) ==
    policy[scope].hard /\ OverLimit(policy[scope], usage[Bucket(scope, s)].spent)

Refuses(scope, s) ==
    /\ policy[scope].hard
    /\ OverLimit(policy[scope], Plus(usage[Bucket(scope, s)].spent, Est(s)))

\* Free the rows a transaction holds.
Unlocked(s) == [x \in Scopes |-> IF lock[x] = s THEN Free ELSE lock[x]]

\* sorted(aggregate): every transaction takes the rows in one order.
Earlier(x, y) == \E i, k \in DOMAIN ById : i < k /\ ById[i] = x /\ ById[k] = y

InOrder(list) ==
    {rows \in [DOMAIN list -> Range(list)] :
        \A i, k \in DOMAIN rows : i < k => Earlier(rows[i], rows[k])}

Holds(s, b) == \E i \in DOMAIN plan[s] : plan[s][i].bucket = b

Init ==
    /\ \E i \in Initial :
          /\ policy = i.policy
          /\ call = [s \in Spawns |-> [scopes |-> i.scopes[s], run |-> i.run[s], day |-> 0]]
    /\ usage = [b \in Buckets |-> [gen |-> 0, spent |-> Zero]]
    /\ lock = [x \in Scopes |-> Free]
    /\ pc = [s \in Spawns |-> "idle"]
    /\ todo = [s \in Spawns |-> <<>>]
    /\ over = [s \in Spawns |-> FALSE]
    /\ plan = [s \in Spawns |-> <<>>]
    /\ refs = [s \in Spawns |-> <<>>]
    /\ delta = [s \in Spawns |-> Zero]
    /\ report = [s \in Spawns |-> BareTotal(0)]
    /\ reset = Free
    /\ day = 0 /\ events = 0
    /\ base = [b \in Buckets |-> Zero]
    /\ overrun = [b \in Buckets |-> Zero]
    /\ edited = {}

-----------------------------------------------------------------------------
(* CostAccountant.reserve *)

Start(s) ==
    /\ pc[s] = "idle"
    /\ pc' = [pc EXCEPT ![s] = "reading"]
    /\ todo' = [todo EXCEPT ![s] = call[s].scopes]
    /\ call' = [call EXCEPT ![s].day = day]
    /\ UNCHANGED <<lock, over, plan, refs, delta, report, tableVars, worldVars>>

(* get_budget on one scope, outside any transaction. *)
ReadScope(s) ==
    /\ pc[s] = "reading" /\ todo[s] # <<>>
    /\ LET x == Head(todo[s]) IN
       IF policy[x] # NoPolicy /\ Unavailable(x, s)
       THEN pc' = [pc EXCEPT ![s] = "refused"] /\ UNCHANGED over
       ELSE /\ over' = [over EXCEPT ![s] = @ \/ (policy[x] # NoPolicy /\ Refuses(x, s))]
            /\ UNCHANGED pc
    /\ todo' = [todo EXCEPT ![s] = Tail(@)]
    /\ UNCHANGED <<lock, call, plan, refs, delta, report, tableVars, worldVars>>

FailFast(s) ==
    /\ pc[s] = "reading" /\ todo[s] = <<>>
    /\ IF over[s]
       THEN pc' = [pc EXCEPT ![s] = "refused"] /\ UNCHANGED todo
       ELSE /\ pc' = [pc EXCEPT ![s] = "locking"]
            /\ todo' \in {[todo EXCEPT ![s] = rows] : rows \in InOrder(call[s].scopes)}
    /\ UNCHANGED <<lock, over, call, plan, refs, delta, report, tableVars, worldVars>>

(* _pg_plan_scope: lock the policy and its usage row, plan the debit.  A   *)
(* scope without a policy has no row to lock; a refusal rolls back.        *)
SkipScope(s) ==
    /\ pc[s] = "locking" /\ todo[s] # <<>> /\ policy[Head(todo[s])] = NoPolicy
    /\ todo' = [todo EXCEPT ![s] = Tail(@)]
    /\ UNCHANGED <<lock, pc, over, call, plan, refs, delta, report, tableVars, worldVars>>

Debit(x, s) ==
    LET b == Bucket(x, s)
    IN [bucket |-> b, gen |-> usage[b].gen, spent |-> Plus(usage[b].spent, Est(s))]

LockScope(s) ==
    /\ pc[s] = "locking" /\ todo[s] # <<>>
    /\ LET x == Head(todo[s]) IN
       /\ policy[x] # NoPolicy /\ lock[x] = Free
       /\ ~ Unavailable(x, s) /\ ~ Refuses(x, s)
       /\ lock' = [lock EXCEPT ![x] = s]
       /\ plan' = [plan EXCEPT ![s] = Append(@, Debit(x, s))]
    /\ todo' = [todo EXCEPT ![s] = Tail(@)]
    /\ UNCHANGED <<pc, over, call, refs, delta, report, tableVars, worldVars>>

\* A plausible bug: the transaction is left open.
RollbackKeepingRows(s) ==
    /\ plan' = [plan EXCEPT ![s] = <<>>]
    /\ UNCHANGED lock

Rollback(s) ==
    /\ lock' = Unlocked(s)
    /\ plan' = [plan EXCEPT ![s] = <<>>]

Refuse(s) ==
    /\ pc[s] = "locking" /\ todo[s] # <<>>
    /\ LET x == Head(todo[s]) IN
       /\ policy[x] # NoPolicy /\ lock[x] = Free
       /\ Unavailable(x, s) \/ Refuses(x, s)
    /\ Rollback(s)
    /\ pc' = [pc EXCEPT ![s] = "refused"]
    /\ UNCHANGED <<todo, over, call, refs, delta, report, tableVars, worldVars>>

(* _pg_apply_plans and the commit: every planned row, in one transaction. *)
Applied(s) ==
    [b \in Buckets |->
        IF Holds(s, b)
        THEN [usage[b] EXCEPT !.spent =
                 plan[s][CHOOSE i \in DOMAIN plan[s] : plan[s][i].bucket = b].spent]
        ELSE usage[b]]

Ref(p) == [bucket |-> p.bucket, gen |-> p.gen]

Commit(s) ==
    /\ pc[s] = "locking" /\ todo[s] = <<>>
    /\ usage' = Applied(s)
    /\ refs' = [refs EXCEPT ![s] = [i \in DOMAIN plan[s] |-> Ref(plan[s][i])]]
    /\ todo' = [todo EXCEPT ![s] = [i \in DOMAIN plan[s] |-> Ref(plan[s][i])]]
    /\ Rollback(s)
    /\ pc' = [pc EXCEPT ![s] = "running"]
    /\ UNCHANGED <<policy, base, overrun, edited, over, call, delta, report, worldVars>>

-----------------------------------------------------------------------------
(* The run and its true-up *)

Charges == [s \in Spawns |-> [u \in Reports |->
    [tokens |-> u.total, micros |-> PriceMicros(Rate[s], Tier[s], u)]]]

Actual(s, u) == Charges[s][u]

Minus(a, b) == [d \in Dims |-> a[d] - b[d]]

(* The runtime returns; _true_up_cost prices what it used.  reconcile has  *)
(* nothing to do when the estimate was exact.                              *)
RunReturns(s, u) ==
    /\ pc[s] = "running"
    /\ pc' = [pc EXCEPT ![s] = "settling"]
    /\ report' = [report EXCEPT ![s] = u]
    /\ delta' = [delta EXCEPT ![s] = Minus(Actual(s, u), Est(s))]
    /\ todo' = [todo EXCEPT ![s] = IF delta'[s] = Zero THEN <<>> ELSE @]
    /\ UNCHANGED <<lock, over, call, plan, refs, tableVars, worldVars>>

\* A plausible bug: a run that raises is not refunded.
RunRaisesUnrefunded(s) ==
    /\ pc[s] = "running"
    /\ pc' = [pc EXCEPT ![s] = "refunding"]
    /\ todo' = [todo EXCEPT ![s] = <<>>]
    /\ UNCHANGED <<lock, over, call, plan, refs, delta, report, tableVars, worldVars>>

(* The runtime raises: the whole estimate is refunded. *)
RunRaises(s) ==
    /\ pc[s] = "running"
    /\ pc' = [pc EXCEPT ![s] = "refunding"]
    /\ delta' = [delta EXCEPT ![s] = Minus(Zero, Est(s))]
    /\ UNCHANGED <<lock, todo, over, call, plan, refs, report, tableVars, worldVars>>

\* A plausible bug: the true-up reaches any generation.
TruedUpAnyGeneration(row, w, amount) ==
    [row EXCEPT !.spent = [d \in Dims |-> Floor(row.spent[d] + amount[d])]]

TruedUp(row, w, amount) ==
    IF row.gen # w.gen THEN row
    ELSE [row EXCEPT !.spent = [d \in Dims |-> Floor(row.spent[d] + amount[d])]]

(* reconcile_budget on the next reserved window: one statement, which      *)
(* waits for a transaction that holds the row.                             *)
Reconcile(s) ==
    /\ pc[s] \in {"settling", "refunding"} /\ todo[s] # <<>>
    /\ LET w == Head(todo[s]) IN
       /\ \A t \in Spawns : ~ Holds(t, w.bucket)
       /\ usage' = [usage EXCEPT ![w.bucket] = TruedUp(@, w, delta[s])]
       /\ overrun' = [overrun EXCEPT ![w.bucket] =
                         [d \in Dims |-> @[d] + Floor(delta[s][d])]]
    /\ todo' = [todo EXCEPT ![s] = Tail(@)]
    /\ UNCHANGED <<policy, base, edited, lock, pc, over, call, plan, refs, delta,
                   report, worldVars>>

(* A statement fails: the loop ends there, and the windows after it keep   *)
(* the estimate.  On the refund path the exception is suppressed.          *)
ReconcileFails(s) ==
    /\ pc[s] \in {"settling", "refunding"} /\ todo[s] # <<>>
    /\ events < MaxEvents /\ events' = events + 1
    /\ pc' = [pc EXCEPT ![s] = "broken"]
    /\ UNCHANGED <<lock, todo, over, call, plan, refs, delta, report, tableVars,
                   reset, day>>

Finish(s) ==
    /\ pc[s] \in {"settling", "refunding"} /\ todo[s] = <<>>
    /\ pc' = [pc EXCEPT ![s] = IF @ = "settling" THEN "done" ELSE "raised"]
    /\ UNCHANGED <<lock, todo, over, call, plan, refs, delta, report, tableVars, worldVars>>

(* The process dies or the task is cancelled: only `except Exception'      *)
(* refunds, so the reservation stays.  The database rolls back.            *)
Lose(s) ==
    /\ pc[s] \in {"reading", "locking", "running", "settling", "refunding"}
    /\ events < MaxEvents /\ events' = events + 1
    /\ Rollback(s)
    /\ pc' = [pc EXCEPT ![s] = "lost"]
    /\ UNCHANGED <<todo, over, call, refs, delta, report, tableVars,
                   reset, day>>

-----------------------------------------------------------------------------
(* The calendar and the operator *)

Midnight ==
    /\ day < MaxDay /\ day' = day + 1
    /\ UNCHANGED <<lock, spawnVars, tableVars, reset, events>>

(* control.budget.upsert: replaces the policy, never the usage. *)
UpsertPolicy(x, p) ==
    /\ events < MaxEvents /\ events' = events + 1
    /\ lock[x] = Free
    /\ policy' = [policy EXCEPT ![x] = p]
    /\ edited' = edited \cup {x}
    /\ UNCHANGED <<usage, base, overrun, lock, spawnVars, reset, day>>

(* control.budget.reset takes its time before it waits for the policy row. *)
StartReset(x, dims) ==
    /\ reset = Free
    /\ events < MaxEvents /\ events' = events + 1
    /\ reset' = [scope |-> x, dims |-> dims, at |-> day]
    /\ UNCHANGED <<lock, spawnVars, tableVars, day>>

Cleared(row, dims) ==
    [gen |-> row.gen + 1,
     spent |-> [d \in Dims |-> IF d \in dims THEN 0 ELSE row.spent[d]]]

ResetUsage ==
    /\ reset # Free
    /\ LET x == reset.scope IN
       /\ lock[x] = Free
       /\ IF policy[x] = NoPolicy \/ (policy[x] # NoPolicy /\ policy[x].window = "run")
          THEN UNCHANGED <<usage, base>>
          ELSE LET b == <<x, Key(policy[x].window, NoRun, reset.at)>>
               IN /\ usage' = [usage EXCEPT ![b] = Cleared(@, reset.dims)]
                  /\ base' = [base EXCEPT ![b] = usage'[b].spent]
    /\ reset' = Free
    /\ UNCHANGED <<policy, overrun, edited, lock, spawnVars, day, events>>

-----------------------------------------------------------------------------
SpawnStep(s) ==
    \/ Start(s) \/ ReadScope(s) \/ FailFast(s)
    \/ SkipScope(s) \/ LockScope(s) \/ Refuse(s) \/ Commit(s)
    \/ \E u \in Reports : RunReturns(s, u)
    \/ RunRaises(s) \/ Reconcile(s) \/ Finish(s)

Next ==
    \/ \E s \in Spawns : SpawnStep(s) \/ ReconcileFails(s) \/ Lose(s)
    \/ Midnight
    \/ \E x \in Scopes, p \in Policies : UpsertPolicy(x, p)
    \/ \E x \in Scopes, dims \in (SUBSET Dims) \ {{}} : StartReset(x, dims)
    \/ ResetUsage

Spec == Init /\ [][Next]_vars

(* A started spawn and a reset that has been asked for go on. *)
Fairness ==
    /\ \A s \in Spawns : WF_vars(SpawnStep(s))
    /\ WF_vars(ResetUsage)

FairSpec == Spec /\ Fairness

-----------------------------------------------------------------------------
(* Properties *)

Amounts == [Dims -> Nat]

(* Every variable keeps its shape. *)
TypeOK ==
    /\ policy \in [Scopes -> Policies \cup {NoPolicy}]
    /\ usage \in [Buckets -> [gen : Nat, spent : Amounts]]
    /\ lock \in [Scopes -> Spawns \cup {Free}]
    /\ pc \in [Spawns -> {"idle", "reading", "locking", "running", "settling", "refunding",
                          "done", "raised", "refused", "broken", "lost"}]
    /\ over \in [Spawns -> BOOLEAN]
    /\ call \in [Spawns -> [scopes : Seq(Scopes), run : Runs, day : 0..MaxDay]]
    /\ delta \in [Spawns -> [Dims -> Int]]
    /\ reset \in [scope : Scopes, dims : SUBSET Dims, at : 0..MaxDay] \cup {Free}
    /\ day \in 0..MaxDay /\ events \in 0..MaxEvents
    /\ base \in [Buckets -> Amounts] /\ overrun \in [Buckets -> Amounts]
    /\ edited \subseteq Scopes

(* What spawn s owes on the current generation of bucket b: its estimate   *)
(* until its true-up reaches the window, what it really used afterwards.   *)
Owed(s, b, d) ==
    LET w == [bucket |-> b, gen |-> usage[b].gen]
    IN IF w \notin Range(refs[s]) THEN 0
       ELSE IF w \in Range(todo[s]) THEN Est(s)[d]
       ELSE Est(s)[d] + delta[s][d]

(* The ledger is exact.  However reservations, true-ups, resets and        *)
(* midnights interleave, the usage a bucket shows is what the last reset   *)
(* left plus what every spawn reserved since then owes it: no update is    *)
(* lost, no refused spawn is charged, and no refund reaches the wrong day  *)
(* or a generation it was not reserved in (cost.py, reserve and            *)
(* reconcile).                                                             *)
LedgerBalances ==
    \A b \in Buckets, d \in Dims :
        usage[b].spent[d] =
            base[b][d] + SumFunction([s \in Spawns |-> Owed(s, b, d)])

(* A hard stop holds.  While its policy stands, a hard-stop bucket exceeds *)
(* a limit only by what runs used above their estimates: concurrent        *)
(* reservations never add up to more than the limit (cost.py:308).         *)
HardStopHolds ==
    \A x \in Scopes \ edited : (policy[x] # NoPolicy /\ policy[x].hard) =>
        \A b \in Buckets, d \in Dims :
            (b[1] = x /\ policy[x].limit[d] # NoLimit) =>
                usage[b].spent[d] <= policy[x].limit[d] + overrun[b][d]

(* A run that never happened keeps no reservation (spawn.py:218): once     *)
(* every spawn has been refused or has raised and been refunded, every     *)
(* bucket shows exactly what the last reset left in it.                    *)
NothingHeldBack ==
    (\A s \in Spawns : pc[s] \in {"idle", "refused", "raised"}) =>
        \A b \in Buckets : usage[b].spent = base[b]

(* Every token of a run is billed exactly once (cost.py:120): the price is *)
(* that of the run's tokens one by one, those of the reported split at     *)
(* their leg's rate and the rest at the input rate, rounded at the end.    *)
EveryTokenBilledOnce ==
    \A s \in Spawns : pc[s] = "done" =>
        LET u == report[s]
            rates == RatesFor(Rate[s], Tier[s])
            tokens == 1 .. (IF u.total < u.input + u.output THEN u.input + u.output ELSE u.total)
            rateOf == [i \in tokens |-> IF i > u.input /\ i <= u.input + u.output
                                        THEN rates.output ELSE rates.input]
        IN Est(s)["micros"] + delta[s]["micros"] = Round(SumFunction(rateOf))

(* No spawn waits for ever on another's rows: a reservation that has begun *)
(* ends, whatever the others do (budget_usage.py:305 takes the rows in one *)
(* order, and every way out of the transaction frees them).                *)
EventuallyEnds ==
    \A s \in Spawns :
        (pc[s] # "idle") ~> (pc[s] \in {"done", "raised", "refused", "broken", "lost"})
=============================================================================
