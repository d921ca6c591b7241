------------------------- MODULE BudgetLedgerProofs -------------------------
(***************************************************************************)
(* For any number of spawns, scopes and policies, any estimates, prices    *)
(* and usage reports, and any number of midnights, resets, failures and    *)
(* losses: a hard stop holds, every usage row is what the spawns owe it,   *)
(* spawns that did not run owe it nothing, and a settled run has paid for  *)
(* each of its tokens once.                                                *)
(***************************************************************************)
EXTENDS BudgetLedger, TLAPS

-----------------------------------------------------------------------------
(* Prices and estimates.                                                   *)

\* A count floored at zero.
LEMMA FloorNat == ASSUME NEW n \in Int PROVE Floor(n) \in Nat
BY DEF Floor

\* What a true-up adds to a count it also adds to what the limit is exceeded by.
LEMMA TrueUpBound ==
    \A u, l, o \in Nat, e \in Int :
        u <= l + o => u <= l + (o + Floor(e)) /\ Floor(u + e) <= l + (o + Floor(e))
BY DEF Floor

\* The bounded counters: days and events.
LEMMA Counting ==
    \A m \in Nat : 0 \in 0..m /\ \A n \in 0..m : n < m => n + 1 \in 0..m
OBVIOUS

\* Rounding keeps integers and naturals.
LEMMA RoundType ==
    ASSUME NEW n \in Int
    PROVE  Round(n) \in Int /\ (n \in Nat => Round(n) \in Nat)
BY DEF Round

LEMMA Product ==
    ASSUME NEW a \in Nat, NEW b \in Int
    PROVE  a * b \in Int /\ (b \in Nat => a * b \in Nat)
OBVIOUS

\* A priced report is an integer, and a natural when the rates are.
LEMMA PricedType ==
    ASSUME NEW i \in Int, NEW o \in Int, NEW u, u.total \in Nat, u.input \in Nat,
           u.output \in Nat
    PROVE  /\ PricedMicros(Pair(i, o), u) \in Int
           /\ i \in Nat /\ o \in Nat => PricedMicros(Pair(i, o), u) \in Nat
<1> DEFINE a == Floor(u.input)  b == Floor(u.output)  c == Unattributed(u)
           n == a * i + b * o + c * i
<1>1. a \in Nat /\ b \in Nat /\ c \in Nat
  BY FloorNat DEF Unattributed
<1>2. /\ a * i \in Int /\ b * o \in Int /\ c * i \in Int
      /\ i \in Nat => a * i \in Nat /\ c * i \in Nat
      /\ o \in Nat => b * o \in Nat
  BY <1>1, Product, Zenon
<1> HIDE DEF a, b, c
<1>3. n \in Int /\ (i \in Nat /\ o \in Nat => n \in Nat)
  BY <1>2
<1>4. PricedMicros(Pair(i, o), u) = Round(n)
  BY Zenon DEF PricedMicros, Pair, a, b, c
<1> HIDE DEF n
<1> QED BY <1>3, <1>4, RoundType, Zenon

LEMMA TierRate ==
    ASSUME NEW tier \in DOMAIN TierMicrosPerToken
    PROVE  100 * TierMicrosPerToken[tier] \in Nat
BY DEF TierMicrosPerToken

\* An estimate is a natural in each dimension.
LEMMA EstType == ASSUME NEW s \in Spawns PROVE \A d \in Dims : Est(s)[d] \in Nat
<1> DEFINE n == IF Chars[s] \div 4 < 16 THEN 16 ELSE Chars[s] \div 4
           r == 100 * TierMicrosPerToken[Tier[s]]
<1>1. n \in Nat /\ r \in Nat
  BY LedgerAssumption, TierRate
<1>2. PriceMicros(NoEntry, Tier[s], BareTotal(n)) = PricedMicros(Pair(r, r), BareTotal(n))
  BY Zenon DEF PriceMicros, RatesFor
<1> HIDE DEF n, r
<1>3. PricedMicros(Pair(r, r), BareTotal(n)) \in Nat
  BY <1>1, PricedType DEF BareTotal
<1>4. Est(s) = [tokens |-> n, micros |-> PriceMicros(NoEntry, Tier[s], BareTotal(n))]
  BY Zenon DEF Est, Estimates, Estimate, n
<1> QED BY <1>1, <1>2, <1>3, <1>4 DEF Dims

\* The rates in force are a pair of naturals.
LEMMA RatesType ==
    ASSUME NEW s \in Spawns
    PROVE  \E i, o \in Nat : RatesFor(Rate[s], Tier[s]) = Pair(i, o)
<1> DEFINE r == Rate[s]
<1>1. r \in [input : Nat \cup {NoRate}, output : Nat \cup {NoRate}]
  BY LedgerAssumption, Zenon
<1> HIDE DEF r
<1>2. CASE r = NoEntry
  <2>1. 100 * TierMicrosPerToken[Tier[s]] \in Nat
    BY LedgerAssumption, TierRate, Zenon
  <2> QED BY <1>2, <2>1, Zenon DEF RatesFor, r
<1>3. CASE r # NoEntry
  <2>1. r = Pair(r.input, r.output)
    BY <1>1, Zenon DEF Pair
  <2>2. r.input \in Nat \/ r.output \in Nat
    BY <1>1, <1>3, <2>1, Zenon DEF NoEntry
  <2>3. /\ (IF r.input = NoRate THEN r.output ELSE r.input) \in Nat
        /\ (IF r.output = NoRate THEN r.input ELSE r.output) \in Nat
    BY <1>1, <2>2, Zenon DEF NoRate
  <2> QED BY <1>3, <2>3, Zenon DEF RatesFor, RatePair, r
<1> QED BY <1>2, <1>3, Zenon

\* What a run cost is a natural in each dimension.
LEMMA ActualType ==
    ASSUME NEW s \in Spawns, NEW u \in Reports
    PROVE  \A d \in Dims : Actual(s, u)[d] \in Nat
<1>1. u.total \in Nat /\ u.input \in Nat /\ u.output \in Nat
  BY LedgerAssumption, Zenon
<1>2. \E i, o \in Nat : RatesFor(Rate[s], Tier[s]) = Pair(i, o)
  BY RatesType, Zenon
<1>3. PriceMicros(Rate[s], Tier[s], u) \in Nat
  BY <1>1, <1>2, PricedType DEF PriceMicros
<1>4. Actual(s, u) = [tokens |-> u.total, micros |-> PriceMicros(Rate[s], Tier[s], u)]
  BY Zenon DEF Actual, Charges
<1> QED BY <1>1, <1>3, <1>4 DEF Dims

-----------------------------------------------------------------------------
(* Buckets.                                                                *)

LEMMA KeyType ==
    ASSUME NEW w \in Windows, NEW r, NEW t \in 0..MaxDay, w = "run" => r \in Runs
    PROVE  Key(w, r, t) \in Keys
<1>1. t \div 2 \in 0..(MaxDay \div 2)
  BY LedgerAssumption
<1> QED BY <1>1, Zenon DEF Key, Keys, Windows

-----------------------------------------------------------------------------
(* The inductive invariant.                                                *)

\* The limits a hard stop sets, as long as nobody replaces its policy.
Capped(x, d) ==
    /\ x \notin edited /\ policy[x] # NoPolicy /\ policy[x].hard
    /\ policy[x].limit[d] # NoLimit

\* A planned debit is within the limits although it is not yet in the table.
EntryOK(p) ==
    p.bucket \in Buckets =>
        /\ p.spent \in Amounts
        /\ \A d \in Dims : Capped(p.bucket[1], d) =>
              p.spent[d] <= policy[p.bucket[1]].limit[d]

PlanOK ==
    /\ plan = [s \in Spawns |-> plan[s]]
    /\ \A s \in Spawns : /\ \E S : plan[s] \in Seq(S)
                         /\ \A i \in DOMAIN plan[s] : EntryOK(plan[s][i])

IndInv == TypeOK /\ PlanOK /\ HardStopHolds

LEMMA CappedIs ==
    HardStopHolds <=>
        \A x \in Scopes, b \in Buckets, d \in Dims :
            Capped(x, d) /\ b[1] = x =>
                usage[b].spent[d] <= policy[x].limit[d] + overrun[b][d]
BY Zenon DEF HardStopHolds, Capped

LEMMA BucketType ==
    ASSUME TypeOK, NEW x \in Scopes, NEW s \in Spawns, policy[x] # NoPolicy
    PROVE  Bucket(x, s) \in Buckets /\ Bucket(x, s)[1] = x
<1>1. policy[x].window \in Windows
  BY LedgerAssumption, Zenon DEF TypeOK, Policy
<1>2. call[s].run \in Runs /\ call[s].day \in 0..MaxDay
  BY Zenon DEF TypeOK
<1>3. Key(policy[x].window, call[s].run, call[s].day) \in Keys
  BY <1>1, <1>2, KeyType, Zenon
<1> QED BY <1>3, Zenon DEF Bucket, Buckets

LEMMA LimitType ==
    ASSUME TypeOK, NEW x \in Scopes, policy[x] # NoPolicy, NEW d \in Dims
    PROVE  policy[x].limit[d] \in Nat \cup {NoLimit}
<1>1. policy[x].limit \in [Dims -> Nat \cup {NoLimit}]
  BY LedgerAssumption DEF TypeOK, Policy
<1> QED BY <1>1, Zenon

-----------------------------------------------------------------------------
(* Steps that leave the ledger alone.                                      *)

\* A step that plans nothing new, or rolls one transaction back.
LEMMA PlanKept ==
    ASSUME PlanOK, UNCHANGED <<policy, edited>>,
           UNCHANGED plan \/ \E s \in Spawns : plan' = [plan EXCEPT ![s] = <<>>]
    PROVE  PlanOK'
<1>1. \A s \in Spawns : plan'[s] = plan[s] \/ plan'[s] = <<>>
  BY Zenon DEF PlanOK
<1>2. plan' = [s \in Spawns |-> plan'[s]]
  BY Zenon DEF PlanOK
<1>3. <<>> \in Seq({}) /\ DOMAIN <<>> = {}
  OBVIOUS
<1>4. \A p : EntryOK(p)' <=> EntryOK(p)
  BY Zenon DEF EntryOK, Capped
<1> QED BY <1>1, <1>2, <1>3, <1>4, ZenonT(60) DEF PlanOK

\* Such a step, when it writes no table.
LEMMA QuietKeeps ==
    ASSUME IndInv, TypeOK', UNCHANGED tableVars,
           UNCHANGED plan \/ \E s \in Spawns : plan' = [plan EXCEPT ![s] = <<>>]
    PROVE  IndInv'
<1> USE DEF tableVars
<1>1. PlanOK'
  BY PlanKept, Zenon DEF IndInv
<1>2. HardStopHolds'
  BY Zenon DEF IndInv, HardStopHolds
<1> QED BY <1>1, <1>2, Zenon DEF IndInv

LEMMA UnlockedType ==
    ASSUME TypeOK, NEW s PROVE Unlocked(s) \in [Scopes -> Spawns \cup {Free}]
BY Zenon DEF TypeOK, Unlocked

LEMMA SpawnMoves ==
    ASSUME IndInv, NEW s \in Spawns,
           Start(s) \/ ReadScope(s) \/ FailFast(s) \/ SkipScope(s) \/ Finish(s)
    PROVE  IndInv'
<1>1. UNCHANGED <<tableVars, plan, lock, delta, reset, day, events>>
  BY Zenon DEF Start, ReadScope, FailFast, SkipScope, Finish, worldVars
<1>2. pc' = pc \/ \E to \in {"reading", "refused", "locking", "done", "raised"} :
                    pc' = [pc EXCEPT ![s] = to]
  BY Zenon DEF Start, ReadScope, FailFast, SkipScope, Finish
<1>3. call' = call \/ call' = [call EXCEPT ![s].day = day]
  BY Zenon DEF Start, ReadScope, FailFast, SkipScope, Finish
<1>4. over' = over \/ \E v \in BOOLEAN : over' = [over EXCEPT ![s] = v]
  BY ZenonT(60) DEF Start, ReadScope, FailFast, SkipScope, Finish
<1>5. call' \in [Spawns -> [scopes : Seq(Scopes), run : Runs, day : 0..MaxDay]]
  <2>1. [call[s] EXCEPT !.day = day]
          \in [scopes : Seq(Scopes), run : Runs, day : 0..MaxDay]
    BY ZenonT(60) DEF IndInv, TypeOK
  <2> QED BY <1>3, <2>1, ZenonT(60) DEF IndInv, TypeOK
<1>6. TypeOK'
  BY <1>1, <1>2, <1>4, <1>5, ZenonT(60) DEF IndInv, TypeOK, tableVars
<1> QED BY <1>1, <1>6, QuietKeeps, Zenon

LEMMA RunEnds ==
    ASSUME IndInv, NEW s \in Spawns, RunRaises(s) \/ \E u \in Reports : RunReturns(s, u)
    PROVE  IndInv'
<1>1. UNCHANGED <<tableVars, plan, lock, over, call, reset, day, events>>
  BY Zenon DEF RunRaises, RunReturns, worldVars
<1>2. \E to \in {"settling", "refunding"} : pc' = [pc EXCEPT ![s] = to]
  BY Zenon DEF RunRaises, RunReturns
<1>3. delta' \in [Spawns -> [Dims -> Int]]
  <2>1. Minus(Zero, Est(s)) \in [Dims -> Int]
    BY EstType DEF Minus, Zero
  <2>2. \A u \in Reports : Minus(Actual(s, u), Est(s)) \in [Dims -> Int]
    BY EstType, ActualType DEF Minus
  <2>3. \E v \in [Dims -> Int] : delta' = [delta EXCEPT ![s] = v]
    BY <2>1, <2>2, Zenon DEF RunRaises, RunReturns
  <2> QED BY <2>3, Zenon DEF IndInv, TypeOK
<1>4. TypeOK'
  BY <1>1, <1>2, <1>3, ZenonT(60) DEF IndInv, TypeOK, tableVars
<1> QED BY <1>1, <1>4, QuietKeeps, Zenon

LEMMA SpawnStops ==
    ASSUME IndInv, NEW s \in Spawns, Refuse(s) \/ ReconcileFails(s) \/ Lose(s)
    PROVE  IndInv'
<1>1. UNCHANGED <<tableVars, over, call, delta, reset, day>>
  BY Zenon DEF Refuse, ReconcileFails, Lose, worldVars
<1>2. \E to \in {"refused", "broken", "lost"} : pc' = [pc EXCEPT ![s] = to]
  BY Zenon DEF Refuse, ReconcileFails, Lose
<1>3. /\ lock' = lock \/ lock' = Unlocked(s)
      /\ plan' = plan \/ plan' = [plan EXCEPT ![s] = <<>>]
  BY Zenon DEF Refuse, ReconcileFails, Lose, Rollback
<1>4. events' = events \/ (events < MaxEvents /\ events' = events + 1)
  BY Zenon DEF Refuse, ReconcileFails, Lose, worldVars
<1>5. events' \in 0..MaxEvents
  BY <1>4, LedgerAssumption DEF IndInv, TypeOK
<1>6. TypeOK'
  BY <1>1, <1>2, <1>3, <1>5, UnlockedType DEF IndInv, TypeOK, tableVars
<1> QED BY <1>1, <1>3, <1>6, QuietKeeps, Zenon

LEMMA WorldMoves ==
    ASSUME IndInv,
           Midnight \/ \E x \in Scopes, dims \in (SUBSET Dims) \ {{}} : StartReset(x, dims)
    PROVE  IndInv'
<1>1. UNCHANGED <<tableVars, plan, lock, pc, over, call, delta>>
  BY Zenon DEF Midnight, StartReset, spawnVars
<1>2. /\ day' = day \/ (day < MaxDay /\ day' = day + 1)
      /\ events' = events \/ (events < MaxEvents /\ events' = events + 1)
  BY Zenon DEF Midnight, StartReset
<1>3. day' \in 0..MaxDay /\ events' \in 0..MaxEvents
  BY <1>2, LedgerAssumption DEF IndInv, TypeOK
<1>4. reset' \in [scope : Scopes, dims : SUBSET Dims, at : 0..MaxDay] \cup {Free}
  BY DEF Midnight, StartReset, IndInv, TypeOK
<1>5. TypeOK'
  BY <1>1, <1>3, <1>4, Zenon DEF IndInv, TypeOK, tableVars
<1> QED BY <1>1, <1>5, QuietKeeps, Zenon

-----------------------------------------------------------------------------
(* Steps that plan or write.                                               *)

\* _pg_plan_scope: what is planned has passed the check on the same numbers.
LEMMA DebitOK ==
    ASSUME IndInv, NEW s \in Spawns, NEW x, policy[x] # NoPolicy, ~Refuses(x, s)
    PROVE  EntryOK(Debit(x, s))
<1>1. SUFFICES ASSUME Bucket(x, s) \in Buckets
               PROVE  /\ Plus(usage[Bucket(x, s)].spent, Est(s)) \in Amounts
                      /\ \A d \in Dims : Capped(x, d) =>
                            Plus(usage[Bucket(x, s)].spent, Est(s))[d] <= policy[x].limit[d]
  BY ZenonT(60) DEF EntryOK, Debit, Bucket
<1>2. x \in Scopes
  BY <1>1, Zenon DEF Bucket, Buckets
<1>3. usage[Bucket(x, s)].spent \in Amounts
  BY <1>1, Zenon DEF IndInv, TypeOK
<1>4. Plus(usage[Bucket(x, s)].spent, Est(s)) \in Amounts
  BY <1>3, EstType DEF Plus, Amounts
<1>5. ASSUME NEW d \in Dims, Capped(x, d)
      PROVE  Plus(usage[Bucket(x, s)].spent, Est(s))[d] <= policy[x].limit[d]
  <2>1. ~(Plus(usage[Bucket(x, s)].spent, Est(s))[d] > policy[x].limit[d])
    BY <1>5, Zenon DEF Refuses, OverLimit, Capped
  <2>2. policy[x].limit[d] \in Nat
    BY <1>2, <1>5, LimitType, Zenon DEF Capped, IndInv
  <2>3. Plus(usage[Bucket(x, s)].spent, Est(s))[d] \in Nat
    BY <1>4, Zenon DEF Amounts
  <2> QED BY <2>1, <2>2, <2>3
<1> QED BY <1>4, <1>5, Zenon

LEMMA LockKeeps ==
    ASSUME IndInv, NEW s \in Spawns, LockScope(s) PROVE IndInv'
<1>1. PICK x : /\ policy[x] # NoPolicy /\ ~Refuses(x, s)
               /\ lock' = [lock EXCEPT ![x] = s]
               /\ plan' = [plan EXCEPT ![s] = Append(plan[s], Debit(x, s))]
  BY ZenonT(60) DEF LockScope, IndInv, PlanOK
<1>2. UNCHANGED <<tableVars, pc, over, call, delta, reset, day, events>>
  BY Zenon DEF LockScope, worldVars
<1>3. TypeOK'
  BY <1>1, <1>2, ZenonT(60) DEF IndInv, TypeOK, tableVars
<1>4. PlanOK'
  <2>1. \A p : EntryOK(p)' <=> EntryOK(p)
    BY <1>2, Zenon DEF EntryOK, Capped, tableVars
  <2>2. /\ \E S : plan'[s] \in Seq(S)
        /\ \A i \in DOMAIN plan'[s] : EntryOK(plan'[s][i])
    <3>1. PICK S : plan[s] \in Seq(S)
      BY Zenon DEF IndInv, PlanOK
    <3> DEFINE T == S \cup {Debit(x, s)}
    <3>2. plan[s] \in Seq(T) /\ Debit(x, s) \in T
      BY <3>1
    <3> HIDE DEF T
    <3>3. plan'[s] = Append(plan[s], Debit(x, s))
      BY <1>1, Zenon DEF IndInv, PlanOK
    <3>4. /\ plan'[s] \in Seq(T)
          /\ \A i \in DOMAIN plan'[s] :
                \/ i \in DOMAIN plan[s] /\ plan'[s][i] = plan[s][i]
                \/ plan'[s][i] = Debit(x, s)
      BY <3>2, <3>3
    <3> QED BY <1>1, <3>4, DebitOK, Zenon DEF IndInv, PlanOK
  <2>3. plan' = [t \in Spawns |-> plan'[t]] /\ \A t \in Spawns \ {s} : plan'[t] = plan[t]
    BY <1>1, ZenonT(60) DEF IndInv, PlanOK
  <2> QED BY <2>1, <2>2, <2>3, ZenonT(60) DEF IndInv, PlanOK
<1>5. HardStopHolds'
  BY <1>2, Zenon DEF IndInv, HardStopHolds, tableVars
<1> QED BY <1>3, <1>4, <1>5, Zenon DEF IndInv

\* A step that writes usage rows, within the limits.
LEMMA WriteKeeps ==
    ASSUME IndInv, TypeOK', UNCHANGED <<policy, edited>>,
           UNCHANGED plan \/ \E s \in Spawns : plan' = [plan EXCEPT ![s] = <<>>],
           \A b \in Buckets, d \in Dims :
               Capped(b[1], d) =>
                   usage'[b].spent[d] <= policy[b[1]].limit[d] + overrun'[b][d]
    PROVE  IndInv'
<1>1. PlanOK'
  BY PlanKept, Zenon DEF IndInv
<1>2. HardStopHolds'
  BY DEF HardStopHolds, Capped
<1> QED BY <1>1, <1>2, Zenon DEF IndInv

LEMMA CommitKeeps ==
    ASSUME IndInv, NEW s \in Spawns, Commit(s) PROVE IndInv'
<1>1. /\ usage' = Applied(s) /\ lock' = Unlocked(s)
      /\ plan' = [plan EXCEPT ![s] = <<>>] /\ pc' = [pc EXCEPT ![s] = "running"]
      /\ UNCHANGED <<policy, base, overrun, edited, over, call, delta, reset, day, events>>
  BY Zenon DEF Commit, Rollback, worldVars
<1>2. ASSUME NEW b \in Buckets
      PROVE  /\ usage'[b] \in [gen : Nat, spent : Amounts]
             /\ \A d \in Dims : Capped(b[1], d) =>
                   usage'[b].spent[d] <= policy[b[1]].limit[d] + overrun[b][d]
  <2>1. CASE ~Holds(s, b)
    <3>1. usage'[b] = usage[b]
      BY <1>1, <2>1, Zenon DEF Applied
    <3>2. b[1] \in Scopes
      BY Zenon DEF Buckets
    <3> QED BY <3>1, <3>2, CappedIs, Zenon DEF IndInv, TypeOK
  <2>2. CASE Holds(s, b)
    <3> DEFINE i == CHOOSE j \in DOMAIN plan[s] : plan[s][j].bucket = b
    <3>1. i \in DOMAIN plan[s] /\ plan[s][i].bucket = b
      BY <2>2, Zenon DEF Holds
    <3>2. usage'[b] = [usage[b] EXCEPT !.spent = plan[s][i].spent]
      BY <1>1, <2>2, Zenon DEF Applied
    <3> HIDE DEF i
    <3>3. EntryOK(plan[s][i])
      BY <3>1, Zenon DEF IndInv, PlanOK
    <3>4. usage[b] \in [gen : Nat, spent : Amounts] /\ overrun[b] \in Amounts
      BY Zenon DEF IndInv, TypeOK
    <3>5. usage'[b] \in [gen : Nat, spent : Amounts] /\ usage'[b].spent = plan[s][i].spent
      BY <3>1, <3>2, <3>3, <3>4, Zenon DEF EntryOK
    <3>6. ASSUME NEW d \in Dims, Capped(b[1], d)
          PROVE  usage'[b].spent[d] <= policy[b[1]].limit[d] + overrun[b][d]
      <4>1. usage'[b].spent[d] <= policy[b[1]].limit[d]
        BY <3>1, <3>3, <3>5, <3>6, Zenon DEF EntryOK
      <4>2. usage'[b].spent[d] \in Nat /\ overrun[b][d] \in Nat
        BY <3>4, <3>5, Zenon DEF Amounts
      <4>3. policy[b[1]].limit[d] \in Nat
        BY <3>6, LimitType, Zenon DEF Capped, Buckets, IndInv
      <4> QED BY <4>1, <4>2, <4>3
    <3> QED BY <3>5, <3>6, Zenon
  <2> QED BY <2>1, <2>2, Zenon
<1>3. usage' \in [Buckets -> [gen : Nat, spent : Amounts]]
  <2>1. usage' = [b \in Buckets |-> usage'[b]]
    BY <1>1 DEF Applied
  <2> QED BY <1>2, <2>1, Zenon
<1>4. TypeOK'
  BY <1>1, <1>3, UnlockedType, ZenonT(60) DEF IndInv, TypeOK
<1> QED BY <1>1, <1>2, <1>4, WriteKeeps, ZenonT(60)

\* reconcile_budget: a true-up adds to a bucket at most what it adds to overrun.
LEMMA ReconcileKeeps ==
    ASSUME IndInv, NEW s \in Spawns, Reconcile(s) PROVE IndInv'
<1>1. PICK w : /\ usage' = [usage EXCEPT ![w.bucket] = TruedUp(usage[w.bucket], w, delta[s])]
               /\ overrun' = [overrun EXCEPT ![w.bucket] =
                     [d \in Dims |-> overrun[w.bucket][d] + Floor(delta[s][d])]]
  BY ZenonT(60) DEF Reconcile
<1>2. UNCHANGED <<policy, base, edited, lock, pc, over, call, plan, delta, reset, day, events>>
  BY Zenon DEF Reconcile, worldVars
<1>3. \A d \in Dims : delta[s][d] \in Int
  BY Zenon DEF IndInv, TypeOK
<1>4. ASSUME NEW b \in Buckets
      PROVE  /\ usage'[b] \in [gen : Nat, spent : Amounts] /\ overrun'[b] \in Amounts
             /\ \A d \in Dims : Capped(b[1], d) =>
                   usage'[b].spent[d] <= policy[b[1]].limit[d] + overrun'[b][d]
  <2>1. /\ usage[b] \in [gen : Nat, spent : Amounts] /\ overrun[b] \in Amounts
        /\ \A d \in Dims : Capped(b[1], d) =>
              /\ usage[b].spent[d] <= policy[b[1]].limit[d] + overrun[b][d]
              /\ policy[b[1]].limit[d] \in Nat
    BY CappedIs, LimitType, ZenonT(60) DEF IndInv, TypeOK, Buckets, Capped
  <2>2. CASE b # w.bucket
    <3>1. usage'[b] = usage[b] /\ overrun'[b] = overrun[b]
      BY <1>1, <2>2, ZenonT(60) DEF IndInv, TypeOK
    <3> QED BY <2>1, <3>1, Zenon
  <2>3. CASE b = w.bucket
    <3>1. /\ usage'[b] = TruedUp(usage[b], w, delta[s])
          /\ overrun'[b] = [d \in Dims |-> overrun[b][d] + Floor(delta[s][d])]
      BY <1>1, <2>3, Zenon DEF IndInv, TypeOK
    <3>2. overrun'[b] \in Amounts
      BY <1>3, <2>1, <3>1, FloorNat DEF Amounts
    <3>3. /\ usage'[b] \in [gen : Nat, spent : Amounts]
          /\ \/ usage'[b] = usage[b]
             \/ usage'[b].spent = [d \in Dims |-> Floor(usage[b].spent[d] + delta[s][d])]
      <4>1. [d \in Dims |-> Floor(usage[b].spent[d] + delta[s][d])] \in Amounts
        BY <1>3, <2>1, FloorNat DEF Amounts
      <4> QED BY <2>1, <3>1, <4>1, Zenon DEF TruedUp
    <3>4. ASSUME NEW d \in Dims, Capped(b[1], d)
          PROVE  usage'[b].spent[d] <= policy[b[1]].limit[d] + overrun'[b][d]
      <4>1. usage[b].spent[d] \in Nat /\ overrun[b][d] \in Nat
        BY <2>1, Zenon DEF Amounts
      <4>2. overrun'[b][d] = overrun[b][d] + Floor(delta[s][d])
        BY <3>1, Zenon
      <4>3. \/ usage'[b].spent[d] = usage[b].spent[d]
            \/ usage'[b].spent[d] = Floor(usage[b].spent[d] + delta[s][d])
        BY <3>3, Zenon
      <4>4. /\ usage[b].spent[d] <= policy[b[1]].limit[d] + overrun'[b][d]
            /\ Floor(usage[b].spent[d] + delta[s][d]) <= policy[b[1]].limit[d] + overrun'[b][d]
        BY <1>3, <2>1, <3>4, <4>1, <4>2, TrueUpBound, Zenon
      <4> QED BY <4>3, <4>4, Zenon
    <3> QED BY <3>2, <3>3, <3>4, Zenon
  <2> QED BY <2>2, <2>3, Zenon
<1>5. /\ usage' \in [Buckets -> [gen : Nat, spent : Amounts]]
      /\ overrun' \in [Buckets -> Amounts]
  <2>1. /\ usage' = [b \in Buckets |-> usage'[b]]
        /\ overrun' = [b \in Buckets |-> overrun'[b]]
    BY <1>1, ZenonT(60) DEF IndInv, TypeOK
  <2> QED BY <1>4, <2>1, Zenon
<1>6. TypeOK'
  BY <1>2, <1>5, ZenonT(60) DEF IndInv, TypeOK
<1> QED BY <1>2, <1>4, <1>6, WriteKeeps, Zenon

LEMMA ResetKeeps == ASSUME IndInv, ResetUsage PROVE IndInv'
<1>1. /\ reset' = Free
      /\ UNCHANGED <<policy, overrun, edited, lock, pc, over, call, plan, delta, day, events>>
  BY Zenon DEF ResetUsage, spawnVars
<1>2. \/ UNCHANGED <<usage, base>>
      \/ \E b \in Buckets : /\ usage' = [usage EXCEPT ![b] = Cleared(usage[b], reset.dims)]
                            /\ base' = [base EXCEPT ![b] = usage'[b].spent]
  <2>1. CASE policy[reset.scope] = NoPolicy \/ policy[reset.scope].window = "run"
    BY <2>1, Zenon DEF ResetUsage
  <2>2. CASE policy[reset.scope] # NoPolicy /\ policy[reset.scope].window # "run"
    <3>1. reset.scope \in Scopes /\ reset.at \in 0..MaxDay
      BY Zenon DEF ResetUsage, IndInv, TypeOK
    <3>2. policy[reset.scope].window \in Windows
      BY <2>2, <3>1, LedgerAssumption, ZenonT(60) DEF IndInv, TypeOK, Policy
    <3>3. <<reset.scope, Key(policy[reset.scope].window, NoRun, reset.at)>> \in Buckets
      BY <2>2, <3>1, <3>2, KeyType, Zenon DEF Buckets
    <3> QED BY <2>2, <3>3, Zenon DEF ResetUsage
  <2> QED BY <2>1, <2>2, Zenon
<1>3. CASE UNCHANGED <<usage, base>>
  <2>1. TypeOK'
    BY <1>1, <1>3, ZenonT(60) DEF IndInv, TypeOK
  <2> QED BY <1>1, <1>3, <2>1, QuietKeeps, Zenon DEF tableVars
<1>4. ASSUME NEW c \in Buckets,
             usage' = [usage EXCEPT ![c] = Cleared(usage[c], reset.dims)],
             base' = [base EXCEPT ![c] = usage'[c].spent]
      PROVE  IndInv'
  <2>1. ASSUME NEW b \in Buckets
        PROVE  /\ usage'[b] \in [gen : Nat, spent : Amounts]
               /\ \A d \in Dims : usage'[b].spent[d] \in {0, usage[b].spent[d]}
    <3>1. usage[b] \in [gen : Nat, spent : Amounts]
      BY Zenon DEF IndInv, TypeOK
    <3>2. usage'[b] = usage[b] \/ usage'[b] = Cleared(usage[b], reset.dims)
      BY <1>4, Zenon DEF IndInv, TypeOK
    <3>3. /\ Cleared(usage[b], reset.dims) \in [gen : Nat, spent : Amounts]
          /\ \A d \in Dims :
                Cleared(usage[b], reset.dims).spent[d] \in {0, usage[b].spent[d]}
      BY <3>1 DEF Cleared, Amounts
    <3> QED BY <3>1, <3>2, <3>3, Zenon
  <2>2. usage' \in [Buckets -> [gen : Nat, spent : Amounts]]
    <3>1. usage' = [b \in Buckets |-> usage'[b]]
      BY <1>4, ZenonT(60) DEF IndInv, TypeOK
    <3> QED BY <2>1, <3>1, Zenon
  <2>3. base' \in [Buckets -> Amounts]
    BY <1>4, <2>1, Zenon DEF IndInv, TypeOK
  <2>4. TypeOK'
    BY <1>1, <2>2, <2>3, Zenon DEF IndInv, TypeOK
  <2>5. ASSUME NEW b \in Buckets, NEW d \in Dims, Capped(b[1], d)
        PROVE  usage'[b].spent[d] <= policy[b[1]].limit[d] + overrun'[b][d]
    <3>1. b[1] \in Scopes
      BY Zenon DEF Buckets
    <3>2. policy[b[1]].limit[d] \in Nat
      BY <2>5, <3>1, LimitType, Zenon DEF Capped, IndInv
    <3>3. overrun[b][d] \in Nat /\ usage[b].spent[d] \in Nat
      BY DEF IndInv, TypeOK, Amounts
    <3>4. usage[b].spent[d] <= policy[b[1]].limit[d] + overrun[b][d]
      BY <2>5, <3>1, CappedIs, Zenon DEF IndInv
    <3>5. 0 <= policy[b[1]].limit[d] + overrun[b][d]
      BY <3>2, <3>3
    <3>6. usage'[b].spent[d] = 0 \/ usage'[b].spent[d] = usage[b].spent[d]
      BY <2>1, Zenon
    <3> QED BY <1>1, <3>4, <3>5, <3>6, Zenon
  <2> QED BY <1>1, <2>4, <2>5, WriteKeeps, Zenon
<1> QED BY <1>2, <1>3, <1>4, Zenon

\* control.budget.upsert: the replaced policy's scope promises nothing any more.
LEMMA UpsertKeeps ==
    ASSUME IndInv, NEW x \in Scopes, NEW q \in Policies, UpsertPolicy(x, q)
    PROVE  IndInv'
<1>1. /\ policy' = [policy EXCEPT ![x] = q] /\ edited' = edited \cup {x}
      /\ events < MaxEvents /\ events' = events + 1
      /\ UNCHANGED <<usage, base, overrun, lock, pc, over, call, plan, delta, reset, day>>
  BY Zenon DEF UpsertPolicy, spawnVars
<1>2. events' \in 0..MaxEvents
  BY <1>1, LedgerAssumption, Counting, Zenon DEF IndInv, TypeOK
<1>3. TypeOK'
  BY <1>1, <1>2, Zenon DEF IndInv, TypeOK
<1>4. ASSUME NEW y \in Scopes, NEW d, Capped(y, d)'
      PROVE  Capped(y, d) /\ policy'[y] = policy[y]
  <2>1. y # x /\ y \notin edited
    BY <1>1, <1>4, Zenon DEF Capped
  <2>2. policy \in [Scopes -> Policies \cup {NoPolicy}]
    BY Zenon DEF IndInv, TypeOK
  <2>3. policy'[y] = policy[y]
    BY <1>1, <2>1, <2>2, Zenon
  <2> QED BY <1>4, <2>1, <2>3, Zenon DEF Capped
<1>5. PlanOK'
  <2>1. \A b \in Buckets : b[1] \in Scopes
    BY Zenon DEF Buckets
  <2>2. \A p : EntryOK(p) => EntryOK(p)'
    BY <1>4, <2>1, Zenon DEF EntryOK
  <2> QED BY <1>1, <2>2, Zenon DEF IndInv, PlanOK
<1>6. HardStopHolds'
  <2>1. ASSUME NEW y \in Scopes, NEW b \in Buckets, NEW d \in Dims,
               Capped(y, d)', b[1] = y
        PROVE  usage'[b].spent[d] <= policy'[y].limit[d] + overrun'[b][d]
    BY <1>1, <1>4, <2>1, CappedIs, Zenon DEF IndInv
  <2> QED BY <2>1, Zenon DEF HardStopHolds, Capped
<1> QED BY <1>3, <1>5, <1>6, Zenon DEF IndInv

-----------------------------------------------------------------------------

LEMMA InitInv == Init => IndInv
<1> SUFFICES ASSUME Init PROVE IndInv
  BY Zenon
<1>1. Zero \in Amounts /\ Zero \in [Dims -> Int] /\ \A d \in Dims : Zero[d] = 0
  BY DEF Zero, Amounts
<1>2. /\ policy \in [Scopes -> Policies \cup {NoPolicy}]
      /\ call \in [Spawns -> [scopes : Seq(Scopes), run : Runs, day : 0..MaxDay]]
  <2>1. PICK i \in Initial :
           /\ policy = i.policy
           /\ call = [s \in Spawns |-> [scopes |-> i.scopes[s], run |-> i.run[s], day |-> 0]]
    BY Zenon DEF Init
  <2>2. /\ i.policy \in [Scopes -> Policies \cup {NoPolicy}]
        /\ \A s \in Spawns : i.scopes[s] \in Seq(Scopes) /\ i.run[s] \in Runs
    BY LedgerAssumption, Zenon
  <2>3. 0 \in 0..MaxDay
    BY LedgerAssumption, Counting, Zenon
  <2> QED BY <2>1, <2>2, <2>3, Zenon
<1>3. usage \in [Buckets -> [gen : Nat, spent : Amounts]]
  BY <1>1, Zenon DEF Init
<1>4. TypeOK
  <2>1. day \in 0..MaxDay /\ events \in 0..MaxEvents
    BY LedgerAssumption, Counting, Zenon DEF Init
  <2>2. /\ lock \in [Scopes -> Spawns \cup {Free}]
        /\ reset \in [scope : Scopes, dims : SUBSET Dims, at : 0..MaxDay] \cup {Free}
        /\ edited \subseteq Scopes
    BY Zenon DEF Init
  <2>3. /\ pc \in [Spawns -> {"idle", "reading", "locking", "running", "settling",
                              "refunding", "done", "raised", "refused", "broken", "lost"}]
        /\ over \in [Spawns -> BOOLEAN] /\ delta \in [Spawns -> [Dims -> Int]]
    BY <1>1, Zenon DEF Init
  <2>4. base \in [Buckets -> Amounts] /\ overrun \in [Buckets -> Amounts]
    BY <1>1, Zenon DEF Init
  <2> QED BY <1>2, <1>3, <2>1, <2>2, <2>3, <2>4, Zenon DEF TypeOK
<1>5. PlanOK
  <2>1. <<>> \in Seq({}) /\ DOMAIN <<>> = {}
    OBVIOUS
  <2>2. plan = [s \in Spawns |-> plan[s]] /\ \A s \in Spawns : plan[s] = <<>>
    BY Zenon DEF Init
  <2> QED BY <2>1, <2>2, ZenonT(60) DEF PlanOK
<1>6. HardStopHolds
  <2>1. ASSUME NEW x \in Scopes, NEW b \in Buckets, NEW d \in Dims, Capped(x, d)
        PROVE  usage[b].spent[d] <= policy[x].limit[d] + overrun[b][d]
    <3>1. policy[x].limit[d] \in Nat
      BY <1>4, <2>1, LimitType, Zenon DEF Capped
    <3>2. usage[b].spent[d] = 0 /\ overrun[b][d] = 0
      BY <1>1, Zenon DEF Init
    <3> QED BY <3>1, <3>2
  <2> QED BY <2>1, CappedIs, Zenon
<1> QED BY <1>4, <1>5, <1>6, Zenon DEF IndInv

LEMMA NextInv == IndInv /\ [Next]_vars => IndInv'
<1> SUFFICES ASSUME IndInv, [Next]_vars PROVE IndInv'
  BY Zenon
<1>1. CASE UNCHANGED vars
  <2>1. TypeOK'
    BY <1>1, Zenon DEF IndInv, TypeOK, vars
  <2> QED BY <1>1, <2>1, QuietKeeps, Zenon DEF vars, tableVars
<1>2. ASSUME NEW s \in Spawns, SpawnStep(s) PROVE IndInv'
  BY <1>2, SpawnMoves, RunEnds, SpawnStops, LockKeeps, CommitKeeps, ReconcileKeeps, Zenon
  DEF SpawnStep
<1> QED
  BY <1>1, <1>2, SpawnStops, WorldMoves, UpsertKeeps, ResetKeeps, Zenon DEF Next

(* IndInv holds in every reachable state. *)
THEOREM Invariance == Spec => []IndInv
BY InitInv, NextInv, PTL DEF Spec

(* Every variable of the ledger and of the spawns keeps its type; usage    *)
(* rows stay natural numbers because reconcile_budget floors at zero.      *)
THEOREM TypeCorrect == Spec => []TypeOK
<1>1. IndInv => TypeOK
  BY Zenon DEF IndInv
<1> QED BY <1>1, Invariance, PTL

(* CostAccountant.reserve: while its policy stands, a hard-stop bucket     *)
(* exceeds a limit only by what runs used above their estimates, because   *)
(* every planned debit passed the check and a true-up adds no more than    *)
(* its overrun.                                                            *)
THEOREM HardStopAlwaysHolds == Spec => []HardStopHolds
<1>1. IndInv => HardStopHolds
  BY Zenon DEF IndInv
<1> QED BY <1>1, Invariance, PTL

-----------------------------------------------------------------------------
(* What a spawn has reserved, owes and still has to do.                    *)

\* A reservation as the spawn keeps it (BudgetReservation.refs).
Reserved == [bucket : Buckets, gen : Nat]

\* What a spawn has reserved: one window a bucket, of a generation that was
\* the bucket's when it committed.
RefsOK(s) ==
    /\ pc[s] \in {"idle", "reading", "locking", "refused"} => refs[s] = <<>>
    /\ refs[s] \in Seq(Reserved)
    /\ \A i, k \in DOMAIN refs[s] : refs[s][i].bucket = refs[s][k].bucket => i = k
    /\ \A i \in DOMAIN refs[s] : refs[s][i].gen <= usage[refs[s][i].bucket].gen

\* What it has still to do: scopes to lock, then windows to true up.
TodoOK(s) ==
    /\ pc[s] \in {"reading", "locking"} => todo[s] \in Seq(Scopes)
    /\ pc[s] = "running" => todo[s] = refs[s]
    /\ pc[s] \in {"settling", "refunding"} =>
          /\ todo[s] \in Seq(Reserved) /\ IsInjective(todo[s])
          /\ Range(todo[s]) \subseteq Range(refs[s])
    /\ pc[s] \in {"done", "raised"} => todo[s] = <<>>

\* The true-up makes the estimate what the run cost, or nothing.
PaidOK(s) ==
    /\ pc[s] \in {"settling", "done"} =>
          report[s] \in Reports /\ delta[s] = Minus(Actual(s, report[s]), Est(s))
    /\ pc[s] \in {"refunding", "raised"} => delta[s] = Minus(Zero, Est(s))
    /\ \A d \in Dims : Est(s)[d] + delta[s][d] \in Nat

\* A planned debit is what the locked row holds plus the estimate, and stays so.
DebitStands(s, p) ==
    /\ p.bucket \in Buckets /\ lock[p.bucket[1]] = s
    /\ p.gen = usage[p.bucket].gen
    /\ p.spent = Plus(usage[p.bucket].spent, Est(s))

\* Only a spawn inside its reservation transaction has planned debits, one
\* a locked row.
HeldOK(s) ==
    /\ \A i \in DOMAIN plan[s] : DebitStands(s, plan[s][i])
    /\ \A i, k \in DOMAIN plan[s] : plan[s][i].bucket[1] = plan[s][k].bucket[1] => i = k
    /\ plan[s] # <<>> => pc[s] = "locking"

SpawnOK(s) == RefsOK(s) /\ TodoOK(s) /\ PaidOK(s) /\ HeldOK(s)

\* Per-spawn state is a function on the spawns.
Forms ==
    /\ refs = [s \in Spawns |-> refs[s]]
    /\ todo = [s \in Spawns |-> todo[s]]
    /\ report = [s \in Spawns |-> report[s]]

\* The inductive invariant of the balance.
LedgerInv ==
    /\ IndInv /\ Forms
    /\ \A s \in Spawns : SpawnOK(s)
    /\ LedgerBalances

\* An estimate depends on no variable.
LEMMA EstKept == ASSUME NEW s PROVE Est(s)' = Est(s)
BY Zenon DEF Est, Estimates

\* Taking the head off a queue.
LEMMA TailOf ==
    ASSUME NEW S, NEW q \in Seq(S), q # <<>>
    PROVE  /\ Head(q) \in S /\ Tail(q) \in Seq(S)
           /\ Range(q) = {Head(q)} \cup Range(Tail(q))
           /\ IsInjective(q) => IsInjective(Tail(q)) /\ Head(q) \notin Range(Tail(q))
<1>1. /\ Head(q) \in S /\ Head(q) = q[1] /\ Tail(q) \in Seq(S)
      /\ DOMAIN q = 1..Len(q) /\ DOMAIN Tail(q) = 1..(Len(q) - 1) /\ Len(q) \in Nat \ {0}
      /\ \A i \in 1..(Len(q) - 1) : Tail(q)[i] = q[i + 1]
  OBVIOUS
<1>2. Range(q) = {Head(q)} \cup Range(Tail(q))
  <2>1. \A i \in DOMAIN q : i = 1 \/ (i - 1 \in DOMAIN Tail(q) /\ Tail(q)[i - 1] = q[i])
    BY <1>1
  <2>2. \A i \in DOMAIN Tail(q) : i + 1 \in DOMAIN q /\ q[i + 1] = Tail(q)[i]
    BY <1>1
  <2>3. 1 \in DOMAIN q
    BY <1>1
  <2>4. ASSUME NEW i \in DOMAIN q PROVE q[i] = Head(q) \/ q[i] \in Range(Tail(q))
    BY <1>1, <2>1, Zenon DEF Range
  <2>5. ASSUME NEW i \in DOMAIN Tail(q) PROVE Tail(q)[i] \in Range(q)
    BY <2>2, Zenon DEF Range
  <2>6. Head(q) \in Range(q)
    BY <1>1, <2>3, Zenon DEF Range
  <2>7. /\ \A x \in Range(q) : x = Head(q) \/ x \in Range(Tail(q))
        /\ \A x \in Range(Tail(q)) : x \in Range(q)
    BY <2>4, <2>5, Zenon DEF Range
  <2> QED BY <2>6, <2>7, Zenon
<1>3. ASSUME IsInjective(q) PROVE IsInjective(Tail(q)) /\ Head(q) \notin Range(Tail(q))
  BY <1>1, <1>3 DEF IsInjective, Range
<1> QED BY <1>1, <1>2, <1>3, Zenon

\* The empty queue.
LEMMA EmptyOf ==
    ASSUME NEW S
    PROVE  /\ <<>> \in Seq(S) /\ DOMAIN <<>> = {} /\ Range(<<>>) = {} /\ IsInjective(<<>>)
BY DEF Range, IsInjective

\* What a usage row holds.
LEMMA UsageType ==
    ASSUME TypeOK, NEW b \in Buckets
    PROVE  /\ usage[b].gen \in Nat /\ usage[b].spent \in Amounts
           /\ \A d \in Dims : usage[b].spent[d] \in Nat /\ base[b][d] \in Nat
BY DEF TypeOK, Amounts

\* The row of a planned debit is locked.
LEMMA HoldsLocks ==
    ASSUME NEW t, HeldOK(t), NEW b, Holds(t, b) PROVE lock[b[1]] = t
BY Zenon DEF Holds, HeldOK, DebitStands

\* Reservations stand as long as no generation goes back.
LEMMA RefsKept ==
    ASSUME TypeOK, TypeOK', NEW t \in Spawns, RefsOK(t), pc'[t] = pc[t], refs'[t] = refs[t],
           \A b \in Buckets : usage[b].gen <= usage'[b].gen
    PROVE  RefsOK(t)'
<1>1. \A i \in DOMAIN refs[t] : refs[t][i].bucket \in Buckets /\ refs[t][i].gen \in Nat
  <2>1. \A i \in DOMAIN refs[t] : refs[t][i] \in Reserved
    BY DEF RefsOK
  <2> QED BY <2>1, Zenon DEF Reserved
<1>2. \A b \in Buckets : usage[b].gen \in Nat /\ usage'[b].gen \in Nat
  BY Zenon DEF TypeOK
<1>3. \A i \in DOMAIN refs[t] : refs[t][i].gen <= usage'[refs[t][i].bucket].gen
  BY <1>1, <1>2 DEF RefsOK
<1> QED BY <1>3, Zenon DEF RefsOK, Reserved, Buckets

\* A spawn that a step leaves alone, and whose planned rows nobody writes.
LEMMA Untouched ==
    ASSUME TypeOK, TypeOK', NEW t \in Spawns, SpawnOK(t),
           pc'[t] = pc[t], todo'[t] = todo[t], refs'[t] = refs[t],
           delta'[t] = delta[t], report'[t] = report[t], plan'[t] = plan[t],
           \A x \in Scopes : lock[x] = t => lock'[x] = t,
           \A b \in Buckets : usage[b].gen <= usage'[b].gen,
           \A b \in Buckets : Holds(t, b) => usage'[b] = usage[b]
    PROVE  SpawnOK(t)'
<1>1. RefsOK(t)'
  BY RefsKept, Zenon DEF SpawnOK
<1>2. TodoOK(t)'
  BY Zenon DEF SpawnOK, TodoOK, Reserved
<1>3. PaidOK(t)'
  BY Zenon DEF SpawnOK, PaidOK
<1>4. ASSUME NEW p, DebitStands(t, p), Holds(t, p.bucket) PROVE DebitStands(t, p)'
  <2>1. p.bucket[1] \in Scopes
    BY <1>4, Zenon DEF DebitStands, Buckets
  <2> QED BY <1>4, <2>1, EstKept, Zenon DEF DebitStands
<1>5. \A i \in DOMAIN plan[t] : Holds(t, plan[t][i].bucket)
  BY Zenon DEF Holds
<1>6. HeldOK(t)'
  BY <1>4, <1>5, Zenon DEF SpawnOK, HeldOK
<1> QED BY <1>1, <1>2, <1>3, <1>6, Zenon DEF SpawnOK

\* What a step of one spawn may write of the spawns' own state.
LEMMA OneSpawn ==
    ASSUME NEW s \in Spawns, SpawnStep(s) \/ ReconcileFails(s) \/ Lose(s)
    PROVE  /\ pc' = pc \/ \E v : pc' = [pc EXCEPT ![s] = v]
           /\ todo' = todo \/ \E v : todo' = [todo EXCEPT ![s] = v]
           /\ refs' = refs \/ \E v : refs' = [refs EXCEPT ![s] = v]
           /\ delta' = delta \/ \E v : delta' = [delta EXCEPT ![s] = v]
           /\ report' = report \/ \E v : report' = [report EXCEPT ![s] = v]
           /\ plan' = plan \/ \E v : plan' = [plan EXCEPT ![s] = v]
<1> USE DEF SpawnStep
<1>1. pc' = pc \/ \E v : pc' = [pc EXCEPT ![s] = v]
  BY Zenon DEF Start, ReadScope, FailFast, SkipScope, LockScope, Refuse, Commit, RunReturns,
         RunRaises, Reconcile, Finish, ReconcileFails, Lose
<1>2. todo' = todo \/ \E v : todo' = [todo EXCEPT ![s] = v]
  BY Zenon DEF Start, ReadScope, FailFast, SkipScope, LockScope, Refuse, Commit, RunReturns,
         RunRaises, Reconcile, Finish, ReconcileFails, Lose
<1>3. refs' = refs \/ \E v : refs' = [refs EXCEPT ![s] = v]
  BY Zenon DEF Start, ReadScope, FailFast, SkipScope, LockScope, Refuse, Commit, RunReturns,
         RunRaises, Reconcile, Finish, ReconcileFails, Lose
<1>4. delta' = delta \/ \E v : delta' = [delta EXCEPT ![s] = v]
  BY Zenon DEF Start, ReadScope, FailFast, SkipScope, LockScope, Refuse, Commit, RunReturns,
         RunRaises, Reconcile, Finish, ReconcileFails, Lose
<1>5. report' = report \/ \E v : report' = [report EXCEPT ![s] = v]
  BY Zenon DEF Start, ReadScope, FailFast, SkipScope, LockScope, Refuse, Commit, RunReturns,
         RunRaises, Reconcile, Finish, ReconcileFails, Lose
<1>6. plan' = plan \/ \E v : plan' = [plan EXCEPT ![s] = v]
  BY Zenon DEF Start, ReadScope, FailFast, SkipScope, LockScope, Refuse, Commit, RunReturns,
         RunRaises, Reconcile, Finish, ReconcileFails, Lose, Rollback
<1> QED BY <1>1, <1>2, <1>3, <1>4, <1>5, <1>6, Zenon

\* Nobody takes a lock another spawn holds.
LEMMA OthersLocks ==
    ASSUME TypeOK, NEW s \in Spawns, SpawnStep(s) \/ ReconcileFails(s) \/ Lose(s),
           NEW t \in Spawns, t # s
    PROVE  \A x \in Scopes : lock[x] = t => lock'[x] = t
<1>1. \/ lock' = lock \/ lock' = Unlocked(s)
      \/ \E y : lock[y] = Free /\ lock' = [lock EXCEPT ![y] = s]
  BY Zenon DEF SpawnStep, Start, ReadScope, FailFast, SkipScope, LockScope, Refuse, Commit,
         RunReturns, RunRaises, Reconcile, Finish, ReconcileFails, Lose, Rollback
<1> QED BY <1>1, LedgerAssumption, ZenonT(60) DEF Unlocked, TypeOK

\* The other spawns keep what they have.
LEMMA OthersKept ==
    ASSUME IndInv, Forms, NEW s \in Spawns, SpawnStep(s) \/ ReconcileFails(s) \/ Lose(s)
    PROVE  /\ Forms'
           /\ \A t \in Spawns \ {s} :
                 /\ pc'[t] = pc[t] /\ todo'[t] = todo[t] /\ refs'[t] = refs[t]
                 /\ delta'[t] = delta[t] /\ report'[t] = report[t] /\ plan'[t] = plan[t]
<1>1. /\ pc = [t \in Spawns |-> pc[t]] /\ todo = [t \in Spawns |-> todo[t]]
      /\ refs = [t \in Spawns |-> refs[t]] /\ delta = [t \in Spawns |-> delta[t]]
      /\ report = [t \in Spawns |-> report[t]] /\ plan = [t \in Spawns |-> plan[t]]
  BY ZenonT(60) DEF IndInv, TypeOK, PlanOK, Forms
<1>2. \A f, v, g : f = [t \in Spawns |-> f[t]] /\ (g = f \/ g = [f EXCEPT ![s] = v]) =>
         g = [t \in Spawns |-> g[t]] /\ \A t \in Spawns \ {s} : g[t] = f[t]
  BY Zenon
<1>3. Forms'
  BY <1>1, <1>2, OneSpawn, Zenon DEF Forms
<1>4. \A t \in Spawns \ {s} : pc'[t] = pc[t]
  <2>1. pc' = pc \/ \E v : pc' = [pc EXCEPT ![s] = v]
    BY OneSpawn, Zenon
  <2> QED BY <1>1, <2>1, Zenon
<1>5. \A t \in Spawns \ {s} : todo'[t] = todo[t]
  <2>1. todo' = todo \/ \E v : todo' = [todo EXCEPT ![s] = v]
    BY OneSpawn, Zenon
  <2> QED BY <1>1, <2>1, Zenon
<1>6. \A t \in Spawns \ {s} : refs'[t] = refs[t]
  <2>1. refs' = refs \/ \E v : refs' = [refs EXCEPT ![s] = v]
    BY OneSpawn, Zenon
  <2> QED BY <1>1, <2>1, Zenon
<1>7. \A t \in Spawns \ {s} : delta'[t] = delta[t]
  <2>1. delta' = delta \/ \E v : delta' = [delta EXCEPT ![s] = v]
    BY OneSpawn, Zenon
  <2> QED BY <1>1, <2>1, Zenon
<1>8. \A t \in Spawns \ {s} : report'[t] = report[t]
  <2>1. report' = report \/ \E v : report' = [report EXCEPT ![s] = v]
    BY OneSpawn, Zenon
  <2> QED BY <1>1, <2>1, Zenon
<1>9. \A t \in Spawns \ {s} : plan'[t] = plan[t]
  <2>1. plan' = plan \/ \E v : plan' = [plan EXCEPT ![s] = v]
    BY OneSpawn, Zenon
  <2> QED BY <1>1, <2>1, Zenon
<1> QED BY <1>3, <1>4, <1>5, <1>6, <1>7, <1>8, <1>9, Zenon

-----------------------------------------------------------------------------
(* The balance.                                                            *)

\* What each spawn owes a bucket.
Debts(b, d) == [s \in Spawns |-> Owed(s, b, d)]

\* The balance, over the debts as a function.
LEMMA BalanceIs ==
    LedgerBalances <=>
        \A b \in Buckets, d \in Dims :
            usage[b].spent[d] = base[b][d] + SumFunctionOnSet(Debts(b, d), Spawns)
BY Zenon DEF LedgerBalances, SumFunction, Debts

\* The window a reservation made now would name.
Window(b) == [bucket |-> b, gen |-> usage[b].gen]

\* A debt is nothing, the estimate, or what the run cost.
LEMMA OwedIs ==
    ASSUME NEW s, NEW b, NEW d
    PROVE  Owed(s, b, d) = IF Window(b) \notin Range(refs[s]) THEN 0
                           ELSE IF Window(b) \in Range(todo[s]) THEN Est(s)[d]
                           ELSE Est(s)[d] + delta[s][d]
BY Zenon DEF Owed, Window

\* A debt is a natural.
LEMMA OwedType ==
    ASSUME NEW s \in Spawns, PaidOK(s), NEW b, NEW d \in Dims
    PROVE  Owed(s, b, d) \in Nat
BY EstType, OwedIs, Zenon DEF PaidOK

\* Steps that write no usage and change no debt.
LEMMA BalanceKept ==
    ASSUME LedgerBalances, UNCHANGED <<usage, base>>,
           \A s \in Spawns, b \in Buckets, d \in Dims : Owed(s, b, d)' = Owed(s, b, d)
    PROVE  LedgerBalances'
<1>1. \A b \in Buckets, d \in Dims : Debts(b, d)' = Debts(b, d)
  BY Zenon DEF Debts
<1> QED BY <1>1, BalanceIs, Zenon DEF LedgerBalances, SumFunction, Debts

-----------------------------------------------------------------------------
(* Steps that leave usage alone.                                           *)

\* What remains to be shown of a step of one spawn that writes no usage.
LEMMA QuietStep ==
    ASSUME LedgerInv, NEW s \in Spawns, SpawnStep(s) \/ ReconcileFails(s) \/ Lose(s),
           IndInv', UNCHANGED <<usage, base>>, SpawnOK(s)',
           \A b \in Buckets, d \in Dims : Owed(s, b, d)' = Owed(s, b, d)
    PROVE  LedgerInv'
<1>1. Forms' /\ \A t \in Spawns \ {s} :
                   /\ pc'[t] = pc[t] /\ todo'[t] = todo[t] /\ refs'[t] = refs[t]
                   /\ delta'[t] = delta[t] /\ report'[t] = report[t] /\ plan'[t] = plan[t]
  BY OthersKept, Zenon DEF LedgerInv
<1>2. TypeOK /\ TypeOK'
  BY Zenon DEF LedgerInv, IndInv
<1>3. ASSUME NEW t \in Spawns, t # s PROVE SpawnOK(t)'
  <2>1. \A b \in Buckets : usage[b].gen <= usage'[b].gen
    BY <1>2, UsageType
  <2>2. \A x \in Scopes : lock[x] = t => lock'[x] = t
    BY <1>2, <1>3, OthersLocks, Zenon
  <2> QED BY <1>1, <1>2, <1>3, <2>1, <2>2, Untouched, Zenon DEF LedgerInv
<1>4. ASSUME NEW t \in Spawns, NEW b \in Buckets, NEW d \in Dims
      PROVE  Owed(t, b, d)' = Owed(t, b, d)
  <2>1. CASE t # s
    BY <1>1, <2>1, EstKept, Zenon DEF Owed
  <2> QED BY <2>1, Zenon
<1>5. LedgerBalances'
  BY <1>4, BalanceKept, Zenon DEF LedgerInv
<1> QED BY <1>1, <1>3, <1>5, Zenon DEF LedgerInv

\* Before its commit a spawn owes nothing.
LEMMA OwesNothing ==
    ASSUME NEW s, NEW b, NEW d, refs[s] = <<>> PROVE Owed(s, b, d) = 0
BY OwedIs, EmptyOf, Zenon

\* The lock order is a reordering of the scopes.
LEMMA InOrderType ==
    ASSUME NEW list \in Seq(Scopes) PROVE InOrder(list) \subseteq Seq(Scopes)
<1>1. DOMAIN list = 1..Len(list) /\ Len(list) \in Nat /\ Range(list) \subseteq Scopes
  BY DEF Range
<1>2. \A f \in [1..Len(list) -> Scopes] : f \in Seq(Scopes)
  BY <1>1
<1>3. ASSUME NEW f \in [DOMAIN list -> Range(list)] PROVE f \in [1..Len(list) -> Scopes]
  BY <1>1, Zenon
<1> QED BY <1>2, <1>3, Zenon DEF InOrder

\* Before the first lock.
LEMMA ReservingKeeps ==
    ASSUME LedgerInv, IndInv', NEW s \in Spawns,
           Start(s) \/ ReadScope(s) \/ FailFast(s) \/ SkipScope(s)
    PROVE  LedgerInv'
<1>1. UNCHANGED <<usage, base, refs, delta, report, plan, lock>>
  BY Zenon DEF Start, ReadScope, FailFast, SkipScope, tableVars
<1>2. pc[s] \in {"idle", "reading", "locking"} /\ pc'[s] \in {"reading", "locking", "refused"}
      /\ (pc[s] = "locking" => pc'[s] = "locking")
  BY Zenon DEF Start, ReadScope, FailFast, SkipScope, LedgerInv, IndInv, TypeOK
<1>3. refs[s] = <<>>
  BY <1>2, Zenon DEF LedgerInv, SpawnOK, RefsOK
<1>4. pc'[s] # "refused" => todo'[s] \in Seq(Scopes)
  <2>1. call[s].scopes \in Seq(Scopes)
    BY Zenon DEF LedgerInv, IndInv, TypeOK
  <2>2. pc[s] # "idle" => todo[s] \in Seq(Scopes)
    BY <1>2, Zenon DEF LedgerInv, SpawnOK, TodoOK
  <2>3. todo[s] # <<>> /\ pc[s] # "idle" => Tail(todo[s]) \in Seq(Scopes)
    BY <2>2
  <2>4. CASE Start(s)
    BY <2>1, <2>4, Zenon DEF Start, LedgerInv, Forms
  <2>5. CASE ReadScope(s) \/ SkipScope(s)
    <3>1. todo' = [todo EXCEPT ![s] = Tail(todo[s])] /\ todo[s] # <<>> /\ pc[s] # "idle"
      BY <2>5, Zenon DEF ReadScope, SkipScope
    <3> QED BY <2>3, <3>1, Zenon DEF LedgerInv, Forms
  <2>6. CASE FailFast(s)
    BY <2>1, <2>6, InOrderType DEF FailFast, LedgerInv, Forms, IndInv, TypeOK
  <2> QED BY <2>4, <2>5, <2>6, Zenon
<1>5. SpawnOK(s)'
  <2>1. RefsOK(s)'
    BY <1>1, <1>3 DEF LedgerInv, SpawnOK, RefsOK
  <2>2. TodoOK(s)'
    BY <1>2, <1>4, Zenon DEF TodoOK
  <2>3. PaidOK(s)'
    BY <1>1, <1>2, EstKept, Zenon DEF LedgerInv, SpawnOK, PaidOK
  <2>4. HeldOK(s)'
    <3>1. \A p : DebitStands(s, p)' <=> DebitStands(s, p)
      BY <1>1, EstKept, Zenon DEF DebitStands
    <3> QED BY <1>1, <1>2, <3>1, Zenon DEF LedgerInv, SpawnOK, HeldOK
  <2> QED BY <2>1, <2>2, <2>3, <2>4, Zenon DEF SpawnOK
<1>6. \A b \in Buckets, d \in Dims : Owed(s, b, d)' = Owed(s, b, d)
  BY <1>1, <1>3, OwesNothing DEF Owed, Range
<1> QED BY <1>1, <1>5, <1>6, QuietStep, Zenon DEF SpawnStep

-----------------------------------------------------------------------------
(* Steps of a spawn that write no usage.                                   *)

\* A row is locked and its debit planned.
LEMMA LockingKeeps ==
    ASSUME LedgerInv, IndInv', NEW s \in Spawns, LockScope(s) PROVE LedgerInv'
<1>a. PICK x : x = Head(todo[s])
  BY Zenon
<1>b. PICK p : p = Debit(x, s)
  BY Zenon
<1>1. UNCHANGED <<usage, base, refs, delta, report, pc>>
  BY Zenon DEF LockScope, tableVars
<1>2. pc[s] = "locking" /\ refs[s] = <<>> /\ todo[s] \in Seq(Scopes) /\ todo[s] # <<>>
  BY Zenon DEF LockScope, LedgerInv, SpawnOK, RefsOK, TodoOK
<1>3. x \in Scopes /\ Tail(todo[s]) \in Seq(Scopes)
  BY <1>a, <1>2
<1>4. /\ policy[x] # NoPolicy /\ lock[x] = Free
      /\ lock' = [lock EXCEPT ![x] = s]
      /\ plan' = [plan EXCEPT ![s] = Append(plan[s], p)]
      /\ todo' = [todo EXCEPT ![s] = Tail(todo[s])]
  BY <1>a, <1>b, Zenon DEF LockScope
<1>5. p.bucket \in Buckets /\ p.bucket[1] = x /\ p.gen = usage[p.bucket].gen
      /\ p.spent = Plus(usage[p.bucket].spent, Est(s))
  BY <1>b, <1>3, <1>4, BucketType, Zenon DEF Debit, LedgerInv, IndInv
<1>6. /\ lock'[x] = s
      /\ \A y \in Scopes : lock[y] = s => lock'[y] = s
      /\ s # Free
  BY <1>3, <1>4, LedgerAssumption, Zenon DEF LedgerInv, IndInv, TypeOK
<1>7. PICK S : plan[s] \in Seq(S)
  BY Zenon DEF LedgerInv, IndInv, PlanOK
<1>8. plan'[s] = Append(plan[s], p)
  BY <1>4, Zenon DEF LedgerInv, IndInv, PlanOK
<1>9. /\ DOMAIN plan[s] = 1..Len(plan[s]) /\ Len(plan[s]) \in Nat
      /\ DOMAIN plan'[s] = 1..(Len(plan[s]) + 1)
      /\ \A i \in 1..Len(plan[s]) : plan'[s][i] = plan[s][i]
      /\ plan'[s][Len(plan[s]) + 1] = p
  BY <1>7, <1>8
<1>10. SpawnOK(s)'
  <2>1. RefsOK(s)'
    BY <1>1, <1>2 DEF LedgerInv, SpawnOK, RefsOK
  <2>2. TodoOK(s)'
    <3>1. todo'[s] = Tail(todo[s])
      BY <1>4, Zenon DEF LedgerInv, Forms
    <3> QED BY <1>1, <1>2, <1>3, <3>1, Zenon DEF TodoOK
  <2>3. PaidOK(s)'
    BY <1>1, EstKept, Zenon DEF LedgerInv, SpawnOK, PaidOK
  <2>4. ASSUME NEW q, DebitStands(s, q) PROVE DebitStands(s, q)' /\ q.bucket[1] # x
    <3>1. q.bucket[1] \in Scopes
      BY <2>4, Zenon DEF DebitStands, Buckets
    <3> QED BY <1>1, <1>4, <1>6, <2>4, <3>1, EstKept, Zenon DEF DebitStands
  <2>5. DebitStands(s, p)'
    BY <1>1, <1>5, <1>6, EstKept, Zenon DEF DebitStands
  <2>6. \A i \in DOMAIN plan[s] : DebitStands(s, plan[s][i])
    BY Zenon DEF LedgerInv, SpawnOK, HeldOK
  <2>7. ASSUME NEW i \in DOMAIN plan'[s] PROVE DebitStands(s, plan[s][i])'
    <3>1. PICK q : q = plan'[s][i]
      BY Zenon
    <3>2. q = p \/ (i \in DOMAIN plan[s] /\ q = plan[s][i])
      BY <1>9, <3>1
    <3>3. DebitStands(s, q)'
      BY <2>4, <2>5, <2>6, <3>2, Zenon
    <3> QED BY <3>1, <3>3, Zenon DEF DebitStands
  <2>8. \A i, k \in DOMAIN plan'[s] : plan'[s][i].bucket[1] = plan'[s][k].bucket[1] => i = k
    <3>1. \A i, k \in DOMAIN plan[s] : plan[s][i].bucket[1] = plan[s][k].bucket[1] => i = k
      BY Zenon DEF LedgerInv, SpawnOK, HeldOK
    <3>2. \A i \in DOMAIN plan[s] : plan[s][i].bucket[1] # x
      BY <2>4, <2>6, Zenon
    <3>3. \A i \in DOMAIN plan'[s] : \/ i \in DOMAIN plan[s] /\ plan'[s][i] = plan[s][i]
                                     \/ i = Len(plan[s]) + 1 /\ plan'[s][i] = p
      BY <1>9
    <3> QED BY <1>5, <3>1, <3>2, <3>3, Zenon
  <2>9. HeldOK(s)'
    BY <1>1, <1>2, <2>7, <2>8, Zenon DEF HeldOK
  <2> QED BY <2>1, <2>2, <2>3, <2>9, Zenon DEF SpawnOK
<1>11. \A b \in Buckets, d \in Dims : Owed(s, b, d)' = Owed(s, b, d)
  BY <1>1, <1>2, OwesNothing DEF Owed, Range
<1> QED BY <1>1, <1>10, <1>11, QuietStep, Zenon DEF SpawnStep

\* A spawn that ends without writing: its transaction is rolled back, if it
\* has one, and what it reserved stays reserved.
LEMMA EndingKeeps ==
    ASSUME LedgerInv, IndInv', NEW s \in Spawns,
           Refuse(s) \/ ReconcileFails(s) \/ Lose(s) \/ Finish(s)
    PROVE  LedgerInv'
<1>1. UNCHANGED <<usage, base, refs, delta, report, todo>>
  BY Zenon DEF Refuse, ReconcileFails, Lose, Finish, tableVars
<1>2. plan'[s] = <<>>
  <2>1. CASE Refuse(s) \/ Lose(s)
    BY <2>1, Zenon DEF Refuse, Lose, Rollback, LedgerInv, IndInv, PlanOK
  <2>2. CASE ReconcileFails(s) \/ Finish(s)
    BY <2>2 DEF ReconcileFails, Finish, LedgerInv, SpawnOK, HeldOK
  <2> QED BY <2>1, <2>2, Zenon
<1>3. \/ pc'[s] = "refused" /\ pc[s] = "locking"
      \/ pc'[s] \in {"broken", "lost"}
      \/ pc'[s] = "done" /\ pc[s] = "settling" /\ todo[s] = <<>>
      \/ pc'[s] = "raised" /\ pc[s] = "refunding" /\ todo[s] = <<>>
  BY Zenon DEF Refuse, ReconcileFails, Lose, Finish, LedgerInv, IndInv, TypeOK
<1>4. SpawnOK(s)'
  <2>1. RefsOK(s)'
    BY <1>1, <1>3, Zenon DEF LedgerInv, SpawnOK, RefsOK
  <2>2. TodoOK(s)'
    BY <1>1, <1>3, Zenon DEF TodoOK
  <2>3. PaidOK(s)'
    BY <1>1, <1>3, EstKept, Zenon DEF LedgerInv, SpawnOK, PaidOK
  <2>4. HeldOK(s)'
    BY <1>2, EmptyOf, Zenon DEF HeldOK
  <2> QED BY <2>1, <2>2, <2>3, <2>4, Zenon DEF SpawnOK
<1>5. \A b \in Buckets, d \in Dims : Owed(s, b, d)' = Owed(s, b, d)
  BY <1>1, EstKept, Zenon DEF Owed
<1> QED BY <1>1, <1>4, <1>5, QuietStep, Zenon DEF SpawnStep

\* The run returns or raises: what it owes is the estimate until the true-up
\* comes to the window, also when the true-up has nothing to do.
LEMMA RunningKeeps ==
    ASSUME LedgerInv, IndInv', NEW s \in Spawns,
           RunRaises(s) \/ \E u \in Reports : RunReturns(s, u)
    PROVE  LedgerInv'
<1>1. UNCHANGED <<usage, base, refs, plan, lock>>
  BY Zenon DEF RunRaises, RunReturns, tableVars
<1>2. pc[s] = "running" /\ todo[s] = refs[s] /\ plan[s] = <<>>
  BY Zenon DEF RunRaises, RunReturns, LedgerInv, SpawnOK, TodoOK, HeldOK
<1>3. \/ /\ pc'[s] = "refunding" /\ todo'[s] = todo[s]
         /\ delta'[s] = Minus(Zero, Est(s))
      \/ /\ pc'[s] = "settling" /\ report'[s] \in Reports
         /\ delta'[s] = Minus(Actual(s, report'[s]), Est(s))
         /\ \/ todo'[s] = todo[s]
            \/ todo'[s] = <<>> /\ delta'[s] = Zero
  <2>1. CASE RunRaises(s)
    BY <2>1, Zenon DEF RunRaises, LedgerInv, IndInv, TypeOK
  <2>2. ASSUME NEW u \in Reports, RunReturns(s, u)
        PROVE  /\ pc'[s] = "settling" /\ report'[s] = u
               /\ delta'[s] = Minus(Actual(s, u), Est(s))
               /\ \/ todo'[s] = todo[s]
                  \/ todo'[s] = <<>> /\ delta'[s] = Zero
    BY <2>2, Zenon DEF RunReturns, LedgerInv, Forms, IndInv, TypeOK
  <2> QED BY <2>1, <2>2, Zenon
<1>4. IsInjective(refs[s]) /\ refs[s] \in Seq(Reserved)
  BY Zenon DEF LedgerInv, SpawnOK, RefsOK, IsInjective
<1>5. /\ todo'[s] \in Seq(Reserved) /\ IsInjective(todo'[s])
      /\ Range(todo'[s]) \subseteq Range(refs[s])
  BY <1>2, <1>3, <1>4, EmptyOf, Zenon
<1>6. \A d \in Dims : Est(s)[d] + delta'[s][d] \in Nat
  <2>1. ASSUME NEW d \in Dims, NEW c, c[d] \in Nat
        PROVE  Est(s)[d] + Minus(c, Est(s))[d] = c[d]
    BY <2>1, EstType DEF Minus
  <2>2. \A d \in Dims : Zero[d] \in Nat
    BY Zenon DEF Zero
  <2> QED BY <1>3, <2>1, <2>2, ActualType
<1>7. SpawnOK(s)'
  <2>1. RefsOK(s)'
    BY <1>1, <1>3, Zenon DEF LedgerInv, SpawnOK, RefsOK
  <2>2. TodoOK(s)'
    BY <1>1, <1>3, <1>5, Zenon DEF TodoOK, Reserved
  <2>3. PaidOK(s)'
    BY <1>3, <1>6, EstKept, Zenon DEF PaidOK, Actual, Charges
  <2>4. HeldOK(s)'
    BY <1>1, <1>2, EmptyOf, Zenon DEF HeldOK
  <2> QED BY <2>1, <2>2, <2>3, <2>4, Zenon DEF SpawnOK
<1>8. ASSUME NEW b \in Buckets, NEW d \in Dims PROVE Owed(s, b, d)' = Owed(s, b, d)
  <2>1. CASE todo'[s] = todo[s]
    BY <1>1, <1>2, <2>1, EstKept, Zenon DEF Owed
  <2>2. CASE todo'[s] = <<>> /\ delta'[s] = Zero
    <3>1. Est(s)[d] + delta'[s][d] = Est(s)[d]
      BY <2>2, EstType DEF Zero
    <3> QED BY <1>1, <1>2, <2>2, <3>1, EstKept, EmptyOf, Zenon DEF Owed
  <2> QED BY <1>3, <2>1, <2>2, Zenon
<1> QED BY <1>1, <1>7, <1>8, QuietStep, Zenon DEF SpawnStep

\* Midnight, an operator's edit and the request of a reset.
LEMMA WorldKeeps ==
    ASSUME LedgerInv, IndInv', UNCHANGED <<usage, base, lock, pc, todo, refs, delta, report, plan>>
    PROVE  LedgerInv'
<1>1. \A b \in Buckets : usage[b].gen <= usage'[b].gen
  BY UsageType DEF LedgerInv, IndInv
<1>2. \A t \in Spawns : SpawnOK(t)'
  BY <1>1, Untouched, Zenon DEF LedgerInv, IndInv
<1>3. \A t \in Spawns, b \in Buckets, d \in Dims : Owed(t, b, d)' = Owed(t, b, d)
  BY EstKept, Zenon DEF Owed
<1>4. LedgerBalances'
  BY <1>3, BalanceKept, Zenon DEF LedgerInv
<1> QED BY <1>2, <1>4, Zenon DEF LedgerInv, Forms

-----------------------------------------------------------------------------
(* The commit of a reservation.                                            *)

\* What the balance uses of sums over the spawns; SumsHold shows it.
SumsAdd ==
    /\ \A f : (\A t \in Spawns : f[t] \in Nat) => SumFunctionOnSet(f, Spawns) \in Nat
    /\ \A f, g : \A s \in Spawns :
          (/\ \A t \in Spawns : f[t] \in Nat /\ g[t] \in Nat
           /\ \A t \in Spawns \ {s} : f[t] = g[t])
          => SumFunctionOnSet(g, Spawns) = SumFunctionOnSet(f, Spawns) + (g[s] - f[s])
    /\ SumFunctionOnSet([t \in Spawns |-> 0], Spawns) = 0

\* The balance of one bucket, when one spawn's debt there changes.
LEMMA DebtChanges ==
    ASSUME SumsAdd, LedgerInv, NEW s \in Spawns, NEW b \in Buckets, NEW d \in Dims,
           \A t \in Spawns : PaidOK(t)',
           \A t \in Spawns \ {s} : Owed(t, b, d)' = Owed(t, b, d)
    PROVE  /\ SumFunctionOnSet(Debts(b, d), Spawns)'
                 = SumFunctionOnSet(Debts(b, d), Spawns) + (Owed(s, b, d)' - Owed(s, b, d))
           /\ SumFunctionOnSet(Debts(b, d), Spawns) \in Nat
           /\ SumFunctionOnSet(Debts(b, d), Spawns)' \in Nat
<1> DEFINE f == [t \in Spawns |-> Owed(t, b, d)]
           g == [t \in Spawns |-> Owed(t, b, d)']
<1>1. /\ SumFunctionOnSet(Debts(b, d), Spawns) = SumFunctionOnSet(f, Spawns)
      /\ SumFunctionOnSet(Debts(b, d), Spawns)' = SumFunctionOnSet(g, Spawns)
  BY Zenon DEF Debts
<1>2. \A t \in Spawns : Owed(t, b, d) \in Nat
  BY OwedType, Zenon DEF LedgerInv, SpawnOK
<1>3. \A t \in Spawns : Owed(t, b, d)' \in Nat
  <2>1. ASSUME NEW t \in Spawns PROVE Owed(t, b, d)' \in Nat
    <3>1. PaidOK(t)'
      BY Zenon
    <3> QED BY <3>1, EstType, EstKept, Zenon DEF PaidOK, Owed
  <2> QED BY <2>1, Zenon
<1>4. /\ \A t \in Spawns : f[t] \in Nat /\ g[t] \in Nat
      /\ \A t \in Spawns \ {s} : f[t] = g[t]
      /\ f[s] = Owed(s, b, d) /\ g[s] = Owed(s, b, d)'
  BY <1>2, <1>3, Zenon
<1> HIDE DEF f, g
<1>5. /\ SumFunctionOnSet(f, Spawns) \in Nat /\ SumFunctionOnSet(g, Spawns) \in Nat
      /\ SumFunctionOnSet(g, Spawns) = SumFunctionOnSet(f, Spawns) + (g[s] - f[s])
  BY <1>4, Zenon DEF SumsAdd
<1> QED BY <1>1, <1>4, <1>5, Zenon

\* The commit writes each planned row: the estimate on top of what it held.
LEMMA CommittedRows ==
    ASSUME LedgerInv, NEW s \in Spawns, Commit(s), NEW b \in Buckets
    PROVE  /\ usage'[b].gen = usage[b].gen
           /\ Holds(s, b) => /\ usage'[b].spent = Plus(usage[b].spent, Est(s))
                             /\ lock[b[1]] = s
           /\ ~Holds(s, b) => usage'[b] = usage[b]
           /\ Window(b) \in Range(refs'[s]) <=> Holds(s, b)
<1>1. usage' = Applied(s) /\ refs' = [refs EXCEPT ![s] = [i \in DOMAIN plan[s] |-> Ref(plan[s][i])]]
  BY Zenon DEF Commit
<1>2. usage[b] \in [gen : Nat, spent : Amounts]
  BY Zenon DEF LedgerInv, IndInv, TypeOK
<1>3. \A i \in DOMAIN plan[s] : DebitStands(s, plan[s][i])
  BY Zenon DEF LedgerInv, SpawnOK, HeldOK
<1>4. refs'[s] = [i \in DOMAIN plan[s] |-> Ref(plan[s][i])]
  BY <1>1, Zenon DEF LedgerInv, Forms
<1>5. CASE Holds(s, b)
  <2> DEFINE i == CHOOSE j \in DOMAIN plan[s] : plan[s][j].bucket = b
  <2>1. i \in DOMAIN plan[s] /\ plan[s][i].bucket = b
    BY <1>5, Zenon DEF Holds
  <2>2. usage'[b] = [usage[b] EXCEPT !.spent = plan[s][i].spent]
    BY <1>1, <1>5, Zenon DEF Applied
  <2> HIDE DEF i
  <2>3. DebitStands(s, plan[s][i])
    BY <1>3, <2>1, Zenon
  <2>4. usage'[b].gen = usage[b].gen /\ usage'[b].spent = plan[s][i].spent
    BY <1>2, <2>2, Zenon
  <2>5. Ref(plan[s][i]) = Window(b)
    BY <2>1, <2>3, Zenon DEF Ref, Window, DebitStands
  <2>6. Window(b) \in Range(refs'[s])
    BY <1>4, <2>1, <2>5, Zenon DEF Range
  <2> QED BY <1>5, <2>1, <2>3, <2>4, <2>6, Zenon DEF DebitStands
<1>6. CASE ~Holds(s, b)
  <2>1. usage'[b] = usage[b]
    BY <1>1, <1>6, Zenon DEF Applied
  <2>2. ASSUME Window(b) \in Range(refs'[s]) PROVE FALSE
    <3>1. PICK i \in DOMAIN plan[s] : Window(b) = Ref(plan[s][i])
      BY <1>4, <2>2, Zenon DEF Range
    <3>2. plan[s][i].bucket = b
      BY <3>1, Zenon DEF Ref, Window
    <3> QED BY <1>6, <3>2, Zenon DEF Holds
  <2> QED BY <1>6, <2>1, <2>2, Zenon
<1> QED BY <1>5, <1>6, Zenon

\* From the commit on the spawn owes each row it wrote the estimate.
LEMMA CommittingKeeps ==
    ASSUME SumsAdd, LedgerInv, IndInv', NEW s \in Spawns, Commit(s) PROVE LedgerInv'
<1>1. Forms' /\ \A t \in Spawns \ {s} :
                   /\ pc'[t] = pc[t] /\ todo'[t] = todo[t] /\ refs'[t] = refs[t]
                   /\ delta'[t] = delta[t] /\ report'[t] = report[t] /\ plan'[t] = plan[t]
  BY OthersKept, Zenon DEF LedgerInv, SpawnStep
<1>2. /\ pc[s] = "locking" /\ pc'[s] = "running" /\ plan'[s] = <<>>
      /\ UNCHANGED <<base, delta, report>>
      /\ refs'[s] = [i \in DOMAIN plan[s] |-> Ref(plan[s][i])] /\ todo'[s] = refs'[s]
  BY Zenon DEF Commit, Rollback, LedgerInv, Forms, IndInv, TypeOK, PlanOK
<1>3. refs[s] = <<>>
  BY <1>2, Zenon DEF LedgerInv, SpawnOK, RefsOK
<1>4. \A i \in DOMAIN plan[s] : DebitStands(s, plan[s][i])
  BY Zenon DEF LedgerInv, SpawnOK, HeldOK
<1>5. TypeOK /\ TypeOK'
  BY Zenon DEF LedgerInv, IndInv
<1>6. SpawnOK(s)'
  <2>1. PICK S : plan[s] \in Seq(S)
    BY Zenon DEF LedgerInv, IndInv, PlanOK
  <2>2. \A i \in DOMAIN plan[s] : Ref(plan[s][i]) \in Reserved
    BY <1>4, <1>5, UsageType, Zenon DEF DebitStands, Ref, Reserved
  <2>3. refs'[s] \in Seq(Reserved)
    BY <1>2, <2>1, <2>2
  <2>4. \A i, k \in DOMAIN refs'[s] : refs'[s][i].bucket = refs'[s][k].bucket => i = k
    <3>1. \A i, k \in DOMAIN plan[s] : plan[s][i].bucket[1] = plan[s][k].bucket[1] => i = k
      BY Zenon DEF LedgerInv, SpawnOK, HeldOK
    <3> QED BY <1>2, <3>1 DEF Ref
  <2>5. \A i \in DOMAIN refs'[s] : refs'[s][i].gen <= usage'[refs'[s][i].bucket].gen
    <3>1. ASSUME NEW i \in DOMAIN plan[s] PROVE refs'[s][i].gen <= usage'[refs'[s][i].bucket].gen
      <4>1. refs'[s][i].gen = plan[s][i].gen /\ refs'[s][i].bucket = plan[s][i].bucket
        BY <1>2 DEF Ref
      <4>2. /\ plan[s][i].bucket \in Buckets
            /\ plan[s][i].gen = usage[plan[s][i].bucket].gen
        BY <1>4, Zenon DEF DebitStands
      <4>3. usage'[plan[s][i].bucket].gen = usage[plan[s][i].bucket].gen
        BY <4>2, CommittedRows, Zenon
      <4>4. usage[plan[s][i].bucket].gen \in Nat
        BY <1>5, <4>2, UsageType, Zenon
      <4> QED BY <4>1, <4>2, <4>3, <4>4
    <3> QED BY <1>2, <3>1, Zenon
  <2>6. RefsOK(s)'
    BY <1>2, <2>3, <2>4, <2>5, Zenon DEF RefsOK, Reserved
  <2>7. TodoOK(s)'
    BY <1>2, Zenon DEF TodoOK
  <2>8. PaidOK(s)'
    BY <1>2, EstKept, Zenon DEF LedgerInv, SpawnOK, PaidOK
  <2>9. HeldOK(s)'
    BY <1>2, EmptyOf, Zenon DEF HeldOK
  <2> QED BY <2>6, <2>7, <2>8, <2>9, Zenon DEF SpawnOK
<1>7. ASSUME NEW t \in Spawns, t # s PROVE SpawnOK(t)'
  <2>1. \A b \in Buckets : usage[b].gen <= usage'[b].gen
    BY <1>5, UsageType, CommittedRows
  <2>2. \A b \in Buckets : Holds(t, b) => usage'[b] = usage[b]
    BY <1>7, CommittedRows, HoldsLocks DEF LedgerInv, SpawnOK
  <2>3. \A x \in Scopes : lock[x] = t => lock'[x] = t
    BY <1>5, <1>7, OthersLocks, Zenon DEF SpawnStep
  <2> QED BY <1>1, <1>5, <1>7, <2>1, <2>2, <2>3, Untouched, Zenon DEF LedgerInv
<1>8. ASSUME NEW b \in Buckets, NEW d \in Dims
      PROVE  usage'[b].spent[d] = base'[b][d] + SumFunctionOnSet(Debts(b, d), Spawns)'
  <2>1. usage'[b].gen = usage[b].gen
    BY CommittedRows, Zenon
  <2>2. ASSUME NEW t \in Spawns, t # s PROVE Owed(t, b, d)' = Owed(t, b, d)
    BY <1>1, <2>1, <2>2, EstKept, Zenon DEF Owed
  <2>3. Owed(s, b, d) = 0
    BY <1>3, OwesNothing, Zenon
  <2>4. Owed(s, b, d)' = IF Holds(s, b) THEN Est(s)[d] ELSE 0
    <3>1. [bucket |-> b, gen |-> usage'[b].gen] \in Range(refs'[s]) <=> Holds(s, b)
      BY <2>1, CommittedRows, Zenon DEF Window
    <3> QED BY <1>2, <3>1, EstKept, Zenon DEF Owed
  <2>5. /\ SumFunctionOnSet(Debts(b, d), Spawns)'
               = SumFunctionOnSet(Debts(b, d), Spawns) + (Owed(s, b, d)' - Owed(s, b, d))
        /\ SumFunctionOnSet(Debts(b, d), Spawns) \in Nat
    BY <1>6, <1>7, <2>2, DebtChanges, Zenon DEF SpawnOK
  <2>6. usage[b].spent[d] = base[b][d] + SumFunctionOnSet(Debts(b, d), Spawns)
    BY BalanceIs, Zenon DEF LedgerInv
  <2>7. usage'[b].spent[d] = usage[b].spent[d] + (IF Holds(s, b) THEN Est(s)[d] ELSE 0)
    <3>1. usage[b].spent[d] \in Nat
      BY <1>5, UsageType, Zenon
    <3>2. Plus(usage[b].spent, Est(s))[d] = usage[b].spent[d] + Est(s)[d]
      BY Zenon DEF Plus
    <3> QED BY <3>1, <3>2, CommittedRows
  <2>8. base[b][d] \in Nat /\ Est(s)[d] \in Nat /\ base'[b] = base[b]
    BY <1>2, <1>5, UsageType, EstType, Zenon
  <2> QED BY <2>3, <2>4, <2>5, <2>6, <2>7, <2>8
<1>9. LedgerBalances'
  BY <1>8, Zenon DEF LedgerBalances, SumFunction, Debts
<1> QED BY <1>1, <1>6, <1>7, <1>9, Zenon DEF LedgerInv

-----------------------------------------------------------------------------
(* The true-up and the reset.                                              *)

\* The true-up of one window: the debt there becomes what the run cost, or
\* nothing, and a window of an older generation is left alone.
LEMMA ReconcilingKeeps ==
    ASSUME SumsAdd, LedgerInv, IndInv', NEW s \in Spawns, Reconcile(s) PROVE LedgerInv'
<1>1. Forms' /\ \A t \in Spawns \ {s} :
                   /\ pc'[t] = pc[t] /\ todo'[t] = todo[t] /\ refs'[t] = refs[t]
                   /\ delta'[t] = delta[t] /\ report'[t] = report[t] /\ plan'[t] = plan[t]
  BY OthersKept, Zenon DEF LedgerInv, SpawnStep
<1>2. PICK w : w = Head(todo[s])
  BY Zenon
<1>3. /\ pc[s] \in {"settling", "refunding"} /\ todo[s] # <<>>
      /\ \A t \in Spawns : ~ Holds(t, w.bucket)
      /\ usage' = [usage EXCEPT ![w.bucket] = TruedUp(usage[w.bucket], w, delta[s])]
      /\ todo'[s] = Tail(todo[s])
      /\ UNCHANGED <<base, pc, refs, delta, report, plan, lock>>
  BY <1>2, Zenon DEF Reconcile, LedgerInv, Forms
<1>4. /\ todo[s] \in Seq(Reserved) /\ IsInjective(todo[s])
      /\ Range(todo[s]) \subseteq Range(refs[s])
  BY <1>3, Zenon DEF LedgerInv, SpawnOK, TodoOK
<1>5. /\ w \in Reserved /\ todo'[s] \in Seq(Reserved) /\ IsInjective(todo'[s])
      /\ w \notin Range(todo'[s]) /\ Range(todo[s]) = {w} \cup Range(todo'[s])
  BY <1>2, <1>3, <1>4, TailOf
<1>6. w.bucket \in Buckets /\ w.gen \in Nat /\ w = [bucket |-> w.bucket, gen |-> w.gen]
  BY <1>5, Zenon DEF Reserved
<1>7. TypeOK /\ TypeOK'
  BY Zenon DEF LedgerInv, IndInv
<1>8. ASSUME NEW b \in Buckets
      PROVE  /\ usage'[b].gen = usage[b].gen
             /\ b # w.bucket \/ w.gen # usage[b].gen => usage'[b] = usage[b]
             /\ b = w.bucket /\ w.gen = usage[b].gen =>
                   \A d \in Dims : usage'[b].spent[d] = Floor(usage[b].spent[d] + delta[s][d])
  <2>1. usage'[b] = IF b = w.bucket THEN TruedUp(usage[b], w, delta[s]) ELSE usage[b]
    BY <1>3, <1>7, Zenon DEF TypeOK
  <2>2. usage[b] \in [gen : Nat, spent : Amounts]
    BY <1>7, Zenon DEF TypeOK
  <2> QED BY <2>1, <2>2, Zenon DEF TruedUp
<1>9. SpawnOK(s)'
  <2>1. RefsOK(s)'
    <3>1. \A b \in Buckets : usage[b].gen <= usage'[b].gen
      BY <1>7, <1>8, UsageType
    <3> QED BY <1>3, <1>7, <3>1, RefsKept, Zenon DEF LedgerInv, SpawnOK
  <2>2. TodoOK(s)'
    <3>1. Range(todo'[s]) \subseteq Range(refs'[s])
      BY <1>3, <1>4, <1>5, Zenon
    <3>2. pc'[s] \in {"settling", "refunding"}
      BY <1>3, Zenon
    <3> QED BY <1>5, <3>1, <3>2, Zenon DEF TodoOK, Reserved
  <2>3. PaidOK(s)'
    BY <1>3, EstKept, Zenon DEF LedgerInv, SpawnOK, PaidOK
  <2>4. HeldOK(s)'
    <3>1. plan[s] = <<>>
      BY <1>3, Zenon DEF LedgerInv, SpawnOK, HeldOK
    <3> QED BY <1>3, <3>1, EmptyOf, Zenon DEF HeldOK
  <2> QED BY <2>1, <2>2, <2>3, <2>4, Zenon DEF SpawnOK
<1>10. ASSUME NEW t \in Spawns, t # s PROVE SpawnOK(t)'
  <2>1. \A b \in Buckets : usage[b].gen <= usage'[b].gen
    BY <1>7, <1>8, UsageType
  <2>2. \A b \in Buckets : Holds(t, b) => usage'[b] = usage[b]
    BY <1>3, <1>8, Zenon
  <2> QED BY <1>1, <1>3, <1>7, <1>10, <2>1, <2>2, Untouched, Zenon DEF LedgerInv
<1>11. ASSUME NEW b \in Buckets, NEW d \in Dims
       PROVE  usage'[b].spent[d] = base'[b][d] + SumFunctionOnSet(Debts(b, d), Spawns)'
  <2>1. usage'[b].gen = usage[b].gen /\ base'[b] = base[b]
    BY <1>3, <1>8, Zenon
  <2>2. ASSUME NEW t \in Spawns, t # s PROVE Owed(t, b, d)' = Owed(t, b, d)
    BY <1>1, <2>1, <2>2, EstKept, Zenon DEF Owed
  <2>3. /\ SumFunctionOnSet(Debts(b, d), Spawns)'
               = SumFunctionOnSet(Debts(b, d), Spawns) + (Owed(s, b, d)' - Owed(s, b, d))
        /\ SumFunctionOnSet(Debts(b, d), Spawns) \in Nat
        /\ SumFunctionOnSet(Debts(b, d), Spawns)' \in Nat
    BY <1>9, <1>10, <2>2, DebtChanges, Zenon DEF SpawnOK
  <2>4. usage[b].spent[d] = base[b][d] + SumFunctionOnSet(Debts(b, d), Spawns)
    BY BalanceIs, Zenon DEF LedgerInv
  <2>5. base[b][d] \in Nat /\ Est(s)[d] \in Nat /\ delta[s][d] \in Int
    <3>1. delta[s][d] \in Int
      BY <1>7 DEF TypeOK
    <3> QED BY <1>7, <3>1, UsageType, EstType, Zenon
  <2>6. CASE b = w.bucket /\ w.gen = usage[b].gen
    <3>1. w = [bucket |-> b, gen |-> usage[b].gen]
      BY <1>6, <2>6, Zenon
    <3>2. Owed(s, b, d) = Est(s)[d]
      BY <1>4, <1>5, <3>1, Zenon DEF Owed
    <3>3. Owed(s, b, d)' = Est(s)[d] + delta[s][d]
      BY <1>3, <1>4, <1>5, <2>1, <3>1, EstKept, Zenon DEF Owed
    <3>4. usage'[b].spent[d] = Floor(usage[b].spent[d] + delta[s][d])
      BY <1>8, <2>6, Zenon
    <3> DEFINE n == SumFunctionOnSet(Debts(b, d), Spawns)
               m == SumFunctionOnSet(Debts(b, d), Spawns)'
    <3>5. /\ m = n + ((Est(s)[d] + delta[s][d]) - Est(s)[d]) /\ n \in Nat /\ m \in Nat
          /\ usage'[b].spent[d] = Floor((base[b][d] + n) + delta[s][d])
      BY <2>3, <2>4, <3>2, <3>3, <3>4, Zenon
    <3> HIDE DEF n, m
    <3>6. usage'[b].spent[d] = base[b][d] + m
      BY <2>5, <3>5 DEF Floor
    <3> QED BY <2>1, <3>6, Zenon DEF m
  <2>7. CASE b # w.bucket \/ w.gen # usage[b].gen
    <3>1. w # [bucket |-> b, gen |-> usage[b].gen]
      BY <2>7
    <3>2. [bucket |-> b, gen |-> usage[b].gen] \in Range(todo[s])
             <=> [bucket |-> b, gen |-> usage[b].gen] \in Range(todo'[s])
      BY <1>5, <3>1, Zenon
    <3>3. Owed(s, b, d)' = Owed(s, b, d)
      BY <1>3, <2>1, <3>2, EstKept, Zenon DEF Owed
    <3>4. usage'[b].spent[d] = usage[b].spent[d]
      BY <1>8, <2>7, Zenon
    <3>5. Owed(s, b, d) \in Nat
      BY OwedType, Zenon DEF LedgerInv, SpawnOK
    <3>6. SumFunctionOnSet(Debts(b, d), Spawns)' = SumFunctionOnSet(Debts(b, d), Spawns)
      BY <2>3, <3>3, <3>5
    <3> QED BY <2>1, <2>4, <3>4, <3>6, Zenon
  <2> QED BY <2>6, <2>7, Zenon
<1>12. LedgerBalances'
  BY <1>11, Zenon DEF LedgerBalances, SumFunction, Debts
<1> QED BY <1>1, <1>9, <1>10, <1>12, Zenon DEF LedgerInv

\* A reset opens a generation in which nobody owes anything yet.
LEMMA ResettingKeeps ==
    ASSUME SumsAdd, LedgerInv, IndInv', ResetUsage PROVE LedgerInv'
<1>1. UNCHANGED <<lock, pc, todo, refs, delta, report, plan>>
  BY Zenon DEF ResetUsage, spawnVars
<1>2. TypeOK /\ TypeOK'
  BY Zenon DEF LedgerInv, IndInv
<1>3. CASE UNCHANGED <<usage, base>>
  BY <1>1, <1>3, WorldKeeps, Zenon
<1>4. ASSUME NEW c \in Buckets, lock[c[1]] = Free,
             usage' = [usage EXCEPT ![c] = Cleared(usage[c], reset.dims)],
             base' = [base EXCEPT ![c] = usage'[c].spent]
      PROVE  LedgerInv'
  <2>1. ASSUME NEW b \in Buckets
        PROVE  /\ b = c => usage'[b].gen = usage[b].gen + 1 /\ base'[b] = usage'[b].spent
               /\ b # c => usage'[b] = usage[b] /\ base'[b] = base[b]
    BY <1>2, <1>4, Zenon DEF TypeOK, Cleared
  <2>2. \A b \in Buckets : usage[b].gen <= usage'[b].gen
    BY <1>2, <2>1, UsageType
  <2>3. ASSUME NEW t \in Spawns, NEW b \in Buckets, Holds(t, b) PROVE usage'[b] = usage[b]
    BY <1>4, <2>1, <2>3, HoldsLocks, LedgerAssumption, Zenon DEF LedgerInv, SpawnOK
  <2>4. \A t \in Spawns : SpawnOK(t)'
    BY <1>1, <1>2, <2>2, <2>3, Untouched, Zenon DEF LedgerInv
  <2>5. ASSUME NEW t \in Spawns, NEW d \in Dims PROVE Owed(t, c, d)' = 0
    <3>1. ASSUME [bucket |-> c, gen |-> usage'[c].gen] \in Range(refs[t]) PROVE FALSE
      <4>1. PICK i \in DOMAIN refs[t] : refs[t][i] = [bucket |-> c, gen |-> usage'[c].gen]
        BY <3>1, Zenon DEF Range
      <4>2. refs[t][i].bucket = c /\ refs[t][i].gen = usage[c].gen + 1
        BY <2>1, <4>1
      <4>3. refs[t][i].gen <= usage[c].gen
        BY <4>2, Zenon DEF LedgerInv, SpawnOK, RefsOK
      <4> QED BY <1>2, <4>2, <4>3, UsageType
    <3> QED BY <1>1, <3>1, Zenon DEF Owed
  <2>6. ASSUME NEW b \in Buckets, NEW d \in Dims
        PROVE  usage'[b].spent[d] = base'[b][d] + SumFunctionOnSet(Debts(b, d), Spawns)'
    <3>1. CASE b = c
      <4>1. Debts(c, d)' = [t \in Spawns |-> 0]
        BY <2>5, Zenon DEF Debts
      <4>2. SumFunctionOnSet(Debts(c, d), Spawns)' = 0
        BY <4>1, Zenon DEF SumsAdd
      <4>3. usage'[c].spent[d] \in Nat
        BY <1>2 DEF TypeOK, Amounts
      <4> QED BY <2>1, <3>1, <4>2, <4>3
    <3>2. CASE b # c
      <4>1. usage'[b] = usage[b] /\ base'[b] = base[b]
        BY <2>1, <3>2, Zenon
      <4>2. \A t \in Spawns : Owed(t, b, d)' = Owed(t, b, d)
        BY <1>1, <4>1, EstKept, Zenon DEF Owed
      <4>3. Debts(b, d)' = Debts(b, d)
        BY <4>2, Zenon DEF Debts
      <4>4. usage[b].spent[d] = base[b][d] + SumFunctionOnSet(Debts(b, d), Spawns)
        BY BalanceIs, Zenon DEF LedgerInv
      <4> QED BY <4>1, <4>3, <4>4, Zenon
    <3> QED BY <3>1, <3>2, Zenon
  <2>7. LedgerBalances'
    BY <2>6, Zenon DEF LedgerBalances, SumFunction, Debts
  <2> QED BY <1>1, <2>4, <2>7, Zenon DEF LedgerInv, Forms
<1>5. \/ UNCHANGED <<usage, base>>
      \/ \E c \in Buckets : /\ lock[c[1]] = Free
                            /\ usage' = [usage EXCEPT ![c] = Cleared(usage[c], reset.dims)]
                            /\ base' = [base EXCEPT ![c] = usage'[c].spent]
  <2>1. CASE policy[reset.scope] = NoPolicy \/ policy[reset.scope].window = "run"
    BY <2>1, Zenon DEF ResetUsage
  <2>2. CASE policy[reset.scope] # NoPolicy /\ policy[reset.scope].window # "run"
    <3>1. reset.scope \in Scopes /\ reset.at \in 0..MaxDay
      BY <1>2, Zenon DEF ResetUsage, TypeOK
    <3>2. policy[reset.scope].window \in Windows
      BY <2>2, <3>1, LedgerAssumption, ZenonT(60) DEF LedgerInv, IndInv, TypeOK, Policy
    <3>3. <<reset.scope, Key(policy[reset.scope].window, NoRun, reset.at)>> \in Buckets
      BY <2>2, <3>1, <3>2, KeyType, Zenon DEF Buckets
    <3> QED BY <2>2, <3>3, Zenon DEF ResetUsage
  <2> QED BY <2>1, <2>2, Zenon
<1> QED BY <1>3, <1>4, <1>5, Zenon

-----------------------------------------------------------------------------
(* Every step.                                                             *)

LEMMA LedgerInit == ASSUME SumsAdd, Init PROVE LedgerInv
<1>1. IndInv
  BY InitInv, Zenon
<1>2. Forms
  BY Zenon DEF Init, Forms
<1>3. ASSUME NEW s \in Spawns
      PROVE  /\ pc[s] = "idle" /\ refs[s] = <<>> /\ plan[s] = <<>> /\ delta[s] = Zero
  BY Zenon DEF Init
<1>4. ASSUME NEW s \in Spawns PROVE SpawnOK(s)
  <2>1. RefsOK(s)
    BY <1>3, EmptyOf, Zenon DEF RefsOK
  <2>2. TodoOK(s)
    BY <1>3, Zenon DEF TodoOK
  <2>3. PaidOK(s)
    BY <1>3, EstType DEF PaidOK, Zero
  <2>4. HeldOK(s)
    BY <1>3, EmptyOf, Zenon DEF HeldOK
  <2> QED BY <2>1, <2>2, <2>3, <2>4, Zenon DEF SpawnOK
<1>5. ASSUME NEW b \in Buckets, NEW d \in Dims
      PROVE  usage[b].spent[d] = base[b][d] + SumFunctionOnSet(Debts(b, d), Spawns)
  <2>1. usage[b].spent[d] = 0 /\ base[b][d] = 0
    BY Zenon DEF Init, Zero
  <2>2. Debts(b, d) = [t \in Spawns |-> 0]
    BY <1>3, OwesNothing, Zenon DEF Debts
  <2> QED BY <2>1, <2>2 DEF SumsAdd
<1>6. LedgerBalances
  BY <1>5, BalanceIs, Zenon
<1> QED BY <1>1, <1>2, <1>4, <1>6, Zenon DEF LedgerInv

LEMMA LedgerNext == ASSUME SumsAdd, LedgerInv, [Next]_vars PROVE LedgerInv'
<1>1. IndInv'
  BY NextInv, Zenon DEF LedgerInv
<1>2. ASSUME NEW s \in Spawns, SpawnStep(s) PROVE LedgerInv'
  BY <1>1, <1>2, ReservingKeeps, LockingKeeps, EndingKeeps, CommittingKeeps, RunningKeeps,
     ReconcilingKeeps, Zenon DEF SpawnStep
<1>3. CASE \/ UNCHANGED vars \/ Midnight
           \/ \E x \in Scopes, p \in Policies : UpsertPolicy(x, p)
           \/ \E x \in Scopes, dims \in (SUBSET Dims) \ {{}} : StartReset(x, dims)
  <2>1. UNCHANGED <<usage, base, lock, pc, todo, refs, delta, report, plan>>
    BY <1>3, Zenon DEF vars, Midnight, UpsertPolicy, StartReset, spawnVars, tableVars
  <2> QED BY <1>1, <2>1, WorldKeeps, Zenon
<1> QED BY <1>1, <1>2, <1>3, EndingKeeps, ResettingKeeps, Zenon DEF Next

\* When every spawn is idle, refused or refunded, nobody owes anything.
LEMMA NothingOwed == ASSUME SumsAdd, LedgerInv PROVE NothingHeldBack
<1> SUFFICES ASSUME \A s \in Spawns : pc[s] \in {"idle", "refused", "raised"},
                    NEW b \in Buckets
             PROVE  usage[b].spent = base[b]
  BY Zenon DEF NothingHeldBack
<1>1. ASSUME NEW s \in Spawns, NEW d \in Dims PROVE Owed(s, b, d) = 0
  <2>1. CASE pc[s] \in {"idle", "refused"}
    BY <2>1, OwesNothing, Zenon DEF LedgerInv, SpawnOK, RefsOK
  <2>2. CASE pc[s] = "raised"
    <3>1. todo[s] = <<>> /\ delta[s] = Minus(Zero, Est(s))
      BY <2>2, Zenon DEF LedgerInv, SpawnOK, TodoOK, PaidOK
    <3>2. Est(s)[d] + delta[s][d] = 0
      BY <3>1, EstType DEF Minus, Zero
    <3> QED BY <3>1, <3>2, OwedIs, EmptyOf, Zenon
  <2> QED BY <2>1, <2>2, Zenon
<1>2. ASSUME NEW d \in Dims PROVE usage[b].spent[d] = base[b][d]
  <2>1. Debts(b, d) = [t \in Spawns |-> 0]
    BY <1>1, Zenon DEF Debts
  <2>2. SumFunctionOnSet(Debts(b, d), Spawns) = 0
    BY <2>1, Zenon DEF SumsAdd
  <2>3. usage[b].spent[d] = base[b][d] + SumFunctionOnSet(Debts(b, d), Spawns)
    BY BalanceIs, Zenon DEF LedgerInv
  <2>4. base[b][d] \in Nat
    BY UsageType, Zenon DEF LedgerInv, IndInv
  <2> QED BY <2>2, <2>3, <2>4
<1>3. usage[b].spent \in Amounts /\ base[b] \in Amounts
  BY Zenon DEF LedgerInv, IndInv, TypeOK
<1> QED BY <1>2, <1>3 DEF Amounts

-----------------------------------------------------------------------------
INSTANCE FiniteSetTheorems

(* Sums over a finite set, by the smallest subset for which a claim fails. *)

Pick(s) == CHOOSE x \in s : TRUE

Folds(g, f, S) ==
    g = [s \in SUBSET S |-> IF s = {} THEN 0 ELSE f[Pick(s)] + g[s \ {Pick(s)}]]

\* The library's sum is the value of a fold.
LEMMA SumIs ==
    ASSUME NEW f, NEW S
    PROVE  SumFunctionOnSet(f, S) = (CHOOSE g : Folds(g, f, S))[S]
BY Zenon DEF SumFunctionOnSet, FoldFunctionOnSet, MapThenFoldSet, Folds, Pick

\* A set of subsets of a finite set has a member none of whose proper subsets is in it.
LEMMA SmallestSet ==
    ASSUME NEW S, IsFiniteSet(S), NEW B \in SUBSET SUBSET S, B # {}
    PROVE  \E T \in B : /\ T \in SUBSET S /\ IsFiniteSet(T)
                        /\ \A U \in SUBSET T : U # T => U \notin B
<1>1. FiniteSubsetsOf(S) = SUBSET S
  BY FS_FiniteSubsetsOfFinite, Zenon
<1>2. IsWellFoundedOn(StrictSubsetOrdering(S), SUBSET S)
  BY <1>1, FS_StrictSubsetOrderingWellFounded, Zenon
<1>3. PICK T \in B : \A U \in B : <<U, T>> \notin StrictSubsetOrdering(S)
  BY <1>2, WFMin, Zenon
<1>4. ASSUME NEW U \in SUBSET T, U # T, U \in B PROVE FALSE
  BY <1>3, <1>4, Zenon DEF StrictSubsetOrdering
<1> QED BY <1>3, <1>4, FS_Subset, Zenon

\* The element a fold takes next is one of those left.
LEMMA PickIn == ASSUME NEW s, s # {} PROVE Pick(s) \in s
BY Zenon DEF Pick

\* Two folds agree on the sets both cover.
LEMMA FoldsUnique ==
    ASSUME NEW S, IsFiniteSet(S), NEW f, NEW g, NEW h, Folds(g, f, S), Folds(h, f, S)
    PROVE  g = h
<1> DEFINE B == {s \in SUBSET S : g[s] # h[s]}
<1>1. ASSUME B # {} PROVE FALSE
  <2>1. PICK s \in B : /\ s \in SUBSET S /\ IsFiniteSet(s)
                       /\ \A u \in SUBSET s : u # s => u \notin B
    <3>1. B \in SUBSET SUBSET S
      BY Zenon
    <3> HIDE DEF B
    <3> QED BY <1>1, <3>1, SmallestSet, Zenon
  <2>2. CASE s = {}
    BY <2>2, Zenon DEF Folds
  <2>3. CASE s # {}
    <3>1. /\ g[s] = f[Pick(s)] + g[s \ {Pick(s)}]
          /\ h[s] = f[Pick(s)] + h[s \ {Pick(s)}]
      BY <2>3, Zenon DEF Folds
    <3>2. g[s \ {Pick(s)}] = h[s \ {Pick(s)}]
      BY <2>1, <2>3, PickIn, Zenon
    <3> QED BY <3>1, <3>2, Zenon
  <2> QED BY <2>2, <2>3, Zenon
<1>2. \A s \in SUBSET S : g[s] = h[s]
  BY <1>1, Zenon
<1>3. g = [s \in SUBSET S |-> g[s]] /\ h = [s \in SUBSET S |-> h[s]]
  BY Zenon DEF Folds
<1> QED BY <1>2, <1>3, Zenon

\* A fold over a set is a fold over each of its subsets.
LEMMA FoldsBelow ==
    ASSUME NEW S, NEW f, NEW g, Folds(g, f, S), NEW T \in SUBSET S
    PROVE  Folds([s \in SUBSET T |-> g[s]], f, T)
<1> DEFINE h == [s \in SUBSET T |-> g[s]]
<1>1. \A s \in SUBSET T : g[s] = IF s = {} THEN 0 ELSE f[Pick(s)] + g[s \ {Pick(s)}]
  BY Zenon DEF Folds
<1>2. \A s \in SUBSET T : h[s \ {Pick(s)}] = g[s \ {Pick(s)}]
  BY Zenon
<1>3. h = [s \in SUBSET T |-> IF s = {} THEN 0 ELSE f[Pick(s)] + h[s \ {Pick(s)}]]
  BY <1>1, <1>2, Zenon
<1> QED BY <1>3, Zenon DEF Folds

\* If the sum of a set is a fold, so is the sum of each subset, of the same one.
LEMMA SumBelow ==
    ASSUME NEW S, IsFiniteSet(S), NEW f, NEW g, Folds(g, f, S), NEW T \in SUBSET S
    PROVE  SumFunctionOnSet(f, T) = g[T]
<1> DEFINE h == [s \in SUBSET T |-> g[s]]
           c == CHOOSE k : Folds(k, f, T)
<1>1. Folds(h, f, T)
  BY FoldsBelow, Zenon
<1>2. Folds(c, f, T)
  BY <1>1, Zenon
<1>3. c = h
  BY <1>1, <1>2, FoldsUnique, FS_Subset, Zenon
<1>4. h[T] = g[T]
  BY Zenon
<1> QED BY <1>3, <1>4, SumIs, Zenon

\* Every finite set has a fold.
LEMMA FoldExists ==
    ASSUME NEW S, IsFiniteSet(S), NEW f PROVE \E g : Folds(g, f, S)
<1> DEFINE B == {T \in SUBSET S : ~ \E g : Folds(g, f, T)}
<1>1. SUFFICES ASSUME B # {} PROVE FALSE
  BY Zenon
<1>2. PICK T \in B : /\ T \in SUBSET S /\ IsFiniteSet(T)
                     /\ \A U \in SUBSET T : U # T => U \notin B
  <2>1. B \in SUBSET SUBSET S
    BY Zenon
  <2> HIDE DEF B
  <2> QED BY <1>1, <2>1, SmallestSet, Zenon
<1> DEFINE G == [s \in SUBSET T |->
                   IF s = {} THEN 0
                   ELSE f[Pick(s)] + SumFunctionOnSet(f, s \ {Pick(s)})]
<1>3. ASSUME NEW s \in SUBSET T, s # T PROVE G[s] = SumFunctionOnSet(f, s)
  <2>1. PICK g : Folds(g, f, s)
    BY <1>2, <1>3, Zenon
  <2>2. IsFiniteSet(s)
    BY <1>2, FS_Subset, Zenon
  <2>3. \A u \in SUBSET s : SumFunctionOnSet(f, u) = g[u]
    BY <2>1, <2>2, SumBelow
  <2>4. g[s] = IF s = {} THEN 0 ELSE f[Pick(s)] + g[s \ {Pick(s)}]
    BY <2>1, Zenon DEF Folds
  <2>5. s \in SUBSET s /\ s \ {Pick(s)} \in SUBSET s
    BY Zenon
  <2> QED BY <2>3, <2>4, <2>5, Zenon
<1>4. ASSUME NEW s \in SUBSET T, s # {} PROVE G[s \ {Pick(s)}] = SumFunctionOnSet(f, s \ {Pick(s)})
  BY <1>3, <1>4, PickIn, Zenon
<1>5. G = [s \in SUBSET T |-> IF s = {} THEN 0 ELSE f[Pick(s)] + G[s \ {Pick(s)}]]
  BY <1>4, Zenon
<1>6. Folds(G, f, T)
  BY <1>5, Zenon DEF Folds
<1> QED BY <1>2, <1>6, Zenon

\* The empty sum.
LEMMA SumEmpty == ASSUME NEW f PROVE SumFunctionOnSet(f, {}) = 0
<1>1. IsFiniteSet({})
  BY FS_EmptySet, Zenon
<1>2. PICK g : Folds(g, f, {})
  BY <1>1, FoldExists, Zenon
<1>3. SumFunctionOnSet(f, {}) = g[{}]
  BY <1>1, <1>2, SumBelow, Zenon
<1>4. g[{}] = 0
  BY <1>2, Zenon DEF Folds
<1> QED BY <1>3, <1>4, Zenon

\* A sum is the element taken first plus the rest.
LEMMA SumPick ==
    ASSUME NEW S, IsFiniteSet(S), S # {}, NEW f
    PROVE  SumFunctionOnSet(f, S) = f[Pick(S)] + SumFunctionOnSet(f, S \ {Pick(S)})
<1>1. PICK g : Folds(g, f, S)
  BY FoldExists, Zenon
<1>2. \A T \in SUBSET S : SumFunctionOnSet(f, T) = g[T]
  BY <1>1, SumBelow
<1>3. g[S] = f[Pick(S)] + g[S \ {Pick(S)}]
  BY <1>1, Zenon DEF Folds
<1>4. S \in SUBSET S /\ S \ {Pick(S)} \in SUBSET S
  BY Zenon
<1> QED BY <1>2, <1>3, <1>4, Zenon

\* A sum of integers is an integer.
LEMMA SumType ==
    ASSUME NEW S, IsFiniteSet(S), NEW f, \A x \in S : f[x] \in Int
    PROVE  SumFunctionOnSet(f, S) \in Int
<1> DEFINE B == {T \in SUBSET S : SumFunctionOnSet(f, T) \notin Int}
<1>1. SUFFICES ASSUME B # {} PROVE FALSE
  BY Zenon
<1>2. PICK T \in B : /\ T \in SUBSET S /\ IsFiniteSet(T)
                     /\ \A U \in SUBSET T : U # T => U \notin B
  <2>1. B \in SUBSET SUBSET S
    BY Zenon
  <2> HIDE DEF B
  <2> QED BY <1>1, <2>1, SmallestSet
<1>3. T # {}
  BY SumEmpty
<1>4. Pick(T) \in T /\ SumFunctionOnSet(f, T) = f[Pick(T)] + SumFunctionOnSet(f, T \ {Pick(T)})
  BY <1>2, <1>3, PickIn, SumPick, Zenon
<1>5. SumFunctionOnSet(f, T \ {Pick(T)}) \in Int
  BY <1>2, <1>4, Zenon
<1> QED BY <1>2, <1>4, <1>5

\* A sum does not depend on the order in which it is taken.
LEMMA SumTake ==
    ASSUME NEW S, IsFiniteSet(S), NEW f, \A x \in S : f[x] \in Int, NEW x \in S
    PROVE  SumFunctionOnSet(f, S) = f[x] + SumFunctionOnSet(f, S \ {x})
<1> DEFINE B == {T \in SUBSET S :
                   \E y \in T : SumFunctionOnSet(f, T) # f[y] + SumFunctionOnSet(f, T \ {y})}
<1>1. SUFFICES ASSUME B # {} PROVE FALSE
  BY Zenon
<1>2. PICK T \in B : /\ T \in SUBSET S /\ IsFiniteSet(T)
                     /\ \A U \in SUBSET T : U # T => U \notin B
  <2>1. B \in SUBSET SUBSET S
    BY Zenon
  <2> HIDE DEF B
  <2> QED BY <1>1, <2>1, SmallestSet, Zenon
<1>3. PICK y \in T : SumFunctionOnSet(f, T) # f[y] + SumFunctionOnSet(f, T \ {y})
  BY <1>2, Zenon
<1> DEFINE p == Pick(T)
           V == T \ {y, p}
<1>4. p \in T /\ SumFunctionOnSet(f, T) = f[p] + SumFunctionOnSet(f, T \ {p})
  BY <1>2, <1>3, PickIn, SumPick, Zenon
<1>5. p # y
  BY <1>3, <1>4, Zenon
<1> HIDE DEF p
<1>6. SumFunctionOnSet(f, T \ {p}) = f[y] + SumFunctionOnSet(f, V)
  <2>1. T \ {p} \in SUBSET T /\ T \ {p} # T /\ y \in T \ {p} /\ (T \ {p}) \ {y} = V
    BY <1>4, <1>5, Zenon
  <2>2. T \ {p} \notin B /\ T \ {p} \in SUBSET S
    BY <1>2, <2>1, Zenon
  <2> QED BY <2>1, <2>2, Zenon
<1>7. SumFunctionOnSet(f, T \ {y}) = f[p] + SumFunctionOnSet(f, V)
  <2>1. T \ {y} \in SUBSET T /\ T \ {y} # T /\ p \in T \ {y} /\ (T \ {y}) \ {p} = V
    BY <1>4, <1>5, Zenon
  <2>2. T \ {y} \notin B /\ T \ {y} \in SUBSET S
    BY <1>2, <2>1, Zenon
  <2> QED BY <2>1, <2>2, Zenon
<1>8. f[p] \in Int /\ f[y] \in Int /\ SumFunctionOnSet(f, V) \in Int
  <2>1. IsFiniteSet(V) /\ V \subseteq S
    BY <1>2, FS_Subset, Zenon
  <2> QED BY <1>2, <1>4, <2>1, SumType, Zenon
<1> QED BY <1>3, <1>4, <1>6, <1>7, <1>8

\* Sums of functions that agree.
LEMMA SumSame ==
    ASSUME NEW S, IsFiniteSet(S), NEW f, NEW g, \A x \in S : f[x] = g[x]
    PROVE  SumFunctionOnSet(f, S) = SumFunctionOnSet(g, S)
<1> DEFINE B == {T \in SUBSET S : SumFunctionOnSet(f, T) # SumFunctionOnSet(g, T)}
<1>1. SUFFICES ASSUME B # {} PROVE FALSE
  BY Zenon
<1>2. PICK T \in B : /\ T \in SUBSET S /\ IsFiniteSet(T)
                     /\ \A U \in SUBSET T : U # T => U \notin B
  <2>1. B \in SUBSET SUBSET S
    BY Zenon
  <2> HIDE DEF B
  <2> QED BY <1>1, <2>1, SmallestSet, Zenon
<1>3. T # {}
  BY SumEmpty, Zenon
<1>4. /\ Pick(T) \in T
      /\ SumFunctionOnSet(f, T) = f[Pick(T)] + SumFunctionOnSet(f, T \ {Pick(T)})
      /\ SumFunctionOnSet(g, T) = g[Pick(T)] + SumFunctionOnSet(g, T \ {Pick(T)})
  BY <1>2, <1>3, PickIn, SumPick, Zenon
<1>5. SumFunctionOnSet(f, T \ {Pick(T)}) = SumFunctionOnSet(g, T \ {Pick(T)})
  BY <1>2, <1>4, Zenon
<1> QED BY <1>2, <1>4, <1>5, Zenon

\* A sum of naturals is a natural.
LEMMA SumNat ==
    ASSUME NEW S, IsFiniteSet(S), NEW f, \A x \in S : f[x] \in Nat
    PROVE  SumFunctionOnSet(f, S) \in Nat
<1> DEFINE B == {T \in SUBSET S : SumFunctionOnSet(f, T) \notin Nat}
<1>1. SUFFICES ASSUME B # {} PROVE FALSE
  BY Zenon
<1>2. PICK T \in B : /\ T \in SUBSET S /\ IsFiniteSet(T)
                     /\ \A U \in SUBSET T : U # T => U \notin B
  <2>1. B \in SUBSET SUBSET S
    BY Zenon
  <2> HIDE DEF B
  <2> QED BY <1>1, <2>1, SmallestSet, Zenon
<1>3. T # {}
  BY SumEmpty
<1>4. Pick(T) \in T /\ SumFunctionOnSet(f, T) = f[Pick(T)] + SumFunctionOnSet(f, T \ {Pick(T)})
  BY <1>2, <1>3, PickIn, SumPick, Zenon
<1>5. SumFunctionOnSet(f, T \ {Pick(T)}) \in Nat
  BY <1>2, <1>4, Zenon
<1> QED BY <1>2, <1>4, <1>5

\* Changing one term changes the sum by as much.
LEMMA SumChange ==
    ASSUME NEW S, IsFiniteSet(S), NEW x \in S, NEW f, NEW g,
           \A y \in S : f[y] \in Int /\ g[y] \in Int,
           \A y \in S \ {x} : f[y] = g[y]
    PROVE  SumFunctionOnSet(g, S) = SumFunctionOnSet(f, S) + (g[x] - f[x])
<1>1. /\ SumFunctionOnSet(f, S) = f[x] + SumFunctionOnSet(f, S \ {x})
      /\ SumFunctionOnSet(g, S) = g[x] + SumFunctionOnSet(g, S \ {x})
  BY SumTake, Zenon
<1>2. IsFiniteSet(S \ {x})
  BY FS_Subset, Zenon
<1>3. SumFunctionOnSet(f, S \ {x}) = SumFunctionOnSet(g, S \ {x})
  BY <1>2, SumSame, Zenon
<1>4. SumFunctionOnSet(f, S \ {x}) \in Int
  BY <1>2, SumType, Zenon
<1> QED BY <1>1, <1>3, <1>4

\* The sum of a constant.
LEMMA SumConstant ==
    ASSUME NEW S, IsFiniteSet(S), NEW c \in Int, NEW f, \A x \in S : f[x] = c
    PROVE  SumFunctionOnSet(f, S) = Cardinality(S) * c
<1> DEFINE B == {T \in SUBSET S : SumFunctionOnSet(f, T) # Cardinality(T) * c}
<1>1. SUFFICES ASSUME B # {} PROVE FALSE
  BY Zenon
<1>2. PICK T \in B : /\ T \in SUBSET S /\ IsFiniteSet(T)
                     /\ \A U \in SUBSET T : U # T => U \notin B
  <2>1. B \in SUBSET SUBSET S
    BY Zenon
  <2> HIDE DEF B
  <2> QED BY <1>1, <2>1, SmallestSet
<1>3. T # {}
  <2>1. Cardinality({}) * c = 0
    BY FS_EmptySet
  <2> QED BY <2>1, SumEmpty, Zenon
<1>4. Pick(T) \in T /\ SumFunctionOnSet(f, T) = c + SumFunctionOnSet(f, T \ {Pick(T)})
  BY <1>2, <1>3, PickIn, SumPick, Zenon
<1>5. SumFunctionOnSet(f, T \ {Pick(T)}) = Cardinality(T \ {Pick(T)}) * c
  BY <1>2, <1>4, Zenon
<1>6. Cardinality(T \ {Pick(T)}) = Cardinality(T) - 1 /\ Cardinality(T) \in Nat
  BY <1>2, <1>4, FS_RemoveElement, FS_CardinalityType, Zenon
<1>7. \A n \in Nat : c + (n - 1) * c = n * c
  OBVIOUS
<1> QED BY <1>2, <1>4, <1>5, <1>6, <1>7, Zenon

\* Two disjoint parts.
LEMMA SumParts ==
    ASSUME NEW S, IsFiniteSet(S), NEW R, IsFiniteSet(R), S \cap R = {},
           NEW f, \A x \in S \cup R : f[x] \in Int
    PROVE  SumFunctionOnSet(f, S \cup R) = SumFunctionOnSet(f, S) + SumFunctionOnSet(f, R)
<1> DEFINE B == {T \in SUBSET S : SumFunctionOnSet(f, T \cup R)
                                       # SumFunctionOnSet(f, T) + SumFunctionOnSet(f, R)}
<1>1. SUFFICES ASSUME B # {} PROVE FALSE
  BY Zenon
<1>2. PICK T \in B : /\ T \in SUBSET S /\ IsFiniteSet(T)
                     /\ \A U \in SUBSET T : U # T => U \notin B
  <2>1. B \in SUBSET SUBSET S
    BY Zenon
  <2> HIDE DEF B
  <2> QED BY <1>1, <2>1, SmallestSet, Zenon
<1>3. SumFunctionOnSet(f, R) \in Int
  BY SumType, Zenon
<1>4. CASE T = {}
  <2>0. T \cup R = R
    BY <1>4, Zenon
  <2>1. SumFunctionOnSet(f, T) = 0 /\ SumFunctionOnSet(f, T \cup R) = SumFunctionOnSet(f, R)
    BY <1>4, <2>0, SumEmpty, Zenon
  <2>2. SumFunctionOnSet(f, T \cup R) = SumFunctionOnSet(f, T) + SumFunctionOnSet(f, R)
    BY <1>3, <2>1
  <2>3. SumFunctionOnSet(f, T \cup R) # SumFunctionOnSet(f, T) + SumFunctionOnSet(f, R)
    BY <1>2, Zenon
  <2> QED BY <2>2, <2>3, Zenon
<1>5. CASE T # {}
  <2>1. PICK x \in T : TRUE
    BY <1>5, Zenon
  <2>2. IsFiniteSet(T \cup R) /\ IsFiniteSet(T \ {x})
    BY <1>2, FS_Union, FS_Subset, Zenon
  <2>3. SumFunctionOnSet(f, T) = f[x] + SumFunctionOnSet(f, T \ {x})
    BY <1>2, SumTake, Zenon
  <2>4. SumFunctionOnSet(f, T \cup R) = f[x] + SumFunctionOnSet(f, (T \cup R) \ {x})
    BY <1>2, <2>2, SumTake
  <2>5. (T \cup R) \ {x} = (T \ {x}) \cup R
    BY <1>2, Zenon
  <2>6. SumFunctionOnSet(f, (T \ {x}) \cup R)
            = SumFunctionOnSet(f, T \ {x}) + SumFunctionOnSet(f, R)
    BY <1>2, Zenon
  <2>7. f[x] \in Int /\ SumFunctionOnSet(f, T \ {x}) \in Int
    BY <1>2, <2>2, SumType, Zenon
  <2> QED BY <1>2, <1>3, <2>3, <2>4, <2>5, <2>6, <2>7
<1> QED BY <1>4, <1>5, Zenon

-----------------------------------------------------------------------------
(* The theorems.                                                           *)

\* Sums over the spawns add up, for there are finitely many of them.
LEMMA SumsHold == SumsAdd
<1>1. IsFiniteSet(Spawns)
  BY LedgerAssumption, Zenon
<1>2. \A f : (\A t \in Spawns : f[t] \in Nat) => SumFunctionOnSet(f, Spawns) \in Nat
  BY <1>1, SumNat, Zenon
<1>3. ASSUME NEW f, NEW g, NEW s \in Spawns,
             \A t \in Spawns : f[t] \in Nat /\ g[t] \in Nat,
             \A t \in Spawns \ {s} : f[t] = g[t]
      PROVE  SumFunctionOnSet(g, Spawns) = SumFunctionOnSet(f, Spawns) + (g[s] - f[s])
  <2>1. \A t \in Spawns : f[t] \in Int /\ g[t] \in Int
    BY <1>3
  <2> QED BY <1>1, <1>3, <2>1, SumChange
<1>4. SumFunctionOnSet([t \in Spawns |-> 0], Spawns) = 0
  <2>1. SumFunctionOnSet([t \in Spawns |-> 0], Spawns) = Cardinality(Spawns) * 0
    BY <1>1, SumConstant
  <2> QED BY <1>1, <2>1, FS_CardinalityType
<1> QED BY <1>2, <1>3, <1>4, Zenon DEF SumsAdd

\* Whatever budget_usage.py's transactions do, in any order: reservations are
\* of windows that existed, queues are of reservations, planned debits stand
\* on the rows they were read from, and the ledger balances.
THEOREM LedgerInvariance == Spec => []LedgerInv
<1>1. Init => LedgerInv
  BY SumsHold, LedgerInit, Zenon
<1>2. LedgerInv /\ [Next]_vars => LedgerInv'
  BY SumsHold, LedgerNext, Zenon
<1> QED BY <1>1, <1>2, PTL DEF Spec

\* A usage row is what the last reset left, plus for each spawn that reserved
\* in this generation its estimate until reconcile_usage comes to the row and
\* what it cost from then on: no debit is lost, doubled or applied to a window
\* of another generation.
THEOREM LedgerBalancesAlways == Spec => []LedgerBalances
<1>1. LedgerInv => LedgerBalances
  BY Zenon DEF LedgerInv
<1> QED BY <1>1, LedgerInvariance, PTL

\* When every spawn is idle, was refused or has been refunded, the rows are
\* back to what the last reset left: a refused reservation wrote nothing and
\* a run that raised was refunded in full.
THEOREM NothingHeldBackAlways == Spec => []NothingHeldBack
<1>1. LedgerInv => NothingHeldBack
  BY SumsHold, NothingOwed, Zenon
<1> QED BY <1>1, LedgerInvariance, PTL

-----------------------------------------------------------------------------
(* The price of a run, token by token.                                     *)

\* A stretch of tokens at one rate.
LEMMA Stretch ==
    ASSUME NEW m \in Nat, NEW n \in Nat, m <= n, NEW c \in Nat, NEW f,
           \A i \in (m + 1)..n : f[i] = c
    PROVE  IsFiniteSet((m + 1)..n) /\ SumFunctionOnSet(f, (m + 1)..n) = (n - m) * c
<1>1. IsFiniteSet((m + 1)..n) /\ Cardinality((m + 1)..n) = n - m
  <2>1. m + 1 \in Int /\ n \in Int
    OBVIOUS
  <2>2. /\ IsFiniteSet((m + 1)..n)
        /\ Cardinality((m + 1)..n) = IF m + 1 > n THEN 0 ELSE n - (m + 1) + 1
    BY <2>1, FS_Interval, Zenon
  <2> QED BY <2>2
<1>2. SumFunctionOnSet(f, (m + 1)..n) = Cardinality((m + 1)..n) * c
  BY <1>1, SumConstant
<1> QED BY <1>1, <1>2, Zenon

\* Tokens a + 1 .. a + b of n are charged at o, the others at i.
ChargedAt(f, n, a, b, i, o) ==
    \A k \in 1..n : /\ k > a /\ k <= a + b => f[k] = o
                    /\ ~(k > a /\ k <= a + b) => f[k] = i

\* Their price.
ChargeFor(n, a, b, i, o) == a * i + b * o + (n - (a + b)) * i

\* Three stretches: input, output, and what the report does not attribute.
LEMMA TokenByToken ==
    ASSUME NEW a \in Nat, NEW b \in Nat, NEW n \in Nat, a + b <= n,
           NEW i \in Nat, NEW o \in Nat, NEW f,
           ChargedAt(f, n, a, b, i, o)
    PROVE  SumFunctionOnSet(f, 1..n) = ChargeFor(n, a, b, i, o)
<1> USE DEF ChargedAt
<1> DEFINE A == 1..a  B == (a + 1)..(a + b)  C == (a + b + 1)..n
<1>1. IsFiniteSet(A) /\ SumFunctionOnSet(f, A) = a * i
  <2>1. 0 \in Nat /\ 0 <= a /\ \A k \in (0 + 1)..a : f[k] = i
    OBVIOUS
  <2>2. IsFiniteSet((0 + 1)..a) /\ SumFunctionOnSet(f, (0 + 1)..a) = (a - 0) * i
    BY <2>1, Stretch, ZenonT(60)
  <2>3. 0 + 1 = 1 /\ a - 0 = a
    OBVIOUS
  <2> QED BY <2>2, <2>3, Zenon
<1>2. IsFiniteSet(B) /\ SumFunctionOnSet(f, B) = b * o
  <2>1. a + b \in Nat /\ a <= a + b /\ \A k \in (a + 1)..(a + b) : f[k] = o
    OBVIOUS
  <2>2. IsFiniteSet(B) /\ SumFunctionOnSet(f, B) = ((a + b) - a) * o
    BY <2>1, Stretch, ZenonT(60)
  <2>3. (a + b) - a = b
    OBVIOUS
  <2> QED BY <2>2, <2>3, Zenon
<1>3. IsFiniteSet(C) /\ SumFunctionOnSet(f, C) = (n - (a + b)) * i
  <2>1. a + b \in Nat /\ \A k \in (a + b + 1)..n : f[k] = i
    OBVIOUS
  <2> QED BY <2>1, Stretch, ZenonT(60)
<1>4. /\ A \cap B = {} /\ (A \cup B) \cap C = {} /\ (A \cup B) \cup C = 1..n
      /\ \A k \in 1..n : f[k] \in Int
  OBVIOUS
<1> HIDE DEF A, B, C
<1>5. IsFiniteSet(A \cup B) /\ SumFunctionOnSet(f, A \cup B) = a * i + b * o
  <2>1. \A k \in A \cup B : f[k] \in Int
    BY <1>4, Zenon
  <2>2. SumFunctionOnSet(f, A \cup B) = SumFunctionOnSet(f, A) + SumFunctionOnSet(f, B)
    BY <1>1, <1>2, <1>4, <2>1, SumParts, Zenon
  <2> QED BY <1>1, <1>2, <2>2, FS_Union, Zenon
<1>6. SumFunctionOnSet(f, (A \cup B) \cup C)
         = SumFunctionOnSet(f, A \cup B) + SumFunctionOnSet(f, C)
  BY <1>3, <1>4, <1>5, SumParts, Zenon
<1> QED BY <1>3, <1>4, <1>5, <1>6, Zenon DEF ChargeFor

\* PricedMicros charges a report token by token.
LEMMA PricedTokenByToken ==
    ASSUME NEW i \in Nat, NEW o \in Nat, NEW u, u.total \in Nat, u.input \in Nat,
           u.output \in Nat, NEW n,
           n = IF u.total < u.input + u.output THEN u.input + u.output ELSE u.total,
           NEW f, ChargedAt(f, n, u.input, u.output, i, o)
    PROVE  PricedMicros(Pair(i, o), u) = Round(SumFunctionOnSet(f, 1..n))
<1>1. PICK a, b : a = u.input /\ b = u.output
  BY Zenon
<1>2. a \in Nat /\ b \in Nat
  BY <1>1, Zenon
<1>3. n \in Nat /\ a + b <= n
  BY <1>1, <1>2
<1>4. /\ Floor(u.input) = a /\ Floor(u.output) = b /\ Unattributed(u) = n - (a + b)
  BY <1>1, <1>2 DEF Floor, Unattributed
<1>5. PricedMicros(Pair(i, o), u) = Round(ChargeFor(n, a, b, i, o))
  BY <1>4, Zenon DEF PricedMicros, Pair, ChargeFor
<1>6. ChargedAt(f, n, a, b, i, o)
  BY <1>1, Zenon
<1>7. SumFunctionOnSet(f, 1..n) = ChargeFor(n, a, b, i, o)
  BY <1>2, <1>3, <1>6, TokenByToken
<1> QED BY <1>5, <1>7, Zenon

\* A settled run has been debited, estimate and true-up together, the rounded
\* price of its tokens, each charged once: output tokens at the output rate
\* and all others, also those the report does not attribute, at the input
\* rate (CostAccountant's price of a usage report).
THEOREM EveryTokenBilledOnceAlways == Spec => []EveryTokenBilledOnce
<1>1. LedgerInv => EveryTokenBilledOnce
  <2> SUFFICES ASSUME LedgerInv, NEW s \in Spawns, pc[s] = "done"
               PROVE  LET u == report[s]
                          rates == RatesFor(Rate[s], Tier[s])
                          tokens == 1 .. (IF u.total < u.input + u.output
                                          THEN u.input + u.output ELSE u.total)
                          rateOf == [i \in tokens |-> IF i > u.input /\ i <= u.input + u.output
                                                      THEN rates.output ELSE rates.input]
                      IN Est(s)["micros"] + delta[s]["micros"] = Round(SumFunction(rateOf))
    BY Zenon DEF EveryTokenBilledOnce
  <2> DEFINE u == report[s]
             rates == RatesFor(Rate[s], Tier[s])
             n == IF u.total < u.input + u.output THEN u.input + u.output ELSE u.total
             rateOf == [i \in 1..n |-> IF i > u.input /\ i <= u.input + u.output
                                       THEN rates.output ELSE rates.input]
  <2>1. u \in Reports /\ delta[s] = Minus(Actual(s, u), Est(s))
    BY Zenon DEF LedgerInv, SpawnOK, PaidOK
  <2>2. u.total \in Nat /\ u.input \in Nat /\ u.output \in Nat
    BY <2>1, LedgerAssumption, Zenon
  <2>3. PICK i, o \in Nat : rates = Pair(i, o)
    BY RatesType, Zenon
  <2>4. PricedMicros(rates, u) = Round(SumFunctionOnSet(rateOf, 1..n))
    <3> HIDE DEF u, rates
    <3>1. ChargedAt(rateOf, n, u.input, u.output, i, o)
      BY <2>3, Zenon DEF Pair, ChargedAt
    <3> HIDE DEF rateOf, n
    <3>2. n = IF u.total < u.input + u.output THEN u.input + u.output ELSE u.total
      BY Zenon DEF n
    <3> QED BY <2>2, <2>3, <3>1, <3>2, PricedTokenByToken
  <2>5. SumFunction(rateOf) = SumFunctionOnSet(rateOf, 1..n)
    BY Zenon DEF SumFunction
  <2>6. Actual(s, u)["micros"] = PricedMicros(rates, u)
    BY <2>1, Zenon DEF Actual, Charges, PriceMicros
  <2>7. Est(s)["micros"] + delta[s]["micros"] = Actual(s, u)["micros"]
    <3>1. "micros" \in Dims /\ Est(s)["micros"] \in Nat /\ Actual(s, u)["micros"] \in Nat
      BY <2>1, EstType, ActualType, Zenon DEF Dims
    <3> QED BY <2>1, <3>1 DEF Minus
  <2> QED BY <2>4, <2>5, <2>6, <2>7, Zenon
<1> QED BY <1>1, LedgerInvariance, PTL
=============================================================================
