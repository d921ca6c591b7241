-------------------------- MODULE IdempotencyProofs --------------------------
(***************************************************************************)
(* The idempotency properties, for any number of tasks, keys and requests, *)
(* any lease and any number of claim attempts.                             *)
(***************************************************************************)
EXTENDS Idempotency, TLAPS

\* A task's token is the one it minted for this call, and a token that has been
\* given back is one minted earlier than any call in progress.
Minted == \A p \in Procs : call[p] # None => call[p].token = <<p, calls[p]>>
TokenInv ==
    /\ Minted
    /\ \A k \in Keys : \A t \in released[k] : t[2] <= calls[t[1]]
    /\ \A k \in Keys, p \in Procs : call[p] # None => call[p].token \notin released[k]

\* A task past idempotency_start owns the row, which is executing, or uncertain
\* because another claim found its lease lapsed.
OwnerInv ==
    \A p \in Procs, k \in Keys : Executing(p, k) =>
        /\ row[k] # None
        /\ row[k].owner = call[p].token
        /\ row[k].status \in {"executing", "uncertain"}

\* An effect that was not given back pins its row: it belongs to the row's owner,
\* or the row is settled.  Answers exist for settled rows only.
Pinned(k) ==
    /\ \A t \in effects[k] \ released[k] :
          /\ row[k] # None
          /\ row[k].status # "claimed"
          /\ row[k].owner # None => row[k].owner = t
    /\ \A s, t \in effects[k] \ released[k] : s = t
    /\ row[k] # None /\ row[k].status = "completed" =>
          row[k].result \in effects[k] \ released[k]
    /\ answers[k] # {} =>
          /\ row[k] # None
          /\ row[k].owner = None
          /\ answers[k] \subseteq effects[k] \ released[k]

\* A task about to complete has taken its effect.
TookEffect ==
    \A p \in Procs : pc[p] \in {"complete", "uncacheable"} =>
        call[p].token \in effects[call[p].key]

EffectInv == TookEffect /\ \A k \in Keys : Pinned(k)

IndInv == TypeOK /\ TokenInv /\ OwnerInv /\ EffectInv

-----------------------------------------------------------------------------

\* What a completed row replays is the output of some execution.
LEMMA ResultType ==
    ASSUME NEW r \in Row, RowOK(r), r.status = "completed" PROVE r.result \in Token
BY Zenon DEF Row, RowOK

\* A task inside a call has a well-formed one.
LEMMA CallType ==
    ASSUME TypeOK, NEW p \in Procs, pc[p] # "idle"
    PROVE  /\ call[p] \in Call /\ call[p] # None
           /\ call[p].key \in Keys /\ call[p].bound \in Bounds
           /\ call[p].token \in Token /\ call[p].token # None
           /\ call[p].began \in Nat /\ call[p].tries \in Nat
           /\ row[call[p].key] # None => row[call[p].key] \in Row /\ RowOK(row[call[p].key])
BY NoneAssumption, Zenon DEF TypeOK, Call

\* A lease ends at a time of the clock.
LEMMA LeaseType == ASSUME NEW at \in Nat PROVE LeaseUntil(at) \in Nat
BY ConstantsAssumption DEF LeaseUntil

\* What each store transition writes is a row with the columns its status calls for.
LEMMA FreshRow ==
    ASSUME NEW c \in Call
    PROVE  /\ Fresh(c) \in Row /\ RowOK(Fresh(c)) /\ Fresh(c) # None
           /\ Fresh(c).owner = c.token /\ Fresh(c).status = "claimed"
BY NoneAssumption, LeaseType DEF Row, Call, RowOK, Fresh, Status

\* The row of a claim taken over (_existing_claim).
LEMMA TakenRow ==
    ASSUME NEW c \in Call, NEW r \in Row, RowOK(r), r.status = "claimed"
    PROVE  /\ Taken(r, c) \in Row /\ RowOK(Taken(r, c)) /\ Taken(r, c) # None
           /\ Taken(r, c).owner = c.token /\ Taken(r, c).status = "claimed"
BY NoneAssumption, LeaseType, ZenonT(60) DEF Row, Call, RowOK, Taken, Status

\* The row idempotency_start leaves.
LEMMA StartedRow ==
    ASSUME NEW at \in Nat, NEW r \in Row, RowOK(r), r.status = "claimed"
    PROVE  /\ Started(r, at) \in Row /\ RowOK(Started(r, at)) /\ Started(r, at) # None
           /\ Started(r, at).owner = r.owner /\ Started(r, at).status = "executing"
BY NoneAssumption, LeaseType, ZenonT(60) DEF Row, RowOK, Started, Status

\* The row of an execution parked as uncertain.
LEMMA ParkedRow ==
    ASSUME NEW r \in Row, RowOK(r), r.status = "executing"
    PROVE  /\ Parked(r) \in Row /\ RowOK(Parked(r)) /\ Parked(r) # None
           /\ Parked(r).owner = r.owner /\ Parked(r).status = "uncertain"
BY NoneAssumption, Zenon DEF Row, RowOK, Parked, Status

\* The row idempotency_complete and idempotency_uncacheable leave.
LEMMA SettledRow ==
    ASSUME NEW r \in Row, NEW t \in Token, NEW status, NEW result,
           \/ status = "completed" /\ result = t
           \/ status = "uncacheable" /\ result = None
    PROVE  LET s == Settled(r, status, result)
           IN  /\ s \in Row /\ RowOK(s) /\ s # None
               /\ s.owner = None /\ s.status = status /\ s.result = result
BY NoneAssumption, ZenonT(60) DEF Row, RowOK, Settled, Status

\* A claim that starts over keeps its token and its key.
LEMMA RetriedCall ==
    ASSUME NEW c \in Call
    PROVE  /\ Retried(c) \in Call /\ Retried(c) # None
           /\ Retried(c).token = c.token /\ Retried(c).key = c.key
BY NoneAssumption DEF Call, Retried

\* Every action keeps every variable in its type.
LEMMA TypeStep == TypeOK /\ [Next]_vars => TypeOK'
<1> SUFFICES ASSUME TypeOK, [Next]_vars PROVE TypeOK'
  BY Zenon
<1>1. CASE Tick
  BY <1>1 DEF TypeOK, Tick, history
<1>2. ASSUME NEW p \in Procs, Begin(p) PROVE TypeOK'
  <2>1. PICK k \in Keys, b \in Bounds :
           call' = [call EXCEPT ![p] =
               [key |-> k, bound |-> b, token |-> <<p, calls[p] + 1>>,
                began |-> now, tries |-> 0]]
    BY <1>2, ZenonT(60) DEF Begin
  <2>2. [key |-> k, bound |-> b, token |-> <<p, calls[p] + 1>>,
         began |-> now, tries |-> 0] \in Call
    BY <1>2, ConstantsAssumption DEF Begin, Call, Token, TypeOK
  <2> QED
    BY <1>2, <2>1, <2>2, NoneAssumption DEF Begin, TypeOK, Pc, history
<1>3. ASSUME NEW p \in Procs, ClaimInsert(p) PROVE TypeOK'
  BY <1>3, CallType, FreshRow DEF ClaimInsert, TypeOK, Pc, SetRow, Goto, history
<1>4. ASSUME NEW p \in Procs, ClaimReread(p) PROVE TypeOK'
  <2> DEFINE r == row[call[p].key]
  <2>1. /\ pc[p] # "idle" /\ UNCHANGED <<now, calls, effects, released>>
        /\ \/ pc' = [pc EXCEPT ![p] = "gate"] /\ call' = call
           \/ pc' = [pc EXCEPT ![p] = "insert"] /\ call' = [call EXCEPT ![p] = Retried(@)]
           \/ Return(p)
    BY <1>4, Zenon DEF ClaimReread, Goto
  <2>2. /\ call[p] \in Call /\ call[p] # None /\ call[p].key \in Keys
        /\ Retried(call[p]) \in Call /\ Retried(call[p]) # None
        /\ r # None => r \in Row /\ RowOK(r)
    BY <2>1, CallType, RetriedCall, Zenon
  <2>3. /\ pc' \in [Procs -> Pc] /\ call' \in [Procs -> Call \cup {None}]
        /\ \A q \in Procs : pc'[q] = "idle" <=> call'[q] = None
    BY <2>1, <2>2, Zenon DEF TypeOK, Pc, Return
  <2>4. \/ row' = row
        \/ r # None /\ r.status = "claimed" /\ row' = [row EXCEPT ![call[p].key] = Taken(r, call[p])]
        \/ r # None /\ r.status = "executing" /\ row' = [row EXCEPT ![call[p].key] = Parked(r)]
    BY <1>4, Zenon DEF ClaimReread, SetRow
  <2>5. row' = row \/ \E x \in Row : RowOK(x) /\ row' = [row EXCEPT ![call[p].key] = x]
    BY <2>2, <2>4, TakenRow, ParkedRow, Zenon
  <2>6. row' \in [Keys -> Row \cup {None}] /\ \A k \in Keys : row'[k] # None => RowOK(row'[k])
    BY <2>5, Zenon DEF TypeOK
  <2>7. \/ answers' = answers
        \/ /\ r # None /\ r.status = "completed"
           /\ answers' = [answers EXCEPT ![call[p].key] = @ \cup {r.result}]
    BY <1>4, Zenon DEF ClaimReread
  <2>8. answers' \in [Keys -> SUBSET Token]
    BY <2>2, <2>7, ResultType DEF TypeOK
  <2> QED
    BY <2>1, <2>3, <2>6, <2>8, Zenon DEF TypeOK
<1>5. ASSUME NEW p \in Procs, Gate(p) PROVE TypeOK'
  BY <1>5, Zenon DEF Gate, TypeOK, Pc, Goto, history
<1>6. ASSUME NEW p \in Procs, Start(p) PROVE TypeOK'
  BY <1>6, CallType, StartedRow
  DEF Start, Owned, TypeOK, Pc, SetRow, Goto, Return, history
<1>7. ASSUME NEW p \in Procs, Execute(p) PROVE TypeOK'
  BY <1>7, CallType DEF Execute, TypeOK, Pc, Goto
<1>8. ASSUME NEW p \in Procs, Release(p) PROVE TypeOK'
  BY <1>8, CallType DEF Release, Owned, TypeOK, Pc, SetRow, Return
<1>9. ASSUME NEW p \in Procs, Complete(p) PROVE TypeOK'
  BY <1>9, CallType, SettledRow DEF Complete, Owned, TypeOK, Pc, SetRow, Return
<1>10. ASSUME NEW p \in Procs, Abandon(p) PROVE TypeOK'
  BY <1>10, Zenon DEF Abandon, TypeOK, Pc, Return, history
<1>11. CASE UNCHANGED vars
  BY <1>11, Zenon DEF TypeOK, vars, history
<1> QED
  BY <1>1, <1>2, <1>3, <1>4, <1>5, <1>6, <1>7, <1>8, <1>9, <1>10, <1>11, Zenon DEF Next, Step

\* Tokens stay fresh: only a task's own release gives its token back, and then
\* the task is done with it.
LEMMA TokenStep == IndInv /\ [Next]_vars => TokenInv'
<1> SUFFICES ASSUME IndInv, [Next]_vars PROVE TokenInv'
  BY Zenon
<1> USE DEF IndInv
<1>1. ASSUME NEW p \in Procs, Begin(p) PROVE TokenInv'
  <2>1. PICK k \in Keys, b \in Bounds :
           call' = [call EXCEPT ![p] =
               [key |-> k, bound |-> b, token |-> <<p, calls[p] + 1>>,
                began |-> now, tries |-> 0]]
    BY <1>1, ZenonT(60) DEF Begin
  <2>2. /\ calls' = [calls EXCEPT ![p] = @ + 1]
        /\ calls' \in [Procs -> Nat] /\ calls'[p] = calls[p] + 1
        /\ \A q \in Procs : calls[q] <= calls'[q]
        /\ released' = released
    BY <1>1 DEF Begin, TypeOK, history
  <2>3. ASSUME NEW k2 \in Keys, NEW t \in released[k2] PROVE t[2] <= calls'[t[1]]
    <3>1. t \in Token /\ t[1] \in Procs /\ t[2] \in Nat
      BY DEF TypeOK, Token
    <3> QED
      BY <2>2, <2>3, <3>1 DEF TokenInv, Minted, TypeOK
  <2>4. \A k2 \in Keys : <<p, calls[p] + 1>> \notin released[k2]
    BY DEF TokenInv, Minted, TypeOK
  <2> QED
    BY <2>1, <2>2, <2>3, <2>4, Zenon DEF TokenInv, Minted, TypeOK
<1>2. ASSUME NEW p \in Procs, Release(p) PROVE TokenInv'
  <2>1. /\ call[p] # None /\ call[p].key \in Keys
        /\ calls' = calls /\ call' = [call EXCEPT ![p] = None]
        /\ \/ released' = released
           \/ released' = [released EXCEPT ![call[p].key] = @ \cup {call[p].token}]
    BY <1>2, CallType, Zenon DEF Release, Return
  <2>2. \A q \in Procs : call'[q] # None => q # p /\ call'[q] = call[q]
    BY <2>1, Zenon DEF TypeOK
  <2>3. call[p].token = <<p, calls[p]>> /\ calls[p] \in Nat
    BY <2>1, Zenon DEF TokenInv, Minted, TypeOK
  <2>4. \A k \in Keys : \A t \in released'[k] : t \in released[k] \/ t = <<p, calls[p]>>
    BY <2>1, <2>3 DEF TypeOK
  <2> QED
    BY <2>1, <2>2, <2>3, <2>4 DEF TokenInv, Minted
<1>3. ASSUME NEW p \in Procs, ClaimReread(p) PROVE TokenInv'
  <2>1. UNCHANGED <<calls, released>>
    BY <1>3, Zenon DEF ClaimReread
  <2>2. /\ call[p] # None /\ Retried(call[p]) # None
        /\ Retried(call[p]).token = call[p].token
    BY <1>3, CallType, RetriedCall, ZenonT(60) DEF ClaimReread
  <2>3. \/ call' = call
        \/ call' = [call EXCEPT ![p] = None]
        \/ call' = [call EXCEPT ![p] = Retried(@)]
    BY <1>3, Zenon DEF ClaimReread, Goto, Return
  <2>4. \A q \in Procs : call'[q] # None => call[q] # None /\ call'[q].token = call[q].token
    BY <2>2, <2>3, Zenon DEF TypeOK
  <2> QED
    BY <2>1, <2>4, Zenon DEF TokenInv, Minted
<1>4. ASSUME UNCHANGED <<calls, released>>,
             \A p \in Procs : call'[p] \in {call[p], None}
      PROVE  TokenInv'
  BY <1>4, Zenon DEF TokenInv, Minted
<1>5. CASE Tick \/ UNCHANGED vars
  BY <1>4, <1>5, Zenon DEF Tick, vars, history
<1>6. ASSUME NEW p \in Procs,
             \/ ClaimInsert(p) \/ Gate(p) \/ Start(p)
             \/ Execute(p) \/ Complete(p) \/ Abandon(p)
      PROVE  TokenInv'
  BY <1>4, <1>6, Zenon DEF ClaimInsert, Gate, Start, Execute, Complete, Abandon,
                    Goto, Return, TypeOK, history
<1> QED
  BY <1>1, <1>2, <1>3, <1>5, <1>6, Zenon DEF Next, Step

\* A row under execution is never handed to another task.
LEMMA OwnerStep == IndInv /\ [Next]_vars => OwnerInv'
<1> SUFFICES ASSUME IndInv, [Next]_vars, NEW q \in Procs, NEW k \in Keys, Executing(q, k)'
             PROVE  (/\ row[k] # None
                     /\ row[k].owner = call[q].token
                     /\ row[k].status \in {"executing", "uncertain"})'
  BY Zenon DEF OwnerInv
<1> USE DEF IndInv
<1>1. ASSUME NEW p \in Procs, ClaimReread(p)
      PROVE  (/\ row[k] # None
              /\ row[k].owner = call[q].token
              /\ row[k].status \in {"executing", "uncertain"})'
  <2>1. p # q /\ pc[q] = pc'[q] /\ call[q] = call'[q] /\ Executing(q, k)
    <3>1. /\ pc' \in [Procs -> Pc] /\ pc'[p] \in {"insert", "gate", "idle"}
          /\ \A u \in Procs : u # p => pc'[u] = pc[u] /\ call'[u] = call[u]
      BY <1>1, Zenon DEF ClaimReread, Goto, Return, TypeOK, Pc
    <3> QED
      BY <3>1, Zenon DEF Executing
  <2>2. CASE call[p].key = k
    <3>1. /\ row[k] # None /\ row[k].owner = call[q].token
          /\ row[k].status \in {"executing", "uncertain"}
          /\ row[k] \in Row /\ RowOK(row[k])
      BY <2>1, Zenon DEF OwnerInv, TypeOK
    <3>2. row'[k] = row[k] \/ (row[k].status = "executing" /\ row'[k] = Parked(row[k]))
      BY <1>1, <2>2, <3>1, Zenon DEF ClaimReread, SetRow, TypeOK
    <3> QED
      BY <2>1, <3>1, <3>2, ParkedRow, Zenon
  <2>3. CASE call[p].key # k
    <3>1. \/ row' = row
          \/ \E r : row' = [row EXCEPT ![call[p].key] = r]
      BY <1>1, Zenon DEF ClaimReread, SetRow
    <3>2. row'[k] = row[k]
      BY <2>3, <3>1, Zenon DEF TypeOK
    <3> QED
      BY <2>1, <3>2, Zenon DEF OwnerInv
  <2> QED
    BY <2>2, <2>3, Zenon
<1>2. ASSUME NEW p \in Procs, Start(p)
      PROVE  (/\ row[k] # None
              /\ row[k].owner = call[q].token
              /\ row[k].status \in {"executing", "uncertain"})'
  <2>1. /\ pc[p] = "start" /\ call[p].key \in Keys
        /\ row[call[p].key] # None => row[call[p].key] \in Row /\ RowOK(row[call[p].key])
    BY <1>2, CallType, Zenon DEF Start
  <2>2. CASE Owned(p, {"claimed"})
    <3>1. /\ row[call[p].key] # None /\ row[call[p].key].status = "claimed"
          /\ row[call[p].key].owner = call[p].token
          /\ row' = [row EXCEPT ![call[p].key] = Started(row[call[p].key], now)]
          /\ pc' = [pc EXCEPT ![p] = "execute"] /\ call' = call
      BY <1>2, <2>2, Zenon DEF Start, Owned, SetRow, Goto
    <3>2. LET x == Started(row[call[p].key], now)
          IN  x # None /\ x.owner = call[p].token /\ x.status = "executing"
      BY <2>1, <3>1, StartedRow, Zenon DEF TypeOK
    <3>3. CASE q = p
      BY <2>1, <3>1, <3>2, <3>3, Zenon DEF Executing, TypeOK
    <3>4. CASE q # p
      <4>1. Executing(q, k) /\ call'[q] = call[q]
        BY <3>1, <3>4, Zenon DEF Executing, TypeOK
      <4>2. row[k] # None /\ row[k].status # "claimed"
        BY <4>1, Zenon DEF OwnerInv
      <4>3. row'[k] = row[k]
        BY <3>1, <4>2, Zenon DEF TypeOK
      <4> QED
        BY <4>1, <4>3, Zenon DEF OwnerInv
    <3> QED
      BY <3>3, <3>4, Zenon
  <2>3. CASE ~Owned(p, {"claimed"})
    <3>1. q # p /\ pc'[q] = pc[q] /\ call'[q] = call[q] /\ row' = row
      BY <1>2, <2>3, Zenon DEF Start, Return, Executing, TypeOK
    <3> QED
      BY <3>1, Zenon DEF OwnerInv, Executing
  <2> QED
    BY <2>2, <2>3, Zenon
<1>3. ASSUME NEW p \in Procs, Release(p) \/ Complete(p)
      PROVE  (/\ row[k] # None
              /\ row[k].owner = call[q].token
              /\ row[k].status \in {"executing", "uncertain"})'
  <2>1. p # q /\ pc[q] = pc'[q] /\ call[q] = call'[q] /\ Executing(q, k)
    BY <1>3, Zenon DEF Release, Complete, Executing, Return, TypeOK
  <2>2. call[p].token # call[q].token
    <3>1. call[p] # None /\ call[q] # None
      BY <1>3, <2>1, CallType, Zenon DEF Release, Complete, Executing
    <3>2. Minted
      BY Zenon DEF TokenInv
    <3> QED
      BY <2>1, <3>1, <3>2 DEF Minted
  <2>3. row[k].owner = call[q].token
    BY <2>1, Zenon DEF OwnerInv
  <2>4. \/ row' = row
        \/ /\ row[call[p].key].owner = call[p].token
           /\ \E x : row' = [row EXCEPT ![call[p].key] = x]
    BY <1>3, Zenon DEF Release, Complete, Owned, SetRow
  <2>5. row'[k] = row[k]
    BY <2>2, <2>3, <2>4, Zenon DEF TypeOK
  <2> QED
    BY <2>1, <2>5, Zenon DEF OwnerInv
<1>4. ASSUME NEW p \in Procs, ClaimInsert(p)
      PROVE  (/\ row[k] # None
              /\ row[k].owner = call[q].token
              /\ row[k].status \in {"executing", "uncertain"})'
  BY <1>4, CallType DEF ClaimInsert, OwnerInv, Executing, SetRow, Goto, TypeOK
<1>5. ASSUME NEW p \in Procs, Begin(p) \/ Gate(p) \/ Execute(p) \/ Abandon(p)
      PROVE  (/\ row[k] # None
              /\ row[k].owner = call[q].token
              /\ row[k].status \in {"executing", "uncertain"})'
  BY <1>5 DEF Begin, Gate, Execute, Abandon, OwnerInv, Executing, Goto, Return, TypeOK
<1>6. CASE Tick \/ UNCHANGED vars
  BY <1>6, Zenon DEF Tick, vars, OwnerInv, Executing
<1> QED
  BY <1>1, <1>2, <1>3, <1>4, <1>5, <1>6, Zenon DEF Next, Step

\* A key whose row and history a step leaves alone stays pinned.
LEMMA PinnedKept ==
    ASSUME NEW k, Pinned(k), row'[k] = row[k], effects'[k] = effects[k],
           released'[k] = released[k], answers'[k] = answers[k]
    PROVE  Pinned(k)'
BY Zenon DEF Pinned

\* Only the adapter call brings a task to completion, and it records the effect.
LEMMA TookStep == IndInv /\ [Next]_vars => TookEffect'
<1> SUFFICES ASSUME TypeOK, TookEffect, [Next]_vars PROVE TookEffect'
  BY Zenon DEF IndInv, EffectInv
<1>1. ASSUME NEW p \in Procs, Execute(p) PROVE TookEffect'
  <2>1. /\ call[p].key \in Keys /\ call' = call
        /\ \A k \in Keys : effects[k] \subseteq effects'[k]
        /\ \A q \in Procs : q # p => pc'[q] = pc[q]
        /\ pc'[p] \in {"complete", "uncacheable"} => call[p].token \in effects'[call[p].key]
    BY <1>1, CallType DEF Execute, Goto, TypeOK
  <2>2. \A q \in Procs : pc[q] # "idle" => call[q].key \in Keys
    BY CallType, Zenon
  <2> QED
    BY <2>1, <2>2, Zenon DEF TookEffect
<1>2. ASSUME UNCHANGED effects,
             \A q \in Procs : pc'[q] \in {"complete", "uncacheable"} =>
                 pc[q] = pc'[q] /\ call[q] = call'[q]
      PROVE  TookEffect'
  BY <1>2, Zenon DEF TookEffect
<1>3. ASSUME NEW p \in Procs, ClaimReread(p) PROVE TookEffect'
  BY <1>2, <1>3, Zenon DEF ClaimReread, Goto, Return, TypeOK
<1>4. ASSUME NEW p \in Procs,
             Begin(p) \/ ClaimInsert(p) \/ Gate(p) \/ Start(p) \/ Abandon(p)
      PROVE  TookEffect'
  BY <1>2, <1>4, Zenon DEF Begin, ClaimInsert, Gate, Start, Abandon, Goto, Return, TypeOK, history
<1>5. ASSUME NEW p \in Procs, Release(p) \/ Complete(p) PROVE TookEffect'
  BY <1>2, <1>5, Zenon DEF Release, Complete, Return, TypeOK
<1>6. CASE Tick \/ UNCHANGED vars
  BY <1>2, <1>6, Zenon DEF Tick, vars, history
<1> QED
  BY <1>1, <1>3, <1>4, <1>5, <1>6, Zenon DEF Next, Step

\* Effects, results and answers stay pinned to the row they belong to.
LEMMA PinnedStep ==
    ASSUME IndInv, [Next]_vars, NEW k \in Keys PROVE Pinned(k)'
<1> USE DEF IndInv
<1> DEFINE r == row[k]
<1>1. Pinned(k) /\ (r # None => r \in Row /\ RowOK(r))
  BY Zenon DEF EffectInv, TypeOK
<1>2. ASSUME NEW p \in Procs, pc[p] # "idle", call[p].key # k,
             UNCHANGED row \/ (\E x : SetRow(p, x)),
             UNCHANGED effects \/ (\E x : effects' = [effects EXCEPT ![call[p].key] = x]),
             UNCHANGED released \/ (\E x : released' = [released EXCEPT ![call[p].key] = x]),
             UNCHANGED answers \/ (\E x : answers' = [answers EXCEPT ![call[p].key] = x])
      PROVE  Pinned(k)'
  <2>1. row'[k] = row[k] /\ effects'[k] = effects[k]
    BY <1>2, Zenon DEF SetRow, TypeOK
  <2>2. released'[k] = released[k] /\ answers'[k] = answers[k]
    BY <1>2, Zenon DEF TypeOK
  <2> QED
    BY <1>1, <2>1, <2>2, PinnedKept, Zenon
<1>3. ASSUME NEW p \in Procs, ClaimInsert(p) PROVE Pinned(k)'
  <2>1. pc[p] # "idle" /\ UNCHANGED history
    BY <1>3, Zenon DEF ClaimInsert
  <2>2. CASE UNCHANGED row
    BY <1>1, <2>1, <2>2, PinnedKept, Zenon DEF history
  <2>3. CASE call[p].key # k
    BY <1>2, <1>3, <2>1, <2>3, Zenon DEF ClaimInsert, history
  <2>4. CASE call[p].key = k /\ r = None /\ row'[k] = Fresh(call[p])
    <3>1. Fresh(call[p]) # None /\ Fresh(call[p]).status = "claimed"
      BY <2>1, CallType, FreshRow, Zenon
    <3> QED
      BY <1>1, <2>1, <2>4, <3>1, Zenon DEF Pinned, history
  <2> QED
    BY <1>3, <2>2, <2>3, <2>4, Zenon DEF ClaimInsert, SetRow, TypeOK
<1>4. ASSUME NEW p \in Procs, ClaimReread(p) PROVE Pinned(k)'
  <2>1. pc[p] # "idle" /\ UNCHANGED <<effects, released>>
    BY <1>4, ZenonT(60) DEF ClaimReread
  <2>2. CASE call[p].key # k
    <3>1. /\ UNCHANGED row \/ (\E x : SetRow(p, x))
          /\ UNCHANGED answers \/ (\E x : answers' = [answers EXCEPT ![call[p].key] = x])
      BY <1>4, ZenonT(60) DEF ClaimReread
    <3> QED
      BY <1>2, <2>1, <2>2, <3>1, Zenon
  <2>3. CASE UNCHANGED <<row, answers>>
    BY <1>1, <2>1, <2>3, PinnedKept, Zenon
  <2>4. CASE /\ call[p].key = k /\ r # None /\ r.status = "completed" /\ UNCHANGED row
             /\ answers' = [answers EXCEPT ![k] = @ \cup {r.result}]
    <3>1. answers'[k] = answers[k] \cup {r.result} /\ r.owner = None
      BY <1>1, <2>4, Zenon DEF TypeOK, RowOK
    <3> QED
      BY <1>1, <2>1, <2>4, <3>1, Zenon DEF Pinned
  <2>5. CASE /\ call[p].key = k /\ r # None /\ r.status = "claimed" /\ UNCHANGED answers
             /\ SetRow(p, Taken(r, call[p]))
    <3>1. call[p] \in Call
      BY <2>1, CallType, Zenon
    <3>2. row'[k] = Taken(r, call[p])
      <4>1. row \in [Keys -> Row \cup {None}]
        BY Zenon DEF TypeOK
      <4> QED
        BY <2>5, <4>1, Zenon DEF SetRow
    <3>3. row'[k] # None /\ row'[k].status = "claimed" /\ r.owner # None
      BY <1>1, <2>5, <3>1, <3>2, TakenRow DEF RowOK
    <3> QED
      BY <1>1, <2>1, <2>5, <3>3, Zenon DEF Pinned
  <2>6. CASE /\ call[p].key = k /\ r # None /\ r.status = "executing" /\ UNCHANGED answers
             /\ SetRow(p, Parked(r))
    <3>1. /\ row'[k] = Parked(r) /\ row'[k] # None
          /\ row'[k].status = "uncertain" /\ row'[k].owner = r.owner
      BY <1>1, <2>6, ParkedRow, Zenon DEF SetRow, TypeOK
    <3> QED
      BY <1>1, <2>1, <2>6, <3>1, Zenon DEF Pinned
  <2> QED
    BY <1>4, <2>2, <2>3, <2>4, <2>5, <2>6, ZenonT(60) DEF ClaimReread
<1>5. ASSUME NEW p \in Procs, Start(p) PROVE Pinned(k)'
  <2>1. pc[p] # "idle" /\ UNCHANGED history
    BY <1>5, Zenon DEF Start
  <2>2. CASE call[p].key # k
    BY <1>2, <1>5, <2>1, <2>2, Zenon DEF Start, history
  <2>3. CASE UNCHANGED row
    BY <1>1, <2>1, <2>3, PinnedKept, Zenon DEF history
  <2>4. CASE /\ call[p].key = k /\ r # None /\ r.status = "claimed"
             /\ SetRow(p, Started(r, now))
    <3>1. /\ row'[k] = Started(r, now) /\ row'[k] # None
          /\ row'[k].status = "executing" /\ r.owner # None
      BY <1>1, <2>4, StartedRow, Zenon DEF SetRow, TypeOK, RowOK
    <3> QED
      BY <1>1, <2>1, <2>4, <3>1, Zenon DEF Pinned, history
  <2> QED
    BY <1>5, <2>2, <2>3, <2>4, Zenon DEF Start, Owned
<1>6. ASSUME NEW p \in Procs, Execute(p) PROVE Pinned(k)'
  <2>1. pc[p] = "execute" /\ UNCHANGED <<row, released, answers>>
    BY <1>6, Zenon DEF Execute
  <2>2. CASE call[p].key # k
    BY <1>2, <1>6, <2>1, <2>2, Zenon DEF Execute
  <2>3. CASE call[p].key = k
    <3>1. /\ r # None /\ r.owner = call[p].token /\ r.owner # None
          /\ r.status \in {"executing", "uncertain"}
      BY <2>1, <2>3, CallType, Zenon DEF OwnerInv, Executing
    <3>2. effects'[k] = effects[k] \/ effects'[k] = effects[k] \cup {call[p].token}
      BY <1>6, <2>3, Zenon DEF Execute, TypeOK
    <3> QED
      BY <1>1, <2>1, <3>1, <3>2, Zenon DEF Pinned
  <2> QED
    BY <2>2, <2>3, Zenon
<1>7. ASSUME NEW p \in Procs, Release(p) PROVE Pinned(k)'
  <2>1. pc[p] # "idle" /\ UNCHANGED <<effects, answers>>
    BY <1>7, Zenon DEF Release
  <2>2. CASE call[p].key # k
    BY <1>2, <1>7, <2>1, <2>2, Zenon DEF Release
  <2>3. CASE UNCHANGED <<row, released>>
    BY <1>1, <2>1, <2>3, PinnedKept, Zenon
  <2>4. CASE /\ call[p].key = k /\ r # None /\ r.owner = call[p].token
             /\ SetRow(p, None)
             /\ released' = [released EXCEPT ![k] = @ \cup {call[p].token}]
    <3>1. /\ row'[k] = None /\ r.owner # None
          /\ released'[k] = released[k] \cup {call[p].token}
      BY <2>1, <2>4, CallType, Zenon DEF SetRow, TypeOK
    <3> QED
      BY <1>1, <2>1, <2>4, <3>1, Zenon DEF Pinned
  <2> QED
    BY <1>7, <2>2, <2>3, <2>4, Zenon DEF Release, Owned
<1>8. ASSUME NEW p \in Procs, Complete(p) PROVE Pinned(k)'
  <2>1. /\ pc[p] \in {"complete", "uncacheable"}
        /\ UNCHANGED <<effects, released>>
    BY <1>8, Zenon DEF Complete
  <2>2. CASE call[p].key # k
    <3>1. /\ UNCHANGED row \/ (\E x : SetRow(p, x))
          /\ UNCHANGED answers \/ (\E x : answers' = [answers EXCEPT ![call[p].key] = x])
      BY <1>8, Zenon DEF Complete
    <3> QED
      BY <1>2, <2>1, <2>2, <3>1, Zenon
  <2>3. CASE UNCHANGED <<row, answers>>
    BY <1>1, <2>1, <2>3, PinnedKept, Zenon
  <2>4. ASSUME call[p].key = k, r # None, r.owner = call[p].token,
               NEW status, NEW result,
               \/ status = "completed" /\ result = call[p].token
               \/ status = "uncacheable" /\ result = None,
               SetRow(p, Settled(r, status, result)),
               answers' = [answers EXCEPT ![k] = @ \cup {call[p].token}]
        PROVE  Pinned(k)'
    <3>1. call[p].token \in Token /\ call[p].token # None
      BY <2>1, CallType, Zenon
    <3>2. row'[k] = Settled(r, status, result) /\ answers'[k] = answers[k] \cup {call[p].token}
      BY <2>4, Zenon DEF SetRow, TypeOK
    <3>4. /\ row'[k] # None /\ row'[k].owner = None
          /\ row'[k].status = status /\ row'[k].result = result
      <4>1. r \in Row
        BY <1>1, <2>4, Zenon
      <4>2. LET x == Settled(r, status, result)
            IN  x # None /\ x.owner = None /\ x.status = status /\ x.result = result
        BY <2>4, <3>1, <4>1, SettledRow
      <4> QED
        BY <3>2, <4>2, Zenon
    <3>3. call[p].token \in effects[k] \ released[k]
      BY <2>1, <2>4, CallType, Zenon DEF EffectInv, TookEffect, TokenInv
    <3> QED
      BY <1>1, <2>1, <2>4, <3>1, <3>2, <3>3, <3>4, ZenonT(60) DEF Pinned
  <2> QED
    BY <1>8, <2>2, <2>3, <2>4, ZenonT(60) DEF Complete, Owned
<1>9. CASE Tick \/ UNCHANGED vars \/ \E p \in Procs : Begin(p) \/ Gate(p) \/ Abandon(p)
  BY <1>1, <1>9, PinnedKept, ZenonT(60) DEF Tick, Begin, Gate, Abandon, vars, history
<1> QED
  BY <1>3, <1>4, <1>5, <1>6, <1>7, <1>8, <1>9, Zenon DEF Next, Step

\* Both halves together.
LEMMA EffectStep == IndInv /\ [Next]_vars => EffectInv'
BY TookStep, PinnedStep, Zenon DEF EffectInv

\* The inductive invariant holds of every reachable state.
THEOREM Invariance == Spec => []IndInv
<1>1. Init => IndInv
  BY ConstantsAssumption
  DEF Init, IndInv, TypeOK, TokenInv, Minted, OwnerInv, EffectInv,
      TookEffect, Pinned, Executing, Pc
<1>2. IndInv /\ [Next]_vars => IndInv'
  BY TypeStep, TokenStep, OwnerStep, EffectStep, Zenon DEF IndInv
<1> QED
  BY <1>1, <1>2, PTL DEF Spec

\* Claim rows are well formed in every reachable state (store/idempotency.py).
THEOREM TypeCorrect == Spec => []TypeOK
<1>1. IndInv => TypeOK
  BY Zenon DEF IndInv
<1> QED
  BY <1>1, Invariance, PTL

\* At most one task is past idempotency_start for a key, whatever leases lapse.
THEOREM SingleExecutorHolds == Spec => []SingleExecutor
<1>1. IndInv => SingleExecutor
  <2> SUFFICES ASSUME IndInv, NEW k \in Keys, NEW p \in Procs, NEW q \in Procs,
                      Executing(p, k), Executing(q, k)
               PROVE  p = q
    BY Zenon DEF SingleExecutor
  <2>1. call[p].token = call[q].token
    BY Zenon DEF IndInv, OwnerInv
  <2>2. call[p] # None /\ call[q] # None
    BY CallType, Zenon DEF IndInv, Executing
  <2> QED
    <3>1. Minted
      BY Zenon DEF IndInv, TokenInv
    <3>2. call[p].token[1] = p /\ call[q].token[1] = q
      BY <2>2, <3>1 DEF Minted
    <3> QED
      BY <2>1, <3>2, Zenon
<1> QED
  BY <1>1, Invariance, PTL

\* Only a task that released its key itself lets the effect be repeated.
THEOREM EffectNotRepeatedHolds == Spec => []EffectNotRepeated
<1>1. IndInv => EffectNotRepeated
  BY Zenon DEF IndInv, EffectInv, Pinned, EffectNotRepeated
<1> QED
  BY <1>1, Invariance, PTL

\* All callers of a key that are told of a success are told of the same execution.
THEOREM AnswersAgreeHolds == Spec => []AnswersAgree
<1>1. IndInv => AnswersAgree
  BY Zenon DEF IndInv, EffectInv, Pinned, AnswersAgree, TypeOK
<1> QED
  BY <1>1, Invariance, PTL

\* No execution under a key takes effect after a caller was told of a success.
THEOREM NoEffectAfterAnswerHolds == Spec => NoEffectAfterAnswer
<1>1. ASSUME IndInv, [Next]_vars, NEW k \in Keys, answers[k] # {}
      PROVE  effects'[k] = effects[k]
  <2>1. ASSUME NEW p \in Procs, Execute(p) PROVE effects'[k] = effects[k]
    <3>1. CASE call[p].key = k
      <4>1. row[k].owner = call[p].token /\ call[p].token # None
        BY <1>1, <2>1, <3>1, CallType, Zenon DEF IndInv, Execute, OwnerInv, Executing
      <4> QED
        BY <1>1, <4>1, ZenonT(60) DEF IndInv, EffectInv, Pinned
    <3>2. CASE call[p].key # k
      BY <1>1, <2>1, <3>2, Zenon DEF IndInv, Execute, TypeOK
    <3> QED
      BY <3>1, <3>2, Zenon
  <2> QED
    BY <1>1, <2>1, ZenonT(60) DEF Next, Step, Tick, Begin, ClaimInsert, ClaimReread, Gate, Start,
                      Release, Complete, Abandon, vars, history
<1>2. IndInv /\ [Next]_vars => [\A k \in Keys : answers[k] # {} => effects'[k] = effects[k]]_vars
  BY <1>1, Zenon
<1> QED
  BY <1>2, Invariance, PTL DEF Spec, NoEffectAfterAnswer
=============================================================================
