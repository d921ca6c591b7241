----------------------------- MODULE Idempotency -----------------------------
(***************************************************************************)
(* Idempotency claims: kernel/idempotency.py (the coordinator), the claim  *)
(* rows of store/idempotency.py, and the part of Dispatcher._invoke_inner  *)
(* (kernel/dispatch.py) that holds a claim.                                *)
(*                                                                         *)
(* Every dispatch that carries a key mints a fresh owner token, claims the *)
(* key's row, passes the gates, flips the row to "executing", calls the    *)
(* adapter and completes the row.  The claim is the PostgreSQL one: an     *)
(* INSERT .. ON CONFLICT DO NOTHING and, if that conflicts, a locked       *)
(* re-read, with other transactions between the two.  The in-memory twin   *)
(* takes both steps without an await, which is one of the interleavings.   *)
(***************************************************************************)
EXTENDS Naturals, FiniteSets

CONSTANTS
    Procs,          \* dispatching tasks, in any number of processes
    Keys,           \* idempotency keys of one tenant
    Bounds,         \* (actor, on_behalf_of, workspace, noun, verb, request hash)
    Lease,          \* _LEASE_SECONDS, in ticks
    ClaimAttempts,  \* _CLAIM_ATTEMPTS
    MaxTime,        \* bound: ticks of the clock
    MaxCalls,       \* bound: dispatches per task
    None

ASSUME ConstantsAssumption ==
    /\ Lease \in Nat
    /\ ClaimAttempts \in Nat \ {0}
    /\ MaxTime \in Nat
    /\ MaxCalls \in Nat

VARIABLES
    now,        \* the database clock
    row,        \* idempotency_keys: key -> row, or None
    pc,         \* where each task is in _invoke_inner
    call,       \* the call a task is making: [key, bound, token, began, tries]
    calls,      \* dispatches made so far by a task; names the fresh uuid tokens
    effects,    \* history: tokens whose adapter call took effect, per key
    released,   \* history: tokens given back by idempotency_release, per key
    answers     \* history: results handed to callers as a success, per key

vars == <<now, row, pc, call, calls, effects, released, answers>>
history == <<effects, released, answers>>

Token == Procs \X (1..MaxCalls)
Status == {"claimed", "executing", "completed", "uncertain", "uncacheable"}
Row == [bound: Bounds, status: Status, owner: Token \cup {None},
        expires: Nat \cup {None}, result: Token \cup {None}]
Call == [key: Keys, bound: Bounds, token: Token, began: Nat, tries: Nat]
Pc == {"idle", "insert", "reread", "gate", "start", "execute",
       "release", "complete", "uncacheable"}

ASSUME NoneAssumption == None \notin Row \cup Call \cup Token \cup Nat

\* Besides the types: a row has an owner and a lease exactly until it is settled,
\* and a result exactly when it can be replayed.
RowOK(r) ==
    /\ r.owner = None <=> r.status \in {"completed", "uncacheable"}
    /\ r.expires = None <=> r.status \in {"completed", "uncacheable"}
    /\ r.result # None <=> r.status = "completed"

\* Every variable has its type and every stored row the columns its status calls for.
TypeOK ==
    /\ now \in Nat
    /\ row \in [Keys -> Row \cup {None}]
    /\ \A k \in Keys : row[k] # None => RowOK(row[k])
    /\ pc \in [Procs -> Pc]
    /\ call \in [Procs -> Call \cup {None}]
    /\ \A p \in Procs : pc[p] = "idle" <=> call[p] = None
    /\ calls \in [Procs -> Nat]
    /\ effects \in [Keys -> SUBSET Token]
    /\ released \in [Keys -> SUBSET Token]
    /\ answers \in [Keys -> SUBSET Token]

Init ==
    /\ now = 0
    /\ row = [k \in Keys |-> None]
    /\ pc = [p \in Procs |-> "idle"]
    /\ call = [p \in Procs |-> None]
    /\ calls = [p \in Procs |-> 0]
    /\ effects = [k \in Keys |-> {}]
    /\ released = [k \in Keys |-> {}]
    /\ answers = [k \in Keys |-> {}]

-----------------------------------------------------------------------------
(* Store transitions: each is one statement, atomic on its row.            *)

Goto(p, l) == pc' = [pc EXCEPT ![p] = l] /\ UNCHANGED call

\* _invoke_inner returns or raises to its caller.
Return(p) == pc' = [pc EXCEPT ![p] = "idle"] /\ call' = [call EXCEPT ![p] = None]

\* Mutant of Owned: the compare on owner_token is dropped.
OwnedByAnyone(p, statuses) ==
    LET r == row[call[p].key]
    IN  r # None /\ r.status \in statuses

\* _owned: the row is in this status and still carries the caller's token.
Owned(p, statuses) ==
    LET r == row[call[p].key]
    IN  r # None /\ r.status \in statuses /\ r.owner = call[p].token

LeaseUntil(at) == at + Lease

\* The row a claim inserts, and the columns a takeover, idempotency_start and a
\* claim that meets a lapsed execution write.
Fresh(c) ==
    [bound |-> c.bound, status |-> "claimed", owner |-> c.token,
     expires |-> LeaseUntil(c.began), result |-> None]
Taken(r, c) == [r EXCEPT !.owner = c.token, !.expires = LeaseUntil(c.began)]
Started(r, at) == [r EXCEPT !.status = "executing", !.expires = LeaseUntil(at)]
Parked(r) == [r EXCEPT !.status = "uncertain"]

\* The columns idempotency_complete and idempotency_uncacheable write.
Settled(r, status, result) ==
    [r EXCEPT !.status = status, !.owner = None, !.expires = None, !.result = result]

SetRow(p, r) == row' = [row EXCEPT ![call[p].key] = r]

Expired(r, at) == r.expires <= at

-----------------------------------------------------------------------------
(* The coordinator's operations, in the order _invoke_inner makes them.    *)

\* A dispatch with a key reaches IdempotencyCoordinator.claim and mints its token.
Begin(p) ==
    /\ pc[p] = "idle"
    /\ calls[p] < MaxCalls
    /\ \E k \in Keys, b \in Bounds :
         call' = [call EXCEPT ![p] =
             [key |-> k, bound |-> b, token |-> <<p, calls[p] + 1>>,
              began |-> now, tries |-> 0]]
    /\ calls' = [calls EXCEPT ![p] = @ + 1]
    /\ pc' = [pc EXCEPT ![p] = "insert"]
    /\ UNCHANGED <<now, row, history>>

\* INSERT .. ON CONFLICT DO NOTHING: wins the key, or goes on to the re-read.
\* now() is the start of the transaction, so the lease runs from `began`.
ClaimInsert(p) ==
    /\ pc[p] = "insert"
    /\ \/ /\ row[call[p].key] = None
          /\ SetRow(p, Fresh(call[p]))
          /\ Goto(p, "gate")
       \/ /\ row[call[p].key] # None
          /\ Goto(p, "reread")
          /\ UNCHANGED row
    /\ UNCHANGED <<now, calls, history>>

Retried(c) == [c EXCEPT !.tries = @ + 1]

\* SELECT .. FOR UPDATE and _existing_claim, under the row lock.
ClaimReread(p) ==
    LET r == row[call[p].key]
        lapsed == Expired(r, call[p].began)
    IN
    /\ pc[p] = "reread"
    /\ \/ \* released under us: insert again, or answer IN_PROGRESS at the cap
          /\ r = None
          /\ IF call[p].tries + 1 < ClaimAttempts
             THEN /\ call' = [call EXCEPT ![p] = Retried(@)]
                  /\ pc' = [pc EXCEPT ![p] = "insert"]
             ELSE Return(p)
          /\ UNCHANGED <<row, answers>>
       \/ \* MISMATCH, IN_PROGRESS, UNCERTAIN, UNCACHEABLE: IdempotencyConflict
          /\ r # None
          /\ \/ r.bound # call[p].bound
             \/ r.status \in {"uncertain", "uncacheable"}
             \/ r.status \in {"claimed", "executing"} /\ ~lapsed
          /\ Return(p)
          /\ UNCHANGED <<row, answers>>
       \/ \* COMPLETED: the stored result is replayed, nothing executes
          /\ r # None /\ r.bound = call[p].bound
          /\ r.status = "completed"
          /\ answers' = [answers EXCEPT ![call[p].key] = @ \cup {r.result}]
          /\ Return(p)
          /\ UNCHANGED row
       \/ \* a lapsed claim that never started is taken over
          /\ r # None /\ r.bound = call[p].bound
          /\ r.status = "claimed" /\ lapsed
          /\ SetRow(p, Taken(r, call[p]))
          /\ Goto(p, "gate")
          /\ UNCHANGED answers
       \/ \* a lapsed execution may have taken effect: parked as uncertain
          /\ r # None /\ r.bound = call[p].bound
          /\ r.status = "executing" /\ lapsed
          /\ SetRow(p, Parked(r))
          /\ Return(p)
          /\ UNCHANGED answers
    /\ UNCHANGED <<now, calls, effects, released>>

\* The approval and rate gates pass, or raise and the claim is released.
Gate(p) ==
    /\ pc[p] = "gate"
    /\ \/ Goto(p, "start")
       \/ Goto(p, "release")
    /\ UNCHANGED <<now, row, calls, history>>

\* start: claimed -> executing for the owner; a lost claim raises and is
\* NOT released (the call is outside both try blocks).
Start(p) ==
    /\ pc[p] = "start"
    /\ IF Owned(p, {"claimed"})
       THEN /\ SetRow(p, Started(row[call[p].key], now))
            /\ Goto(p, "execute")
       ELSE /\ Return(p)
            /\ UNCHANGED row
    /\ UNCHANGED <<now, calls, history>>

\* The adapter runs.  It succeeds (plain or secret-shaped output), or it raises,
\* with or without having taken effect; an output that fails its schema has.
Execute(p) ==
    /\ pc[p] = "execute"
    /\ \/ /\ effects' = [effects EXCEPT ![call[p].key] = @ \cup {call[p].token}]
          /\ \E l \in {"complete", "uncacheable", "release"} : Goto(p, l)
       \/ /\ Goto(p, "release")
          /\ UNCHANGED effects
    /\ UNCHANGED <<now, row, calls, released, answers>>

\* release: the owner's claimed or executing row is deleted; then the raise.
Release(p) ==
    /\ pc[p] = "release"
    /\ IF Owned(p, {"claimed", "executing"})
       THEN /\ SetRow(p, None)
            /\ released' = [released EXCEPT ![call[p].key] = @ \cup {call[p].token}]
       ELSE UNCHANGED <<row, released>>
    /\ Return(p)
    /\ UNCHANGED <<now, calls, effects, answers>>

\* Mutant of Complete: the row is dropped once the caller has its output.
CompleteForgets(p) ==
    /\ pc[p] \in {"complete", "uncacheable"}
    /\ IF Owned(p, {"executing"})
       THEN /\ SetRow(p, None)
            /\ answers' = [answers EXCEPT ![call[p].key] = @ \cup {call[p].token}]
       ELSE UNCHANGED <<row, answers>>
    /\ Return(p)
    /\ UNCHANGED <<now, calls, effects, released>>

\* complete: executing -> completed or uncacheable for the owner, and the caller
\* gets the output; if the row was parked as uncertain meanwhile, a conflict.
Complete(p) ==
    /\ pc[p] \in {"complete", "uncacheable"}
    /\ IF Owned(p, {"executing"})
       THEN LET tok == call[p].token
                plain == pc[p] = "complete"
            IN  /\ SetRow(p, IF plain
                             THEN Settled(row[call[p].key], "completed", tok)
                             ELSE Settled(row[call[p].key], "uncacheable", None))
                /\ answers' = [answers EXCEPT ![call[p].key] = @ \cup {tok}]
       ELSE UNCHANGED <<row, answers>>
    /\ Return(p)
    /\ UNCHANGED <<now, calls, effects, released>>

\* The task dies, is cancelled (CancelledError passes both `except Exception`
\* blocks), or requires_approval raises before the first try: the row stays.
Abandon(p) ==
    /\ pc[p] \in {"gate", "start", "execute", "release", "complete", "uncacheable"}
    /\ Return(p)
    /\ UNCHANGED <<now, row, calls, history>>

Tick ==
    /\ now < MaxTime
    /\ now' = now + 1
    /\ UNCHANGED <<row, pc, call, calls, history>>

Step(p) ==
    \/ Begin(p)   \/ ClaimInsert(p) \/ ClaimReread(p)
    \/ Gate(p)    \/ Start(p)       \/ Execute(p)
    \/ Release(p) \/ Complete(p)    \/ Abandon(p)

Next == Tick \/ \E p \in Procs : Step(p)

Spec == Init /\ [][Next]_vars

-----------------------------------------------------------------------------
(* Properties.                                                             *)

\* A task between a successful idempotency_start and its settlement.
Executing(p, k) == pc[p] \in {"execute", "complete", "uncacheable"} /\ call[p].key = k

\* "Single-owner": no two tasks are past idempotency_start for one key, whatever
\* leases lapse, claims are taken over and owners come back late.
SingleExecutor ==
    \A k \in Keys : \A p, q \in Procs :
        Executing(p, k) /\ Executing(q, k) => p = q

\* A side effect is repeated under a key only after the task that made the first
\* one gave the key back itself (it raised): a crash, a cancellation, a lapsed
\* lease or a lost claim never lets a second effect happen.
EffectNotRepeated ==
    \A k \in Keys : \A s, t \in effects[k] \ released[k] : s = t

\* Every success handed to a caller of a key, executed or replayed, is the output
\* of one and the same execution, which took effect and was never given back.
AnswersAgree ==
    \A k \in Keys :
        /\ answers[k] \subseteq effects[k] \ released[k]
        /\ \A s, t \in answers[k] : s = t

\* Once any caller has been told of a success, the key has no further effect.
NoEffectAfterAnswer ==
    [][\A k \in Keys : answers[k] # {} => effects'[k] = effects[k]]_vars
=============================================================================
