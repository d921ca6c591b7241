------------------------------ MODULE WorkPump ------------------------------
(***************************************************************************)
(* One work item of the fleet: the pumps that claim it under a lease, the  *)
(* task bodies that execute it and settle it (fleet/pump.py), the fence    *)
(* that makes its record single-writer (fleet/lease_token.py), the humans  *)
(* that answer the requests it is parked on, and the expiry janitor.       *)
(*                                                                         *)
(* A claim mints the pair (owner, expiry) the fence compares.  No two      *)
(* claims of an item mint the same pair, so the pair is the claim's number *)
(* and a task body is named by the claim whose token it carries.           *)
(***************************************************************************)
EXTENDS Naturals, FiniteSets

CONSTANTS
    Requests,     \* the human-in-the-loop requests linked to the item
    Outcomes,     \* what a step may report: "done", "escalated", "degraded"
    MaxAttempts,  \* WorkPump.max_attempts
    MaxClaims,    \* bound: claims of the item
    MaxLapses,    \* bound: leases that run out under a body that still runs
    FaultKinds,   \* where a body may raise: "work", "after", "uncaught"
    MaxFaults,    \* bound: exceptions raised
    MaxCrashes,   \* bound: bodies killed
    MaxMoves,     \* bound: status changes an operator makes by hand
    Durable,      \* whether bodies run on the engine that re-runs them
    Cancellable   \* whether a cancel of the run may be requested

ASSUME WorkPumpAssumption ==
    /\ Outcomes \subseteq {"done", "escalated", "degraded"}
    /\ MaxAttempts \in Nat \ {0}
    /\ MaxClaims \in Nat
    /\ {MaxLapses, MaxFaults, MaxCrashes, MaxMoves} \subseteq Nat
    /\ Durable \in BOOLEAN
    /\ Cancellable \in BOOLEAN

VARIABLES
    item,     \* the row of work_items: status, lease, attempts, result
    lapsed,   \* whether the row's lease_expires_at is in the past
    claims,   \* how many claims were made
    body,     \* the task body of each claim
    cancel,   \* whether run_cancel_requests has the run
    req,      \* the requests, each with the notifier that its answer wakes
    told,     \* the last notice to the item's human: its claim and status
    spent     \* how often each bounded event happened

vars == <<item, lapsed, claims, body, cancel, req, told, spent>>

Claims == 1..MaxClaims
NoLease == 0
NoResult == 0

Terminal == {"done", "failed", "cancelled"}
SETTLED_STATUSES == Terminal \union {"awaiting_human"}
Status == SETTLED_STATUSES \union {"pending", "in_flight", "blocked"}

\* What an operator may do by hand; a running or finished item is not theirs.
MANUAL_STATUS_TRANSITIONS ==
    [pending        |-> {"blocked", "awaiting_human", "failed", "cancelled"},
     blocked        |-> {"pending", "failed", "cancelled"},
     awaiting_human |-> {"blocked", "done", "failed", "cancelled"},
     failed         |-> {"pending"},
     in_flight      |-> {},
     done           |-> {},
     cancelled      |-> {}]

\* A body before it read its item.  "attempts" and "result" are its copy of the
\* row, "to" the status it is about to write, "failing" that it is already
\* inside _record_failure, whose own exceptions nobody catches.
Fresh(pc) ==
    [pc |-> pc, attempts |-> 0, result |-> NoResult, to |-> "in_flight",
     failing |-> FALSE]

Ended == {"unborn", "gone", "dead"}

Init ==
    /\ item = [status |-> "pending", lease |-> NoLease, attempts |-> 0,
               result |-> NoResult]
    /\ lapsed = FALSE
    /\ claims = 0
    /\ body = [c \in Claims |-> Fresh("unborn")]
    /\ cancel = FALSE
    /\ req = [r \in Requests |-> [pc |-> "unfiled", result |-> NoResult]]
    /\ told = <<0, "none">>
    /\ spent = [lapses |-> 0, faults |-> 0, crashes |-> 0, moves |-> 0,
                requeues |-> 0]

-----------------------------------------------------------------------------
(* The lease: the claim that grants it, and its expiry.                     *)

\* Mutant: only pending items are claimed.
ClaimPendingOnly ==
    /\ claims < MaxClaims
    /\ item.status = "pending"
    /\ claims' = claims + 1
    /\ item' = [item EXCEPT !.status = "in_flight", !.lease = claims + 1,
                            !.attempts = @ + 1]
    /\ lapsed' = FALSE
    /\ body' = [body EXCEPT ![claims + 1] = Fresh("queued")]
    /\ UNCHANGED <<cancel, req, told, spent>>

\* run_once: the one-statement claim, which also takes an item whose lease ran
\* out, and the payload that carries its token to a body.
Claim ==
    /\ claims < MaxClaims
    /\ \/ item.status = "pending"
       \/ item.status = "in_flight" /\ lapsed
    /\ claims' = claims + 1
    /\ item' = [item EXCEPT !.status = "in_flight", !.lease = claims + 1,
                            !.attempts = @ + 1]
    /\ lapsed' = FALSE
    /\ body' = [body EXCEPT ![claims + 1] = Fresh("queued")]
    /\ UNCHANGED <<cancel, req, told, spent>>

\* Nothing renews a lease.  Only a lapse under a running body is bounded: that
\* of a body that ended always comes.
Lapse ==
    /\ item.lease # NoLease
    /\ ~lapsed
    /\ \/ body[item.lease].pc \in Ended
       \/ spent.lapses < MaxLapses
    /\ lapsed' = TRUE
    /\ spent' = [spent EXCEPT
                    !.lapses = IF item.status = "in_flight" THEN @ + 1 ELSE @]
    /\ UNCHANGED <<item, claims, body, cancel, req, told>>

-----------------------------------------------------------------------------
(* The task body.                                                           *)

\* Mutant: the write is not fenced.
WriteUnfenced(c, status, lease, result) ==
    /\ item' = [status |-> status, lease |-> lease,
                attempts |-> body[c].attempts, result |-> result]
    /\ lapsed' = (lapsed /\ lease # NoLease)

\* lease_token.write: the whole row, written only where it still carries the
\* token of the claim; a refusal changes nothing and raises nothing.
Write(c, status, lease, result) ==
    IF item.lease = c
    THEN /\ item' = [status |-> status, lease |-> lease,
                     attempts |-> body[c].attempts, result |-> result]
         /\ lapsed' = (lapsed /\ lease # NoLease)
    ELSE UNCHANGED <<item, lapsed>>

Goto(c, pc) ==
    body' = [body EXCEPT ![c] =
               IF pc \in Ended THEN Fresh(pc) ELSE [@ EXCEPT !.pc = pc]]

\* The pump's hitl.create or the head's: some request not used yet is opened.
\* Past the bound on requests the item is parked on one that nobody answers.
File ==
    LET unfiled == {r \in Requests : req[r].pc = "unfiled"}
    IN IF unfiled = {}
       THEN req' = req
       ELSE \E r \in unfiled : req' = [req EXCEPT ![r].pc = "open"]

\* _run_item_payload: read the item, stand down where the row was claimed again.
Load(c) ==
    /\ body[c].pc = "queued"
    /\ IF item.lease # c
       THEN Goto(c, "gone")
       ELSE body' = [body EXCEPT
                       ![c].pc = IF item.status = "blocked"
                                 THEN "park" ELSE "start",
                       ![c].attempts = item.attempts,
                       ![c].result = item.result]
    /\ UNCHANGED <<item, lapsed, claims, cancel, req, told, spent>>

\* Boundary 0 of the cooperative cancel: nothing has run yet.
Start(c) ==
    /\ body[c].pc = "start"
    /\ Goto(c, IF cancel THEN "cancel" ELSE "route")
    /\ UNCHANGED <<item, lapsed, claims, cancel, req, told, spent>>

\* Routing, and boundary 1 before the dispatch.  An item nobody can handle is
\* parked; an addressed one triggers its workflow.
Route(c) ==
    /\ body[c].pc = "route"
    /\ \/ Goto(c, "park")
       \/ cancel /\ Goto(c, "cancel")
       \/ ~cancel /\ \E next \in {"execute", "trigger"} : Goto(c, next)
    /\ UNCHANGED <<item, lapsed, claims, cancel, req, told, spent>>

\* head.handle: the step runs to its end.  A verb it calls may be held by the
\* gate, and an escalating head files its request.
Execute(c) ==
    /\ body[c].pc = "execute"
    /\ \E outcome \in Outcomes :
          /\ body' = [body EXCEPT ![c].pc = "join", ![c].result = c,
                                  ![c].to = outcome]
          /\ File \/ (outcome # "escalated" /\ req' = req)
    /\ UNCHANGED <<item, lapsed, claims, cancel, told, spent>>

\* Boundary 2, and what _settle makes of the outcome.
Join(c) ==
    /\ body[c].pc = "join"
    /\ body' = [body EXCEPT ![c] =
                  IF cancel THEN [@ EXCEPT !.pc = "cancel"]
                  ELSE CASE @.to = "done"      -> [@ EXCEPT !.pc = "settle"]
                         [] @.to = "escalated" -> [@ EXCEPT !.pc = "settle",
                                                   !.to = "awaiting_human"]
                         [] @.to = "degraded"  -> [@ EXCEPT !.pc = "park"]]
    /\ UNCHANGED <<item, lapsed, claims, cancel, req, told, spent>>

\* _run_addressed_workflow: an unknown workflow parks the item, a known one is
\* triggered and the item is done.
Trigger(c) ==
    /\ body[c].pc = "trigger"
    /\ \/ Goto(c, "park")
       \/ body' = [body EXCEPT ![c].pc = "settle", ![c].result = c,
                               ![c].to = "done"]
    /\ UNCHANGED <<item, lapsed, claims, cancel, req, told, spent>>

\* _park: first the escalation, then the status.
Park(c) ==
    /\ body[c].pc = "park"
    /\ File
    /\ body' = [body EXCEPT ![c].pc = "settle", ![c].to = "awaiting_human"]
    /\ UNCHANGED <<item, lapsed, claims, cancel, told, spent>>

\* The settling write: the row keeps the lease of the claim that settled it.
Settle(c) ==
    /\ body[c].pc = "settle"
    /\ Write(c, body[c].to, c, body[c].result)
    /\ Goto(c, "after")
    /\ UNCHANGED <<claims, cancel, req, told, spent>>

\* _cancel: the terminal write that gives the lease up.
Cancel(c) ==
    /\ body[c].pc = "cancel"
    /\ Write(c, "cancelled", NoLease, body[c].result)
    /\ body' = [body EXCEPT ![c].pc = "after", ![c].to = "cancelled"]
    /\ UNCHANGED <<claims, cancel, req, told, spent>>

\* Mutant: a failure that will be retried is announced as the end.
AfterAnyFailure(c) ==
    /\ body[c].pc = "after"
    /\ Goto(c, "gone")
    /\ told' = IF body[c].to = "pending" THEN <<c, "failed">>
               ELSE IF body[c].to \in Terminal THEN <<c, body[c].to>> ELSE told
    /\ UNCHANGED <<item, lapsed, claims, cancel, req, spent>>

\* What follows a write, refused or not: checkpoint, audit row, and for an end
\* state the notice to the item's human.
After(c) ==
    /\ body[c].pc = "after"
    /\ Goto(c, "gone")
    /\ told' = IF body[c].to \in Terminal THEN <<c, body[c].to>> ELSE told
    /\ UNCHANGED <<item, lapsed, claims, cancel, req, spent>>

\* _record_failure: the cancel wins over the failure ...
CancelWins(c) ==
    /\ body[c].pc = "failed"
    /\ body' = [body EXCEPT ![c].pc = IF cancel THEN "cancel" ELSE "judge",
                            ![c].failing = TRUE]
    /\ UNCHANGED <<item, lapsed, claims, cancel, req, told, spent>>

\* Mutant: one attempt too many.
JudgeOneMore(c) ==
    /\ body[c].pc = "judge"
    /\ IF item.status \in SETTLED_STATUSES
       THEN Goto(c, "gone")
       ELSE body' = [body EXCEPT ![c].pc = "record",
                                 ![c].to = IF body[c].attempts <= MaxAttempts
                                           THEN "pending" ELSE "failed"]
    /\ UNCHANGED <<item, lapsed, claims, cancel, req, told, spent>>

\* ... a settled item is not opened again, and the attempts decide the rest ...
Judge(c) ==
    /\ body[c].pc = "judge"
    /\ IF item.status \in SETTLED_STATUSES
       THEN Goto(c, "gone")
       ELSE body' = [body EXCEPT ![c].pc = "record",
                                 ![c].to = IF body[c].attempts < MaxAttempts
                                           THEN "pending" ELSE "failed"]
    /\ UNCHANGED <<item, lapsed, claims, cancel, req, told, spent>>

\* ... a retry gives the lease up, a failure stores its error as the result.
Record(c) ==
    /\ body[c].pc = "record"
    /\ IF body[c].to = "pending"
       THEN Write(c, "pending", NoLease, body[c].result)
       ELSE Write(c, "failed", c, c)
    /\ Goto(c, "after")
    /\ UNCHANGED <<claims, cancel, req, told, spent>>

-----------------------------------------------------------------------------
(* What goes wrong in a body.                                               *)

\* Where handle_claimed_item raises, before or after its write, _record_failure
\* catches; nobody catches what the first read or _record_failure raise.
FaultKind(b) ==
    IF b.failing \/ b.pc \in {"queued", "failed", "judge", "record"}
    THEN "uncaught"
    ELSE IF b.pc = "after" THEN "after" ELSE "work"

\* A call raises before it had an effect.  An exception nobody catches leaves the
\* item to the expiry of its lease.
Fault(c) ==
    /\ body[c].pc \notin Ended
    /\ FaultKind(body[c]) \in FaultKinds
    /\ spent.faults < MaxFaults
    /\ Goto(c, IF FaultKind(body[c]) = "uncaught" THEN "gone" ELSE "failed")
    /\ spent' = [spent EXCEPT !.faults = @ + 1]
    /\ UNCHANGED <<item, lapsed, claims, cancel, req, told>>

\* The process dies, or is shut down, under a body.
Crash(c) ==
    /\ body[c].pc \notin Ended
    /\ spent.crashes < MaxCrashes
    /\ Goto(c, "dead")
    /\ spent' = [spent EXCEPT !.crashes = @ + 1]
    /\ UNCHANGED <<item, lapsed, claims, cancel, req, told>>

\* The engine re-runs the registered body, with the payload of its claim.
Redeliver(c) ==
    /\ Durable
    /\ body[c].pc = "dead"
    /\ body' = [body EXCEPT ![c] = Fresh("queued")]
    /\ UNCHANGED <<item, lapsed, claims, cancel, req, told, spent>>

-----------------------------------------------------------------------------
(* Everyone else: the owner that cancels, the humans, the expiry janitor.   *)

\* The cancel route only records the request, whatever state the item is in.
RequestCancel ==
    /\ Cancellable
    /\ ~cancel
    /\ cancel' = TRUE
    /\ UNCHANGED <<item, lapsed, claims, body, req, told, spent>>

\* A request is answered or times out; the request's own status decides which.
Answer(r) ==
    /\ req[r].pc = "open"
    /\ \E pc \in {"answered", "expired"} : req' = [req EXCEPT ![r].pc = pc]
    /\ UNCHANGED <<item, lapsed, claims, body, cancel, told, spent>>

\* Mutant: the requeue does not look at the status.
RequeueAnyStatus(r) ==
    /\ req[r].pc = "answered"
    /\ req' = [req EXCEPT ![r] = [pc |-> "requeue", result |-> item.result]]
    /\ UNCHANGED <<item, lapsed, claims, body, cancel, told, spent>>

\* WorkPump.requeue on an answer: it reads the item ...
RequeueRead(r) ==
    /\ req[r].pc = "answered"
    /\ req' = [req EXCEPT ![r] =
                 IF item.status \in {"awaiting_human", "blocked"}
                 THEN [pc |-> "requeue", result |-> item.result]
                 ELSE [@ EXCEPT !.pc = "closed"]]
    /\ UNCHANGED <<item, lapsed, claims, body, cancel, told, spent>>

\* ... and writes the whole row back, on no condition.
RequeueWrite(r) ==
    /\ req[r].pc = "requeue"
    /\ item' = [status |-> "pending", lease |-> NoLease, attempts |-> 0,
                result |-> req[r].result]
    /\ lapsed' = FALSE
    /\ req' = [req EXCEPT ![r] = [pc |-> "closed", result |-> NoResult]]
    /\ spent' = [spent EXCEPT !.requeues = @ + 1]
    /\ UNCHANGED <<claims, body, cancel, told>>

\* _park_expired_item: the status CAS of the janitor.
ParkExpired(r) ==
    /\ req[r].pc = "expired"
    /\ req' = [req EXCEPT ![r].pc = "closed"]
    /\ IF item.status = "awaiting_human"
       THEN /\ item' = [item EXCEPT !.status = "cancelled", !.lease = NoLease,
                                    !.result = NoResult]
            /\ lapsed' = FALSE
       ELSE UNCHANGED <<item, lapsed>>
    /\ UNCHANGED <<claims, body, cancel, told, spent>>

\* governed_mutate_work: not while the item is in flight or its lease runs.
work_item_active == item.status = "in_flight" \/ (item.lease # NoLease /\ ~lapsed)

MutateStatus ==
    /\ ~work_item_active
    /\ spent.moves < MaxMoves
    /\ \E status \in MANUAL_STATUS_TRANSITIONS[item.status] :
          item' = [item EXCEPT !.status = status]
    /\ spent' = [spent EXCEPT !.moves = @ + 1]
    /\ UNCHANGED <<lapsed, claims, body, cancel, req, told>>

-----------------------------------------------------------------------------
BodyStep(c) ==
    \/ Load(c) \/ Start(c) \/ Route(c) \/ Execute(c) \/ Join(c) \/ Trigger(c)
    \/ Park(c) \/ Settle(c) \/ Cancel(c) \/ After(c)
    \/ CancelWins(c) \/ Judge(c) \/ Record(c)

Next ==
    \/ Claim
    \/ Lapse
    \/ \E c \in Claims : BodyStep(c) \/ Fault(c) \/ Crash(c) \/ Redeliver(c)
    \/ RequestCancel
    \/ \E r \in Requests :
          Answer(r) \/ RequeueRead(r) \/ RequeueWrite(r) \/ ParkExpired(r)
    \/ MutateStatus

Spec == Init /\ [][Next]_vars

\* Time passes, the pumps poll, and a coroutine that runs goes on.  Nobody has to
\* answer, to cancel or to fail.
FairSpec ==
    /\ Spec
    /\ WF_vars(Lapse)
    /\ WF_vars(Claim)
    /\ \A c \in Claims : WF_vars(BodyStep(c))

-----------------------------------------------------------------------------
\* Every variable has its type; a body exists from its claim on, and settles its
\* item only as done or as parked.
TypeOK ==
    /\ item \in [status : Status, lease : Claims \union {NoLease},
                 attempts : Nat, result : Claims \union {NoResult}]
    /\ lapsed \in BOOLEAN
    /\ claims \in 0..MaxClaims
    /\ DOMAIN body = Claims
    /\ \A c \in Claims :
          /\ body[c].attempts \in Nat
          /\ body[c].result \in Claims \union {NoResult}
          /\ body[c].to \in Status \union {"escalated", "degraded"}
          /\ body[c].pc = "settle" => body[c].to \in {"done", "awaiting_human"}
          /\ body[c].pc = "unborn" <=> c > claims
    /\ cancel \in BOOLEAN
    /\ \A r \in Requests : req[r].result \in Claims \union {NoResult}
    /\ told \in ((0..MaxClaims) \X (Terminal \union {"none"}))

\* Single writer (lease_token.py, "this makes the RECORD single-writer"): a body
\* whose item was claimed again - because its step outran the lease, or because
\* it crashed and was run again - changes nothing of the record any more.
SupersededIsMute ==
    [][\A c \in Claims : c < claims /\ body'[c] # body[c] => item' = item]_vars

\* The inductive form: the row carries the token of the newest claim or none.
OnlyNewestHolds == item.lease \in {NoLease, claims}

\* An item that is done shows the result of its newest claim: neither a body
\* that lost its lease nor a requeue puts an older result back.  Only where an
\* operator moves items by hand may one be done without a result of its own.
DoneIsNewest == item.status = "done" /\ spent.moves = 0 => item.result = claims

\* The attempt is over once the row holds an end state (pump.py on
\* SETTLED_STATUSES): DONE and CANCELLED have no outgoing transition at all.
TerminalStands ==
    [][item.status \in {"done", "cancelled"} => item'.status = item.status]_vars

\* The retry budget (US-EXE-06): beyond max_attempts an item is claimed again
\* only because a lease ran out or a human put it back.
ClaimsBounded ==
    claims <= MaxAttempts * (1 + spent.requeues) + spent.lapses + spent.moves

\* What _notify_terminal tells the item's human, as long as the item has not been
\* claimed again under the telling body, is the state of the record.
NewestTellsTruth ==
    [][told' # told /\ told'[1] = claims => item.status = told'[2]]_vars

\* No item is stranded: crashed or failing, it is settled in the end, if only by
\* coming to a human, unless an operator set it aside.
EventuallySettled ==
    item.status \in {"pending", "in_flight"} ~>
        item.status \in SETTLED_STATUSES \union {"blocked"}
=============================================================================
