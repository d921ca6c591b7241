------------------------------ MODULE HeldWrite ------------------------------
(***************************************************************************)
(* A high-consequence write held for a human: the approval gate            *)
(* (kernel/approval_gate.py), the HITL request (kernel/hitl.py), the held  *)
(* record (kernel/held_call.py), the answer bridge (api/bootstrap.py,      *)
(* api/hitl_resume_bridge.py) with the replay it calls                     *)
(* (fleet/held_write_resume.py), and the expiry and reconcile janitor      *)
(* (kernel/hitl_expiry.py).                                                *)
(*                                                                         *)
(* All requests are asked on one chat run.  Every await of a store call    *)
(* that another task can interfere with is a step of its own.              *)
(***************************************************************************)
EXTENDS Naturals, FiniteSets

CONSTANTS
    Requests,   \* ids of HITL requests
    Asked,      \* those the turn itself dispatches; the rest come from re-pends
    Volatile,   \* those whose deadline may pass or whose resource may change
    Tasks,      \* coroutines of API and worker processes
    Delegated,  \* TRUE: the verb is dispatched on a child of the run the client follows
    Grace,      \* TRUE: nobody else redeems a request while a task is redeeming it
    MaxCrashes, \* bound: tasks lost to a crash or an unhandled fault
    None

ASSUME ConstantsAssumption ==
    /\ Asked \subseteq Requests /\ Volatile \subseteq Requests
    /\ Delegated \in BOOLEAN /\ Grace \in BOOLEAN /\ MaxCrashes \in Nat
    /\ None \notin Requests

\* The runs a hold is checkpointed on; the request names the one it was dispatched on.
Runs == IF Delegated THEN {"root", "child"} ELSE {"root"}
Named == IF Delegated THEN "child" ELSE "root"

VARIABLES
    status,     \* HITLStatus of each request ("none": not created)
    decision,   \* the recorded HITLResponse
    overdue,    \* requests whose timeout_at has passed
    drifted,    \* requests whose resource context no longer matches the fingerprint
    seal,       \* requests whose sealed call is stored under run:<root>:
    cp,         \* held: checkpoints, per request and run
    turnOver,   \* the chat turn reached its terminal
    pc,         \* where each task is
    cur,        \* the request a task is redeeming or retiring
    hold,       \* the request whose held record a task is writing
    mode,       \* who the task is: dispatch, resume, caller, sweep or turn
    todo,       \* the runs settle_held_call has still to mark
    said,       \* the outcome a task is about to record
    ran,        \* history: adapter calls authorised by each request
    told,       \* history: outcomes recorded in the audit trail for each request
    crashes

request == <<status, decision, overdue, drifted>>
record == <<seal, cp>>
local == <<pc, cur, hold, mode, todo, said>>
vars == <<request, record, turnOver, local, ran, told, crashes>>

Outcomes == {"ok", "failed", "declined", "unreadable", "re_pended", "already_ran"}
Pc == {"idle", "seal", "root", "child", "claim", "approved", "read", "gate", "cas",
       "execute", "report", "list", "mark", "drop", "check", "delete"}

\* Every variable has its type; no request beyond Volatile lapses or drifts.
TypeOK ==
    /\ status \in [Requests -> {"none", "pending", "answered", "consumed", "timed_out"}]
    /\ decision \in [Requests -> {None, "approve", "reject"}]
    /\ overdue \subseteq Volatile /\ drifted \subseteq Volatile
    /\ seal \subseteq Requests
    /\ cp \in [Requests -> [Runs -> {"none", "paused", "done"}]]
    /\ turnOver \in BOOLEAN
    /\ pc \in [Tasks -> Pc]
    /\ cur \in [Tasks -> Requests \cup {None}]
    /\ hold \in [Tasks -> Requests \cup {None}]
    /\ mode \in [Tasks -> {None, "dispatch", "resume", "caller", "sweep", "turn"}]
    /\ todo \in [Tasks -> SUBSET Runs]
    /\ said \in [Tasks -> Outcomes \cup {None}]
    /\ ran \in [Requests -> Nat]
    /\ told \in [Requests -> SUBSET Outcomes]
    /\ crashes \in Nat

Init ==
    /\ status = [r \in Requests |-> "none"]
    /\ decision = [r \in Requests |-> None]
    /\ overdue = {} /\ drifted = {} /\ seal = {}
    /\ cp = [r \in Requests |-> [run \in Runs |-> "none"]]
    /\ turnOver = FALSE
    /\ pc = [t \in Tasks |-> "idle"]
    /\ cur = [t \in Tasks |-> None]
    /\ hold = [t \in Tasks |-> None]
    /\ mode = [t \in Tasks |-> None]
    /\ todo = [t \in Tasks |-> {}]
    /\ said = [t \in Tasks |-> None]
    /\ ran = [r \in Requests |-> 0]
    /\ told = [r \in Requests |-> {}]
    /\ crashes = 0

-----------------------------------------------------------------------------
Goto(t, l) == pc' = [pc EXCEPT ![t] = l] /\ UNCHANGED <<cur, hold, mode, todo, said>>

\* A task starts on request r as m, at label l.
Enter(t, m, r, l) ==
    /\ pc[t] = "idle"
    /\ pc' = [pc EXCEPT ![t] = l]
    /\ mode' = [mode EXCEPT ![t] = m]
    /\ cur' = [cur EXCEPT ![t] = r]
    /\ UNCHANGED <<hold, todo, said>>

\* A task's coroutine is over.
Finish(t) ==
    /\ pc' = [pc EXCEPT ![t] = "idle"]
    /\ cur' = [cur EXCEPT ![t] = None]
    /\ hold' = [hold EXCEPT ![t] = None]
    /\ mode' = [mode EXCEPT ![t] = None]
    /\ todo' = [todo EXCEPT ![t] = {}]
    /\ said' = [said EXCEPT ![t] = None]

\* A redeemer has its outcome: the replay records it, a caller's is its response.
Say(t, outcome) ==
    IF mode[t] = "resume"
    THEN /\ pc' = [pc EXCEPT ![t] = "report"]
         /\ said' = [said EXCEPT ![t] = outcome]
         /\ UNCHANGED <<cur, hold, mode, todo>>
    ELSE IF outcome = "ok" THEN Goto(t, "list") ELSE Finish(t)

Redeemed(r) == \E t \in Tasks : cur[t] = r /\ mode[t] \in {"resume", "caller"}
Free(r) == Grace => ~Redeemed(r)

\* _paused_held, any_held_call_paused: paused held: rows on a run.
Paused(r, run) == cp[r][run] = "paused"
AnyPaused(run) == \E r \in Requests : Paused(r, run)

Mark(r, run, s) == cp' = [cp EXCEPT ![r][run] = s]

-----------------------------------------------------------------------------
(* Asking: enforce_approval mints the request, _hold_pause records the call *)
(* in the order seal, root checkpoint, child pointer.                       *)

Create(r) ==
    /\ status[r] = "none"
    /\ status' = [status EXCEPT ![r] = "pending"]
    /\ UNCHANGED <<decision, overdue, drifted>>

\* A gated verb is dispatched without an approval during the turn.
Dispatch(t) ==
    /\ pc[t] = "idle" /\ ~turnOver
    /\ \E r \in Asked :
         /\ Create(r)
         /\ hold' = [hold EXCEPT ![t] = r]
    /\ pc' = [pc EXCEPT ![t] = "seal"]
    /\ mode' = [mode EXCEPT ![t] = "dispatch"]
    /\ UNCHANGED <<cur, todo, said, record, turnOver, ran, told, crashes>>

WriteSeal(t) ==
    /\ pc[t] = "seal"
    /\ seal' = seal \cup {hold[t]}
    /\ Goto(t, "root")
    /\ UNCHANGED <<request, cp, turnOver, ran, told, crashes>>

\* The last write of record_held_call ends a dispatch, or a replay as "re_pended".
HoldRecorded(t) ==
    IF mode[t] = "dispatch" THEN Finish(t) ELSE Say(t, "re_pended")

WriteRoot(t) ==
    /\ pc[t] = "root"
    /\ Mark(hold[t], "root", "paused")
    /\ IF Delegated THEN Goto(t, "child") ELSE HoldRecorded(t)
    /\ UNCHANGED <<request, seal, turnOver, ran, told, crashes>>

WriteChild(t) ==
    /\ pc[t] = "child"
    /\ Mark(hold[t], "child", "paused")
    /\ HoldRecorded(t)
    /\ UNCHANGED <<request, seal, turnOver, ran, told, crashes>>

-----------------------------------------------------------------------------
(* Deciding.                                                                *)

\* HITLManager.answer in time: the CAS from PENDING, then the resume bridge.
Answer(t) ==
    /\ \E r \in Requests, d \in {"approve", "reject"} :
         /\ status[r] = "pending" /\ r \notin overdue
         /\ status' = [status EXCEPT ![r] = "answered"]
         /\ decision' = [decision EXCEPT ![r] = d]
         /\ Enter(t, "resume", r, "claim")
    /\ UNCHANGED <<overdue, drifted, record, turnOver, ran, told, crashes>>

\* HITLManager.answer too late: expired on the spot, the answer is refused.
AnswerTooLate ==
    /\ \E r \in Requests :
         /\ status[r] = "pending" /\ r \in overdue
         /\ status' = [status EXCEPT ![r] = "timed_out"]
    /\ UNCHANGED <<decision, overdue, drifted, record, turnOver, local, ran, told, crashes>>

\* expire_tenant_once: the CAS to TIMED_OUT, then _retire_held_call.
Expire(t) ==
    /\ \E r \in Requests :
         /\ status[r] = "pending" /\ r \in overdue
         /\ status' = [status EXCEPT ![r] = "timed_out"]
         /\ Enter(t, "sweep", r, "list")
    /\ UNCHANGED <<decision, overdue, drifted, record, turnOver, ran, told, crashes>>

\* Mutant of Reconcile: the sweep lists the requests that are already spent.
ReconcileSpent(t, r) ==
    /\ status[r] = "consumed"
    /\ Free(r)
    /\ Enter(t, "resume", r, "claim")
    /\ UNCHANGED <<request, record, turnOver, ran, told, crashes>>

\* reconcile_answered_tenant_once: the resume of an ANSWERED request is fired again.
Reconcile(t, r) ==
    /\ status[r] = "answered"
    /\ Free(r)
    /\ Enter(t, "resume", r, "claim")
    /\ UNCHANGED <<request, record, turnOver, ran, told, crashes>>

\* A caller redeems the approval itself: an invoke that carries the approval id.
CallerRedeems(t) ==
    /\ \E r \in Requests :
         /\ status[r] = "answered"
         /\ Free(r)
         /\ Enter(t, "caller", r, "gate")
    /\ UNCHANGED <<request, record, turnOver, ran, told, crashes>>

Lapse ==
    /\ \E r \in Volatile : status[r] # "none" /\ overdue' = overdue \cup {r}
    /\ UNCHANGED <<status, decision, drifted, record, turnOver, local, ran, told, crashes>>

Drift ==
    /\ \E r \in Volatile : status[r] # "none" /\ drifted' = drifted \cup {r}
    /\ UNCHANGED <<status, decision, overdue, record, turnOver, local, ran, told, crashes>>

-----------------------------------------------------------------------------
(* Redeeming: resume_held_write, and enforce_approval inside its invoke.    *)

\* resume_held_write_route and _claimable.
Claim(t) ==
    /\ pc[t] = "claim"
    /\ IF status[cur[t]] = "answered" /\ Paused(cur[t], Named)
       THEN Goto(t, "approved")
       ELSE Finish(t)
    /\ UNCHANGED <<request, record, turnOver, ran, told, crashes>>

\* is_approved, else _decline.
IsApproved(t) ==
    /\ pc[t] = "approved"
    /\ IF status[cur[t]] = "answered" /\ decision[cur[t]] = "approve"
       THEN Goto(t, "read")
       ELSE Say(t, "declined")
    /\ UNCHANGED <<request, record, turnOver, ran, told, crashes>>

\* read_held_call, else _refuse_unreadable.
ReadHeld(t) ==
    /\ pc[t] = "read"
    /\ IF Paused(cur[t], Named) /\ cur[t] \in seal
       THEN Goto(t, "gate")
       ELSE Say(t, "unreadable")
    /\ UNCHANGED <<request, record, turnOver, ran, told, crashes>>

\* Mutant of Authorises: any answer passes, the decision is not read.
AnyAnswerAuthorises(r) ==
    /\ status[r] = "answered"
    /\ r \notin overdue
    /\ r \notin drifted

\* The approval authorises this call: consume_approved_by up to its CAS.
Authorises(r) ==
    /\ status[r] = "answered"
    /\ r \notin overdue
    /\ r \notin drifted
    /\ decision[r] = "approve"

\* Not approved: a spent approval is a conflict, anything else re-pends.
NotApproved(t) ==
    \/ /\ status[cur[t]] = "consumed"
       /\ Say(t, "already_ran")
       /\ UNCHANGED request
    \/ /\ status[cur[t]] # "consumed"
       /\ \E n \in Requests \ Asked : Create(n) /\ hold' = [hold EXCEPT ![t] = n]
       /\ pc' = [pc EXCEPT ![t] = "seal"]
       /\ UNCHANGED <<cur, mode, todo, said>>

\* invoke up to the consume CAS; resolve, grants, schema or the rate limit may raise.
Gate(t) ==
    /\ pc[t] = "gate"
    /\ \/ Authorises(cur[t]) /\ Goto(t, "cas") /\ UNCHANGED request
       \/ ~Authorises(cur[t]) /\ NotApproved(t)
       \/ Say(t, "failed") /\ UNCHANGED request
    /\ UNCHANGED <<record, turnOver, ran, told, crashes>>

\* Mutant of Consume: the write is not conditional on status = 'answered'.
ConsumeUnconditionally(t) ==
    /\ pc[t] = "cas"
    /\ status' = [status EXCEPT ![cur[t]] = "consumed"]
    /\ Goto(t, "execute")
    /\ UNCHANGED <<decision, overdue, drifted, record, turnOver, ran, told, crashes>>

\* consume_hitl: atomic ANSWERED -> CONSUMED.
Consume(t) ==
    /\ pc[t] = "cas"
    /\ \/ /\ status[cur[t]] = "answered"
          /\ status' = [status EXCEPT ![cur[t]] = "consumed"]
          /\ Goto(t, "execute")
          /\ UNCHANGED <<decision, overdue, drifted>>
       \/ /\ status[cur[t]] # "answered"
          /\ NotApproved(t)
    /\ UNCHANGED <<record, turnOver, ran, told, crashes>>

\* Mutant of Execute: an adapter that failed is reported as done.
ExecuteSwallowsFailure(t) ==
    /\ pc[t] = "execute"
    /\ \/ ran' = [ran EXCEPT ![cur[t]] = @ + 1]
       \/ UNCHANGED ran
    /\ Say(t, "ok")
    /\ UNCHANGED <<request, record, turnOver, told, crashes>>

\* The adapter call the approval was spent on: done, or failed with or without effect.
Execute(t) ==
    /\ pc[t] = "execute"
    /\ \/ /\ ran' = [ran EXCEPT ![cur[t]] = @ + 1]
          /\ \E o \in {"ok", "failed"} : Say(t, o)
       \/ /\ Say(t, "failed")
          /\ UNCHANGED ran
    /\ UNCHANGED <<request, record, turnOver, told, crashes>>

\* record, record_decline or the row of _refuse_unreadable.
Report(t) ==
    /\ pc[t] = "report"
    /\ told' = [told EXCEPT ![cur[t]] = @ \cup {said[t]}]
    /\ Goto(t, "list")
    /\ UNCHANGED <<request, record, turnOver, ran, crashes>>

-----------------------------------------------------------------------------
(* Retiring: settle_held_call and sweep_run_credentials_if_settled.         *)

\* The root is followed from a paused pointer row; without one it is the run itself.
SettleList(t) ==
    /\ pc[t] = "list"
    /\ todo' = [todo EXCEPT ![t] = IF Paused(cur[t], Named) THEN Runs ELSE {Named}]
    /\ hold' = [hold EXCEPT ![t] =
           IF Paused(cur[t], Named) \/ ~Delegated THEN cur[t] ELSE None]
    /\ pc' = [pc EXCEPT ![t] = "mark"]
    /\ UNCHANGED <<cur, mode, said, request, record, turnOver, ran, told, crashes>>

\* The rows that were paused are marked done, run by run in no fixed order.
SettleMark(t) ==
    /\ pc[t] = "mark"
    /\ \E run \in todo[t] :
         /\ IF Paused(cur[t], run) THEN Mark(cur[t], run, "done") ELSE UNCHANGED cp
         /\ todo' = [todo EXCEPT ![t] = @ \ {run}]
         /\ pc' = [pc EXCEPT ![t] = IF todo[t] = {run} THEN "drop" ELSE "mark"]
    /\ UNCHANGED <<cur, hold, mode, said, request, seal, turnOver, ran, told, crashes>>

\* Without the root (hold = None) the seal and the root's sweep are missed.
SettleDrop(t) ==
    /\ pc[t] = "drop"
    /\ seal' = seal \ {hold[t]}
    /\ IF hold[t] = None THEN Finish(t) ELSE Goto(t, "check")
    /\ UNCHANGED <<request, cp, turnOver, ran, told, crashes>>

\* any_held_call_paused on the root run ...
SweepCheck(t) ==
    /\ pc[t] = "check"
    /\ IF AnyPaused("root") THEN Finish(t) ELSE Goto(t, "delete")
    /\ UNCHANGED <<request, record, turnOver, ran, told, crashes>>

\* ... then delete_credential_refs_for_run: the whole run:<root>: prefix.
SweepDelete(t) ==
    /\ pc[t] = "delete"
    /\ seal' = {}
    /\ Finish(t)
    /\ UNCHANGED <<request, cp, turnOver, ran, told, crashes>>

\* The chat turn's terminal (_settle_turn) sweeps its run, after its dispatches.
TurnEnds(t) ==
    /\ ~turnOver
    /\ \A u \in Tasks : mode[u] # "dispatch"
    /\ turnOver' = TRUE
    /\ Enter(t, "turn", None, "check")
    /\ UNCHANGED <<request, record, ran, told, crashes>>

-----------------------------------------------------------------------------
\* A process dies, or a store fault that no handler catches ends the coroutine.
Crash(t) ==
    /\ pc[t] # "idle"
    /\ crashes < MaxCrashes
    /\ crashes' = crashes + 1
    /\ Finish(t)
    /\ UNCHANGED <<request, record, turnOver, ran, told>>

\* The steps of a coroutine once it has started.
Proceed(t) ==
    \/ WriteSeal(t)  \/ WriteRoot(t)  \/ WriteChild(t)
    \/ Claim(t)      \/ IsApproved(t) \/ ReadHeld(t)
    \/ Gate(t)       \/ Consume(t)    \/ Execute(t)    \/ Report(t)
    \/ SettleList(t) \/ SettleMark(t) \/ SettleDrop(t)
    \/ SweepCheck(t) \/ SweepDelete(t)

Next ==
    \/ \E t \in Tasks :
          \/ Dispatch(t) \/ Answer(t) \/ Expire(t) \/ CallerRedeems(t)
          \/ TurnEnds(t) \/ Proceed(t) \/ Crash(t)
          \/ \E r \in Requests : Reconcile(t, r)
    \/ AnswerTooLate \/ Lapse \/ Drift

Spec == Init /\ [][Next]_vars

\* A started coroutine goes on, and every janitor cycle refires each ANSWERED request.
Fairness ==
    /\ \A t \in Tasks : WF_vars(Proceed(t))
    /\ \A r \in Requests : SF_vars(\E t \in Tasks : Reconcile(t, r))

FairSpec == Spec /\ Fairness

-----------------------------------------------------------------------------
(* Properties.                                                             *)

\* One approval, one execution: whoever redeems it, however often the resume is
\* fired again, and whatever crashes, the adapter is called at most once.
AtMostOneExecution == \A r \in Requests : ran[r] <= 1

\* A write runs only on an approval a human gave in time and that is now spent:
\* never on a rejection, a timed-out request or an unanswered one.
ExecutedOnlyAsApproved ==
    \A r \in Requests : ran[r] > 0 =>
        status[r] = "consumed" /\ decision[r] = "approve"

\* Candour: what the replay records is true when it is recorded.
TrueOf(r, outcome) ==
    CASE outcome = "ok" -> ran[r] = 1
      [] outcome = "declined" -> decision[r] = "reject"
      [] outcome \in {"unreadable", "re_pended"} -> ran[r] = 0 /\ status[r] # "consumed"
      [] outcome = "already_ran" -> status[r] = "consumed"
      [] OTHER -> TRUE

\* What the replay tells the user and the audit trail is what happened to the
\* write: "declined" only for a human's no, "unused" only for an unspent approval.
Candour ==
    [][\A r \in Requests : \A o \in told'[r] \ told[r] : TrueOf(r, o)]_vars

\* A hold that a human has still to decide keeps its sealed call: retiring another
\* hold of the same run, or ending the turn, does not take it away.  The code does
\* not keep this either: see "Disagreements" in the README.
PausedHoldIsSealed ==
    \A r \in Requests :
        status[r] = "pending" /\ Paused(r, "root") => r \in seal

\* Once everything has come to rest, a request that timed out holds no seal.  The
\* code does not keep this: see AnswerTooLate, and "Disagreements" in the README.
TimedOutIsRetired ==
    (\A t \in Tasks : pc[t] = "idle") =>
        \A r \in Requests : status[r] = "timed_out" => r \notin seal

\* Once everything has come to rest, a request that waits for a human or for its
\* redeemer has a hold that the answer bridge can find.  A crash between Create and
\* the checkpoints breaks this: see "Disagreements" in the README.
OpenRequestIsClaimable ==
    (\A t \in Tasks : pc[t] = "idle") =>
        \A r \in Requests : status[r] = "pending" => Paused(r, Named)

\* An answer to a recorded hold is never forgotten: its outcome is reported or
\* the approval is spent, although the notification may die with its process.
AnsweredIsResolved ==
    \A r \in Requests :
        status[r] = "answered" /\ Paused(r, Named) ~>
            status[r] = "consumed" \/ told[r] # {}

\* What has become of a request, for the abstract specification.
Verdict(r) ==
    CASE status[r] = "none" -> "none"
      [] status[r] = "pending" -> "open"
      [] status[r] = "timed_out" -> "lapsed"
      [] status[r] = "consumed" -> "spent"
      [] OTHER -> IF decision[r] = "approve" THEN "approved" ELSE "rejected"

Abstract == INSTANCE ApprovalOnce WITH
    verdict <- [r \in Requests |-> Verdict(r)],
    runs <- ran

\* The gate, the held record, the bridge and the janitor together implement the
\* single-use approval.
ImplementsApprovalOnce == Abstract!Spec
=============================================================================
