--------------------------- MODULE HeldWriteProofs ---------------------------
(***************************************************************************)
(* One approval authorises at most one execution, for any number of        *)
(* requests and tasks, with or without the grace window, and however many  *)
(* tasks crash: the consume CAS is enough.  With the grace window, what    *)
(* the replay records of a redemption is also true when it is recorded.    *)
(***************************************************************************)
EXTENDS HeldWrite, TLAPS

\* The labels between the resume bridge and the adapter.
Redeeming == {"claim", "approved", "read", "gate", "cas", "execute"}

\* The part of the type invariant the argument needs.
ShapeInv ==
    /\ status \in [Requests -> {"none", "pending", "answered", "consumed", "timed_out"}]
    /\ decision \in [Requests -> {None, "approve", "reject"}]
    /\ pc \in [Tasks -> Pc]
    /\ cur \in [Tasks -> Requests \cup {None}]
    /\ ran \in [Requests -> Nat]
    /\ \A t \in Tasks : pc[t] \in Redeeming => cur[t] \in Requests

\* A task about to consume has seen an approval, and decisions do not change.
ApprovedInv ==
    \A t \in Tasks : pc[t] \in {"cas", "execute"} =>
        /\ decision[cur[t]] = "approve"
        /\ status[cur[t]] \in {"answered", "consumed"}

\* A task about to execute won the CAS alone, and nothing has run on it yet.
ExecutorInv ==
    /\ \A t \in Tasks : pc[t] = "execute" =>
          status[cur[t]] = "consumed" /\ ran[cur[t]] = 0
    /\ \A t, u \in Tasks : pc[t] = "execute" /\ pc[u] = "execute" /\ cur[t] = cur[u] => t = u

RanInv ==
    \A r \in Requests :
        /\ ran[r] <= 1
        /\ ran[r] > 0 => status[r] = "consumed" /\ decision[r] = "approve"

IndInv == ShapeInv /\ ApprovedInv /\ ExecutorInv /\ RanInv

-----------------------------------------------------------------------------
(* What a step can do to the variables the invariant speaks of.            *)

\* A task that moves on keeps its request, and no move other than the two the
\* gate makes leads to the CAS or to the execution.
Quiet ==
    /\ UNCHANGED <<ran, decision>>
    /\ pc' \in [Tasks -> Pc] /\ cur' \in [Tasks -> Requests \cup {None}]
    /\ \A t \in Tasks :
          \/ pc'[t] = pc[t] /\ cur'[t] = cur[t]
          \/ /\ pc'[t] \notin {"cas", "execute"}
             /\ pc'[t] \in Redeeming => cur'[t] \in Requests

\* Statuses leave "none" and "pending" only, which no approval in use has.
StatusKept ==
    /\ status' \in [Requests -> {"none", "pending", "answered", "consumed", "timed_out"}]
    /\ \A r \in Requests : status[r] \in {"answered", "consumed"} => status'[r] = status[r]

\* A step that neither executes nor redeems keeps the invariant.
LEMMA QuietStep == IndInv /\ Quiet /\ StatusKept => IndInv'
BY DEF IndInv, ShapeInv, ApprovedInv, ExecutorInv, RanInv, Quiet, StatusKept, Redeeming

\* Moving a task to a label outside the redeeming ones is quiet.
LEMMA GotoQuiet ==
    ASSUME ShapeInv, NEW t \in Tasks, NEW l \in Pc \ {"cas", "execute"},
           pc' = [pc EXCEPT ![t] = l], UNCHANGED <<ran, decision>>,
           \/ UNCHANGED cur
           \/ \E r \in Requests \cup {None} : cur' = [cur EXCEPT ![t] = r],
           l \in Redeeming => cur'[t] \in Requests
    PROVE  Quiet
BY Zenon DEF ShapeInv, Quiet

\* Ending a task is quiet.
LEMMA FinishQuiet ==
    ASSUME ShapeInv, NEW t \in Tasks, Finish(t), UNCHANGED <<ran, decision>>
    PROVE  Quiet
BY GotoQuiet, ZenonT(60) DEF Finish, Pc, Redeeming

\* Reporting an outcome is quiet.
LEMMA SayQuiet ==
    ASSUME ShapeInv, NEW t \in Tasks, NEW o, Say(t, o), UNCHANGED <<ran, decision>>
    PROVE  Quiet
<1>1. CASE Finish(t)
  BY <1>1, FinishQuiet, Zenon
<1>2. CASE ~Finish(t)
  BY <1>2, GotoQuiet, Zenon DEF Say, Goto, Pc, Redeeming
<1> QED
  BY <1>1, <1>2, Zenon

\* Creating a request leaves the status of every other one.
LEMMA CreateKept ==
    ASSUME ShapeInv, NEW r \in Requests, Create(r)
    PROVE  StatusKept /\ UNCHANGED decision
BY Zenon DEF Create, StatusKept, ShapeInv

\* Being refused at the gate is quiet.
LEMMA NotApprovedQuiet ==
    ASSUME ShapeInv, NEW t \in Tasks, NotApproved(t), UNCHANGED ran
    PROVE  Quiet /\ StatusKept
<1>1. CASE Say(t, "already_ran") /\ UNCHANGED request
  BY <1>1, SayQuiet, Zenon DEF request, StatusKept, ShapeInv
<1>2. CASE /\ \E n \in Requests \ Asked : Create(n)
           /\ pc' = [pc EXCEPT ![t] = "seal"] /\ UNCHANGED cur
  BY <1>2, CreateKept, GotoQuiet, ZenonT(60) DEF Pc, Redeeming
<1> QED
  BY <1>1, <1>2, Zenon DEF NotApproved

\* A step that leaves the requests alone keeps their status.
LEMMA RequestKept == ASSUME ShapeInv, UNCHANGED request PROVE StatusKept /\ UNCHANGED decision
BY Zenon DEF request, StatusKept, ShapeInv

\* Writing the held record.
LEMMA HoldStep ==
    ASSUME IndInv, NEW t \in Tasks, Dispatch(t) \/ WriteSeal(t) \/ WriteRoot(t) \/ WriteChild(t)
    PROVE  IndInv'
<1> USE DEF IndInv
<1>1. CASE Dispatch(t)
  <2>1. StatusKept /\ UNCHANGED decision
    BY <1>1, CreateKept, ConstantsAssumption, Zenon DEF Dispatch
  <2>2. Quiet
    BY <1>1, <2>1, GotoQuiet, ZenonT(60) DEF Dispatch, Pc, Redeeming
  <2> QED
    BY <2>1, <2>2, QuietStep, Zenon
<1>2. CASE WriteSeal(t) \/ WriteRoot(t) \/ WriteChild(t)
  <2>1. StatusKept /\ UNCHANGED <<ran, decision>>
    BY <1>2, RequestKept, Zenon DEF WriteSeal, WriteRoot, WriteChild
  <2>2. CASE \E l \in {"root", "child"} : Goto(t, l)
    BY <2>1, <2>2, GotoQuiet, QuietStep, ZenonT(60) DEF Goto, Pc, Redeeming
  <2>3. CASE Finish(t) \/ Say(t, "re_pended")
    BY <2>1, <2>3, FinishQuiet, SayQuiet, QuietStep, Zenon
  <2> QED
    BY <1>2, <2>2, <2>3, Zenon DEF WriteSeal, WriteRoot, WriteChild, HoldRecorded
<1> QED
  BY <1>1, <1>2, Zenon

\* Deciding a request, or starting to redeem one.
LEMMA DecideStep ==
    ASSUME IndInv, NEW t \in Tasks,
           \/ Answer(t) \/ Expire(t) \/ CallerRedeems(t) \/ TurnEnds(t)
           \/ \E r \in Requests : Reconcile(t, r)
    PROVE  IndInv'
<1> USE DEF IndInv
<1>1. CASE Answer(t)
  <2>1. PICK r \in Requests, d \in {"approve", "reject"} :
           /\ status[r] = "pending"
           /\ status' = [status EXCEPT ![r] = "answered"]
           /\ decision' = [decision EXCEPT ![r] = d]
           /\ Enter(t, "resume", r, "claim")
    BY <1>1, ZenonT(60) DEF Answer
  <2>2. UNCHANGED ran
    BY <1>1, Zenon DEF Answer
  <2> QED
    BY <2>1, <2>2 DEF Enter, ShapeInv, ApprovedInv, ExecutorInv, RanInv, Pc, Redeeming
<1>2. CASE Expire(t)
  <2>1. PICK r \in Requests : /\ status[r] = "pending"
                              /\ status' = [status EXCEPT ![r] = "timed_out"]
                              /\ Enter(t, "sweep", r, "list")
    BY <1>2, ZenonT(60) DEF Expire
  <2> QED
    BY <1>2, <2>1, QuietStep
    DEF Expire, Enter, Quiet, StatusKept, ShapeInv, Pc, Redeeming
<1>3. CASE CallerRedeems(t) \/ TurnEnds(t) \/ \E r \in Requests : Reconcile(t, r)
  <2>1. StatusKept /\ UNCHANGED <<ran, decision>>
    BY <1>3, RequestKept, Zenon DEF CallerRedeems, TurnEnds, Reconcile
  <2>2. Quiet
    BY <1>3, <2>1, GotoQuiet
    DEF CallerRedeems, TurnEnds, Reconcile, Enter, Pc, Redeeming, ShapeInv
  <2> QED
    BY <2>1, <2>2, QuietStep, Zenon
<1> QED
  BY <1>1, <1>2, <1>3, Zenon

\* The checks of the replay before the gate, and what follows its outcome.
LEMMA ReplayStep ==
    ASSUME IndInv, NEW t \in Tasks,
           \/ Claim(t) \/ IsApproved(t) \/ ReadHeld(t) \/ Report(t) \/ Crash(t)
           \/ SettleList(t) \/ SettleMark(t) \/ SettleDrop(t)
           \/ SweepCheck(t) \/ SweepDelete(t)
    PROVE  IndInv'
<1> USE DEF IndInv
<1>1. StatusKept /\ UNCHANGED <<ran, decision>>
  BY RequestKept, Zenon DEF Claim, IsApproved, ReadHeld, Report, Crash, SettleList, SettleMark,
                     SettleDrop, SweepCheck, SweepDelete
<1>2. CASE Finish(t) \/ \E o \in Outcomes : Say(t, o)
  BY <1>1, <1>2, FinishQuiet, SayQuiet, QuietStep, Zenon
<1>3. CASE /\ UNCHANGED cur
           /\ \E l \in {"approved", "read", "gate"} : pc' = [pc EXCEPT ![t] = l]
           /\ pc[t] \in Redeeming
  BY <1>1, <1>3, GotoQuiet, QuietStep, ZenonT(60) DEF Pc, ShapeInv
<1>4. CASE /\ UNCHANGED cur
           /\ \E l \in {"list", "mark", "drop", "check", "delete"} : pc' = [pc EXCEPT ![t] = l]
  BY <1>1, <1>4, GotoQuiet, QuietStep, ZenonT(60) DEF Pc, Redeeming
<1> QED
  BY <1>2, <1>3, <1>4, Zenon
  DEF Claim, IsApproved, ReadHeld, Report, Crash, SettleList, SettleMark, SettleDrop,
      SweepCheck, SweepDelete, Goto, Outcomes, Redeeming

\* The gate, the CAS and the adapter call.
LEMMA RedeemStep ==
    ASSUME IndInv, NEW t \in Tasks, Gate(t) \/ Consume(t) \/ Execute(t)
    PROVE  IndInv'
<1> USE DEF IndInv
<1>1. CASE Gate(t)
  <2>1. CASE Authorises(cur[t]) /\ Goto(t, "cas") /\ UNCHANGED request
    BY <1>1, <2>1, Zenon DEF Gate, Authorises, Goto, request, ShapeInv, ApprovedInv,
                      ExecutorInv, RanInv, Pc, Redeeming
  <2>2. CASE NotApproved(t)
    BY <1>1, <2>2, NotApprovedQuiet, QuietStep, Zenon DEF Gate
  <2>3. CASE Say(t, "failed") /\ UNCHANGED request
    BY <1>1, <2>3, SayQuiet, RequestKept, QuietStep, Zenon DEF Gate
  <2> QED
    BY <1>1, <2>1, <2>2, <2>3, Zenon DEF Gate
<1>2. CASE Consume(t)
  <2>1. CASE /\ status[cur[t]] = "answered"
             /\ status' = [status EXCEPT ![cur[t]] = "consumed"]
             /\ Goto(t, "execute") /\ UNCHANGED decision
    BY <1>2, <2>1 DEF Consume, Goto, ShapeInv, ApprovedInv, ExecutorInv, RanInv, Pc, Redeeming
  <2>2. CASE NotApproved(t)
    BY <1>2, <2>2, NotApprovedQuiet, QuietStep, Zenon DEF Consume
  <2> QED
    BY <1>2, <2>1, <2>2, Zenon DEF Consume
<1>3. CASE Execute(t)
  <2>1. CASE UNCHANGED ran
    BY <1>3, <2>1, SayQuiet, RequestKept, QuietStep, Zenon DEF Execute
  <2>2. CASE ran' = [ran EXCEPT ![cur[t]] = @ + 1]
    <3>1. /\ \A u \in Tasks \ {t} : pc'[u] = pc[u] /\ cur'[u] = cur[u]
          /\ pc'[t] \notin Redeeming
          /\ pc' \in [Tasks -> Pc] /\ cur' \in [Tasks -> Requests \cup {None}]
      BY <1>3, SMTT(60) DEF Execute, Say, Goto, Finish, ShapeInv, Pc, Redeeming
    <3> QED
      BY <1>3, <2>2, <3>1
      DEF Execute, request, ShapeInv, ApprovedInv, ExecutorInv, RanInv, Redeeming
  <2> QED
    BY <1>3, <2>1, <2>2, Zenon DEF Execute
<1> QED
  BY <1>1, <1>2, <1>3, Zenon

\* The inductive invariant holds of every reachable state.
THEOREM Invariance == Spec => []IndInv
<1>1. Init => IndInv
  BY DEF Init, IndInv, ShapeInv, ApprovedInv, ExecutorInv, RanInv, Pc, Redeeming
<1>2. IndInv /\ [Next]_vars => IndInv'
  <2> SUFFICES ASSUME IndInv, [Next]_vars PROVE IndInv'
    BY Zenon
  <2>1. CASE AnswerTooLate
    BY <2>1, QuietStep, Zenon DEF AnswerTooLate, local, Quiet, StatusKept, IndInv, ShapeInv
  <2>2. CASE Lapse \/ Drift \/ UNCHANGED vars
    BY <2>2, QuietStep, Zenon
    DEF Lapse, Drift, vars, local, request, Quiet, StatusKept, IndInv, ShapeInv
  <2> QED
    BY <2>1, <2>2, HoldStep, DecideStep, ReplayStep, RedeemStep, Zenon DEF Next, Proceed
<1> QED
  BY <1>1, <1>2, PTL DEF Spec

\* No approval is ever executed on twice: held_write_resume.py leaves
\* "consume_approved_by as the sole authority on exactly-once".
THEOREM AtMostOneExecutionHolds == Spec => []AtMostOneExecution
<1>1. IndInv => AtMostOneExecution
  BY Zenon DEF IndInv, RanInv, AtMostOneExecution
<1> QED
  BY <1>1, Invariance, PTL

\* No write runs on a rejection, a timeout or an unanswered request.
THEOREM ExecutedOnlyAsApprovedHolds == Spec => []ExecutedOnlyAsApproved
<1>1. IndInv => ExecutedOnlyAsApproved
  BY Zenon DEF IndInv, RanInv, ExecutedOnlyAsApproved
<1> QED
  BY <1>1, Invariance, PTL

-----------------------------------------------------------------------------
(* Refinement of ApprovalOnce.                                             *)

\* A step that leaves the requests and the executions alone is a stutter.
LEMMA Stutter ==
    ASSUME UNCHANGED <<status, decision, ran>> PROVE UNCHANGED Abstract!vars
BY Zenon DEF Abstract!vars, Verdict

\* A change of one request's status is the abstract step that changes its verdict.
LEMMA OneVerdict ==
    ASSUME ShapeInv, NEW r \in Requests, NEW s,
           status' = [status EXCEPT ![r] = s],
           \A q \in Requests : q # r => decision'[q] = decision[q]
    PROVE  [q \in Requests |-> Verdict(q)]' =
               [[q \in Requests |-> Verdict(q)] EXCEPT ![r] = Verdict(r)']
BY ZenonT(60) DEF ShapeInv, Verdict

\* Creating a request (HITLManager.create) is the abstract Ask.
LEMMA CreateRefines ==
    ASSUME ShapeInv, NEW r \in Requests, Create(r), UNCHANGED ran
    PROVE  Abstract!Ask(r)
<1>1. Verdict(r) = "none" /\ Verdict(r)' = "open"
  BY Zenon DEF Create, Verdict, ShapeInv
<1> QED
  BY <1>1, OneVerdict, ZenonT(60) DEF Create, Abstract!Ask, Abstract!Becomes

\* Timing a request out (expire_hitl) is the abstract Lapse.
LEMMA LapseRefines ==
    ASSUME ShapeInv, NEW r \in Requests, status[r] = "pending",
           status' = [status EXCEPT ![r] = "timed_out"], UNCHANGED <<ran, decision>>
    PROVE  Abstract!Lapse(r)
<1>1. Verdict(r) = "open" /\ Verdict(r)' = "lapsed"
  BY Zenon DEF Verdict, ShapeInv
<1> QED
  BY <1>1, OneVerdict, ZenonT(60) DEF Abstract!Lapse, Abstract!Becomes

\* Every step of the system is a step of the single-use approval or a stutter.
LEMMA StepRefines == IndInv /\ [Next]_vars => [Abstract!Next]_(Abstract!vars)
<1> SUFFICES ASSUME IndInv, [Next]_vars PROVE [Abstract!Next]_(Abstract!vars)
  BY Zenon
<1> USE DEF IndInv
<1>1. ASSUME NEW t \in Tasks, Dispatch(t) PROVE Abstract!Next
  BY <1>1, CreateRefines, ConstantsAssumption, Zenon DEF Dispatch, Abstract!Next
<1>2. ASSUME NEW t \in Tasks, Answer(t) PROVE Abstract!Next
  <2>1. PICK r \in Requests, d \in {"approve", "reject"} :
           /\ status[r] = "pending"
           /\ status' = [status EXCEPT ![r] = "answered"]
           /\ decision' = [decision EXCEPT ![r] = d]
    BY <1>2, ZenonT(60) DEF Answer
  <2>2. Verdict(r) = "open" /\ Verdict(r)' \in {"approved", "rejected"}
    BY <2>1, Zenon DEF Verdict, ShapeInv
  <2> QED
    BY <1>2, <2>1, <2>2, OneVerdict, ZenonT(60)
    DEF Answer, ShapeInv, Abstract!Decide, Abstract!Becomes, Abstract!Next
<1>3. ASSUME NEW t \in Tasks, Expire(t) PROVE Abstract!Next
  BY <1>3, LapseRefines, ZenonT(60) DEF Expire, Abstract!Next
<1>4. CASE AnswerTooLate
  BY <1>4, LapseRefines, ZenonT(60) DEF AnswerTooLate, Abstract!Next
<1>5. ASSUME NEW t \in Tasks, NotApproved(t), UNCHANGED ran
      PROVE  [Abstract!Next]_(Abstract!vars)
  BY <1>5, CreateRefines, Stutter, Zenon DEF NotApproved, request, Abstract!Next
<1>6. ASSUME NEW t \in Tasks, Gate(t) PROVE [Abstract!Next]_(Abstract!vars)
  BY <1>5, <1>6, Stutter, Zenon DEF Gate, request
<1>7. ASSUME NEW t \in Tasks, Consume(t) PROVE [Abstract!Next]_(Abstract!vars)
  <2>1. CASE /\ status[cur[t]] = "answered"
             /\ status' = [status EXCEPT ![cur[t]] = "consumed"]
             /\ UNCHANGED decision
    <3>1. PICK r \in Requests : r = cur[t]
      BY <1>7, Zenon DEF Consume, ShapeInv, Redeeming
    <3>2. decision[r] = "approve" /\ status[r] = "answered" /\ status'[r] = "consumed"
      BY <1>7, <2>1, <3>1, Zenon DEF Consume, ShapeInv, ApprovedInv
    <3>3. Verdict(r) = "approved" /\ Verdict(r)' = "spent"
      BY <2>1, <3>2, Zenon DEF Verdict
    <3> QED
      BY <1>7, <2>1, <3>1, <3>3, OneVerdict, ZenonT(60)
      DEF Consume, Abstract!Spend, Abstract!Becomes, Abstract!Next
  <2> QED
    BY <1>5, <1>7, <2>1, Zenon DEF Consume
<1>8. ASSUME NEW t \in Tasks, Execute(t) PROVE [Abstract!Next]_(Abstract!vars)
  <2>1. CASE UNCHANGED ran
    BY <1>8, <2>1, Stutter, Zenon DEF Execute, request
  <2>2. CASE ran' = [ran EXCEPT ![cur[t]] = @ + 1]
    <3>1. cur[t] \in Requests /\ Verdict(cur[t]) = "spent" /\ ran[cur[t]] = 0
      BY <1>8, Zenon DEF Execute, ShapeInv, ExecutorInv, Verdict, Redeeming
    <3>2. [q \in Requests |-> Verdict(q)]' = [q \in Requests |-> Verdict(q)]
      BY <1>8, Zenon DEF Execute, request, Verdict
    <3>3. ran' = [ran EXCEPT ![cur[t]] = 1]
      BY <2>2, <3>1 DEF ShapeInv
    <3> QED
      BY <3>1, <3>2, <3>3, ZenonT(60) DEF Abstract!Run, Abstract!Next
  <2> QED
    BY <1>8, <2>1, <2>2, Zenon DEF Execute
<1>9. ASSUME NEW t \in Tasks,
             \/ WriteSeal(t) \/ WriteRoot(t) \/ WriteChild(t) \/ CallerRedeems(t)
             \/ TurnEnds(t) \/ Crash(t) \/ Claim(t) \/ IsApproved(t) \/ ReadHeld(t)
             \/ Report(t) \/ SettleList(t) \/ SettleMark(t) \/ SettleDrop(t)
             \/ SweepCheck(t) \/ SweepDelete(t) \/ \E r \in Requests : Reconcile(t, r)
      PROVE  UNCHANGED Abstract!vars
  BY <1>9, Stutter, ZenonT(60)
  DEF WriteSeal, WriteRoot, WriteChild, CallerRedeems, TurnEnds, Crash, Claim, IsApproved,
      ReadHeld, Report, SettleList, SettleMark, SettleDrop, SweepCheck, SweepDelete,
      Reconcile, request
<1>10. CASE Lapse \/ Drift \/ UNCHANGED vars
  BY <1>10, Stutter, Zenon DEF Lapse, Drift, vars, request
<1> QED
  BY <1>1, <1>2, <1>3, <1>4, <1>6, <1>7, <1>8, <1>9, <1>10, Zenon DEF Next, Proceed

\* The whole lane implements the single-use approval, for all constants.
THEOREM Refinement == Spec => ImplementsApprovalOnce
<1>1. Init => Abstract!Init
  BY Zenon DEF Init, Abstract!Init, Verdict
<1> QED
  BY <1>1, StepRefines, Invariance, PTL DEF Spec, Abstract!Spec, ImplementsApprovalOnce
-----------------------------------------------------------------------------
(* Type correctness.  It needs to know which request a task works on: one  *)
(* that redeems, retires or replays has one, one that writes a held record *)
(* has the request of that record, one that reports has its outcome.       *)

OnRequest == {"resume", "caller", "sweep"}

LocalOK(t) ==
    /\ pc[t] # "idle" /\ mode[t] \in OnRequest => cur[t] \in Requests
    /\ pc[t] \in Redeeming \cup {"report", "list", "mark"} => mode[t] \in OnRequest
    /\ pc[t] \in {"seal", "root", "child"} => hold[t] \in Requests
    /\ pc[t] = "report" => said[t] \in Outcomes

LocalTypes ==
    /\ pc \in [Tasks -> Pc]
    /\ cur \in [Tasks -> Requests \cup {None}]
    /\ hold \in [Tasks -> Requests \cup {None}]
    /\ mode \in [Tasks -> {None, "dispatch", "resume", "caller", "sweep", "turn"}]
    /\ todo \in [Tasks -> SUBSET Runs]
    /\ said \in [Tasks -> Outcomes \cup {None}]
    /\ \A t \in Tasks : LocalOK(t)

RequestTypes ==
    /\ status \in [Requests -> {"none", "pending", "answered", "consumed", "timed_out"}]
    /\ decision \in [Requests -> {None, "approve", "reject"}]
    /\ overdue \subseteq Volatile /\ drifted \subseteq Volatile

RecordTypes ==
    /\ seal \subseteq Requests
    /\ cp \in [Requests -> [Runs -> {"none", "paused", "done"}]]

HistoryTypes ==
    /\ turnOver \in BOOLEAN
    /\ ran \in [Requests -> Nat]
    /\ told \in [Requests -> SUBSET Outcomes]
    /\ crashes \in Nat

TypeInv == LocalTypes /\ RequestTypes /\ RecordTypes /\ HistoryTypes

\* A checkpoint keeps its type when one of its runs is marked, whichever it is.
LEMMA MarkTypes ==
    ASSUME RecordTypes, NEW r, NEW run, NEW s \in {"none", "paused", "done"}, Mark(r, run, s)
    PROVE  cp' \in [Requests -> [Runs -> {"none", "paused", "done"}]]
<1>1. cp[r] \in [Runs -> {"none", "paused", "done"}] \/ r \notin Requests
  BY Zenon DEF RecordTypes
<1>2. r \in Requests => [cp[r] EXCEPT ![run] = s] \in [Runs -> {"none", "paused", "done"}]
  BY <1>1, ZenonT(60)
<1> QED
  BY <1>2, ZenonT(60) DEF RecordTypes, Mark

\* What a task does to its own state when it goes on, ends, or has its outcome.
LEMMA GotoTypes ==
    ASSUME LocalTypes, NEW t \in Tasks, NEW l \in Pc, Goto(t, l), pc[t] # "idle",
           l \in Redeeming \cup {"report", "list", "mark"} => mode[t] \in OnRequest,
           l \in {"seal", "root", "child"} => hold[t] \in Requests,
           l # "report"
    PROVE  LocalTypes'
BY Zenon DEF LocalTypes, LocalOK, Goto

LEMMA FinishTypes ==
    ASSUME LocalTypes, NEW t \in Tasks, Finish(t)
    PROVE  LocalTypes'
BY Zenon DEF LocalTypes, LocalOK, Finish, Pc, Redeeming

LEMMA SayTypes ==
    ASSUME LocalTypes, NEW t \in Tasks, NEW o \in Outcomes, Say(t, o),
           pc[t] # "idle", o = "ok" => mode[t] \in OnRequest
    PROVE  LocalTypes'
<1>1. CASE mode[t] = "resume"
  BY <1>1 DEF Say, LocalTypes, LocalOK, Pc, Redeeming, OnRequest
<1>2. CASE mode[t] # "resume" /\ o = "ok"
  <2>1. Goto(t, "list")
    BY <1>2, Zenon DEF Say
  <2> QED
    BY <1>2, <2>1, GotoTypes, Zenon DEF Pc
<1>3. CASE mode[t] # "resume" /\ o # "ok"
  BY <1>3, FinishTypes, Zenon DEF Say
<1> QED
  BY <1>1, <1>2, <1>3, Zenon

LEMMA EnterTypes ==
    ASSUME LocalTypes, NEW t \in Tasks, NEW l \in Pc \ {"seal", "root", "child", "report"},
           NEW m \in {"resume", "caller", "sweep", "turn"}, NEW r \in Requests \cup {None},
           Enter(t, m, r, l),
           (r \in Requests /\ m # "turn") \/ (m = "turn" /\ l = "check")
    PROVE  LocalTypes'
BY Zenon DEF LocalTypes, LocalOK, Enter, Pc, Redeeming, OnRequest

LEMMA NotApprovedTypes ==
    ASSUME LocalTypes, RequestTypes, NEW t \in Tasks, pc[t] \in Redeeming, NotApproved(t)
    PROVE  LocalTypes' /\ RequestTypes'
<1>1. CASE Say(t, "already_ran") /\ UNCHANGED request
  <2>1. LocalTypes'
    BY <1>1, SayTypes, Zenon DEF Outcomes, Redeeming
  <2> QED
    BY <1>1, <2>1, Zenon DEF request, RequestTypes
<1>2. CASE /\ \E n \in Requests \ Asked : Create(n) /\ hold' = [hold EXCEPT ![t] = n]
           /\ pc' = [pc EXCEPT ![t] = "seal"]
           /\ UNCHANGED <<cur, mode, todo, said>>
  <2>1. PICK n \in Requests : Create(n) /\ hold' = [hold EXCEPT ![t] = n]
    BY <1>2, ZenonT(60)
  <2>2. RequestTypes'
    BY <2>1, Zenon DEF Create, RequestTypes
  <2>3. LocalTypes'
    BY <1>2, <2>1, Zenon DEF LocalTypes, LocalOK, Pc, Redeeming, OnRequest
  <2> QED
    BY <2>2, <2>3, Zenon
<1> QED
  BY <1>1, <1>2, Zenon DEF NotApproved

\* The steps of a started coroutine.
LEMMA ProceedTypes ==
    ASSUME TypeInv, NEW t \in Tasks, Proceed(t)
    PROVE  TypeInv'
<1>0. /\ LocalTypes /\ RequestTypes /\ RecordTypes /\ HistoryTypes
      /\ LocalOK(t) /\ pc[t] \in Pc
      /\ {"root", Named} \subseteq Runs
  BY Zenon DEF TypeInv, LocalTypes, Runs, Named
<1>1. CASE WriteSeal(t)
  <2>1. hold[t] \in Requests /\ pc[t] # "idle" /\ Goto(t, "root")
    BY <1>0, <1>1, Zenon DEF WriteSeal, LocalOK
  <2>2. LocalTypes'
    BY <1>0, <2>1, GotoTypes, Zenon DEF Pc, Redeeming
  <2> QED
    BY <1>0, <1>1, <2>1, <2>2, Zenon
    DEF WriteSeal, TypeInv, RequestTypes, request, RecordTypes, HistoryTypes
<1>2. CASE WriteRoot(t) \/ WriteChild(t)
  <2>1. hold[t] \in Requests /\ pc[t] \in {"root", "child"}
    BY <1>0, <1>2, Zenon DEF WriteRoot, WriteChild, LocalOK
  <2>2. PICK run \in {"root", "child"} : Mark(hold[t], run, "paused")
    BY <1>2, Zenon DEF WriteRoot, WriteChild
  <2>3. RecordTypes'
    <3>1. cp' \in [Requests -> [Runs -> {"none", "paused", "done"}]]
      BY <1>0, <2>2, MarkTypes, Zenon
    <3> QED
      BY <1>0, <1>2, <3>1, Zenon DEF RecordTypes, WriteRoot, WriteChild
  <2>4. LocalTypes'
    <3>1. CASE Goto(t, "child")
      BY <1>0, <2>1, <3>1, GotoTypes, Zenon DEF Pc, Redeeming
    <3>2. CASE Finish(t)
      BY <1>0, <3>2, FinishTypes, Zenon
    <3>3. CASE Say(t, "re_pended")
      BY <1>0, <2>1, <3>3, SayTypes, Zenon DEF Outcomes
    <3> QED
      BY <1>2, <3>1, <3>2, <3>3, Zenon DEF WriteRoot, WriteChild, HoldRecorded
  <2> QED
    BY <1>0, <1>2, <2>3, <2>4, Zenon
    DEF WriteRoot, WriteChild, TypeInv, RequestTypes, request, HistoryTypes
<1>3. CASE Claim(t) \/ IsApproved(t) \/ ReadHeld(t)
  <2>1. pc[t] \in {"claim", "approved", "read"} /\ mode[t] \in OnRequest
    BY <1>0, <1>3, Zenon DEF Claim, IsApproved, ReadHeld, LocalOK, Redeeming
  <2>2. \/ \E l \in {"approved", "read", "gate"} : Goto(t, l)
        \/ Finish(t)
        \/ \E o \in {"declined", "unreadable"} : Say(t, o)
    BY <1>3, Zenon DEF Claim, IsApproved, ReadHeld
  <2>3. LocalTypes'
    BY <1>0, <2>1, <2>2, GotoTypes, FinishTypes, SayTypes, Zenon DEF Pc, Outcomes
  <2> QED
    BY <1>0, <1>3, <2>3, Zenon
    DEF Claim, IsApproved, ReadHeld, TypeInv, RequestTypes, request, RecordTypes, record,
        HistoryTypes
<1>4. CASE Gate(t)
  <2>1. pc[t] \in Redeeming /\ pc[t] # "idle" /\ mode[t] \in OnRequest
    BY <1>0, <1>4, Zenon DEF Gate, LocalOK, Redeeming
  <2>2. \/ Goto(t, "cas") /\ UNCHANGED request
        \/ NotApproved(t)
        \/ Say(t, "failed") /\ UNCHANGED request
    BY <1>4, Zenon DEF Gate
  <2>3. LocalTypes' /\ RequestTypes'
    <3>1. CASE Goto(t, "cas") /\ UNCHANGED request
      BY <1>0, <2>1, <3>1, GotoTypes, Zenon DEF Pc, RequestTypes, request
    <3>2. CASE NotApproved(t)
      BY <1>0, <2>1, <3>2, NotApprovedTypes, Zenon
    <3>3. CASE Say(t, "failed") /\ UNCHANGED request
      BY <1>0, <2>1, <3>3, SayTypes, Zenon DEF Outcomes, RequestTypes, request
    <3> QED
      BY <2>2, <3>1, <3>2, <3>3, Zenon
  <2> QED
    BY <1>0, <1>4, <2>3, Zenon DEF Gate, TypeInv, RecordTypes, record, HistoryTypes
<1>5. CASE Consume(t)
  <2>1. pc[t] \in Redeeming /\ pc[t] # "idle" /\ mode[t] \in OnRequest
    BY <1>0, <1>5, Zenon DEF Consume, LocalOK, Redeeming
  <2>2. LocalTypes' /\ RequestTypes'
    <3>1. CASE NotApproved(t)
      BY <1>0, <2>1, <3>1, NotApprovedTypes, Zenon
    <3>2. CASE /\ status' = [status EXCEPT ![cur[t]] = "consumed"]
               /\ Goto(t, "execute")
               /\ UNCHANGED <<decision, overdue, drifted>>
      <4>1. LocalTypes'
        BY <1>0, <2>1, <3>2, GotoTypes, Zenon DEF Pc
      <4> QED
        BY <1>0, <3>2, <4>1, ZenonT(60) DEF RequestTypes
    <3> QED
      BY <1>5, <3>1, <3>2, Zenon DEF Consume
  <2> QED
    BY <1>0, <1>5, <2>2, Zenon DEF Consume, TypeInv, RecordTypes, record, HistoryTypes
<1>6. CASE Execute(t)
  <2>1. pc[t] # "idle" /\ mode[t] \in OnRequest
    BY <1>0, <1>6, Zenon DEF Execute, LocalOK, Redeeming
  <2>2. PICK o \in {"ok", "failed"} : Say(t, o)
    BY <1>6, Zenon DEF Execute
  <2>3. LocalTypes'
    BY <1>0, <2>1, <2>2, SayTypes, Zenon DEF Outcomes
  <2>4. ran' \in [Requests -> Nat]
    BY <1>0, <1>6 DEF Execute, HistoryTypes
  <2> QED
    BY <1>0, <1>6, <2>3, <2>4, Zenon
    DEF Execute, TypeInv, RequestTypes, request, RecordTypes, record, HistoryTypes
<1>7. CASE Report(t)
  <2>1. /\ said[t] \in Outcomes /\ mode[t] \in OnRequest
        /\ pc[t] # "idle" /\ Goto(t, "list")
    BY <1>0, <1>7, Zenon DEF Report, LocalOK
  <2>2. LocalTypes'
    BY <1>0, <2>1, GotoTypes, Zenon DEF Pc
  <2>3. told' \in [Requests -> SUBSET Outcomes]
    BY <1>0, <1>7, <2>1, ZenonT(60) DEF Report, HistoryTypes
  <2> QED
    BY <1>0, <1>7, <2>2, <2>3, Zenon
    DEF Report, TypeInv, RequestTypes, request, RecordTypes, record, HistoryTypes
<1>8. CASE SettleList(t)
  <2>1. mode[t] \in OnRequest /\ cur[t] \in Requests
    BY <1>0, <1>8, Zenon DEF SettleList, LocalOK
  <2>2. LocalTypes'
    <3>1. PICK runs \in SUBSET Runs : todo' = [todo EXCEPT ![t] = runs]
      <4>1. (IF Paused(cur[t], Named) THEN Runs ELSE {Named}) \in SUBSET Runs
        BY <1>0, Zenon
      <4> QED
        BY <1>8, <4>1, ZenonT(60) DEF SettleList
    <3>2. PICK h \in Requests \cup {None} : hold' = [hold EXCEPT ![t] = h]
      BY <1>8, <2>1, ZenonT(60) DEF SettleList
    <3> QED
      BY <1>0, <1>8, <2>1, <3>1, <3>2, Zenon DEF SettleList, LocalTypes, LocalOK, Pc, Redeeming
  <2> QED
    BY <1>0, <1>8, <2>2, Zenon
    DEF SettleList, TypeInv, RequestTypes, request, RecordTypes, record, HistoryTypes
<1>9. CASE SettleMark(t)
  <2>1. mode[t] \in OnRequest /\ cur[t] \in Requests
    BY <1>0, <1>9, Zenon DEF SettleMark, LocalOK
  <2>2. PICK run \in todo[t], l \in {"drop", "mark"} :
           /\ Mark(cur[t], run, "done") \/ UNCHANGED cp
           /\ todo' = [todo EXCEPT ![t] = @ \ {run}]
           /\ pc' = [pc EXCEPT ![t] = l]
    BY <1>9, ZenonT(60) DEF SettleMark
  <2>3. LocalTypes'
    BY <1>0, <1>9, <2>1, <2>2, Zenon DEF SettleMark, LocalTypes, LocalOK, Pc, Redeeming
  <2>4. RecordTypes'
    <3>1. CASE Mark(cur[t], run, "done")
      <4>1. cp' \in [Requests -> [Runs -> {"none", "paused", "done"}]]
        BY <1>0, <3>1, MarkTypes, Zenon
      <4> QED
        BY <1>0, <1>9, <4>1, Zenon DEF SettleMark, RecordTypes
    <3>2. CASE UNCHANGED cp
      BY <1>0, <1>9, <3>2, Zenon DEF SettleMark, RecordTypes
    <3> QED
      BY <2>2, <3>1, <3>2, Zenon
  <2> QED
    BY <1>0, <1>9, <2>3, <2>4, Zenon DEF SettleMark, TypeInv, RequestTypes, request, HistoryTypes
<1>10. CASE SettleDrop(t) \/ SweepCheck(t) \/ SweepDelete(t)
  <2>1. /\ Finish(t) \/ \E l \in {"check", "delete"} : Goto(t, l)
        /\ pc[t] # "idle"
    BY <1>10, ZenonT(60) DEF SettleDrop, SweepCheck, SweepDelete
  <2>2. LocalTypes'
    BY <1>0, <2>1, FinishTypes, GotoTypes, Zenon DEF Pc, Redeeming
  <2>3. RecordTypes'
    BY <1>0, <1>10, Zenon DEF SettleDrop, SweepCheck, SweepDelete, RecordTypes, record
  <2> QED
    BY <1>0, <1>10, <2>2, <2>3, ZenonT(60)
    DEF SettleDrop, SweepCheck, SweepDelete, TypeInv, RequestTypes, request, HistoryTypes
<1> QED
  BY <1>1, <1>2, <1>3, <1>4, <1>5, <1>6, <1>7, <1>8, <1>9, <1>10, Zenon DEF Proceed

\* The steps that start or end a coroutine, and those of nobody's.
LEMMA NextTypes == TypeInv /\ [Next]_vars => TypeInv'
<1> SUFFICES ASSUME TypeInv, [Next]_vars PROVE TypeInv'
  BY Zenon
<1>0. /\ LocalTypes /\ RequestTypes /\ RecordTypes /\ HistoryTypes
      /\ Asked \subseteq Requests
  BY ConstantsAssumption, Zenon DEF TypeInv
<1>1. ASSUME NEW t \in Tasks, Dispatch(t) PROVE TypeInv'
  <2>1. PICK r \in Requests : Create(r) /\ hold' = [hold EXCEPT ![t] = r]
    BY <1>0, <1>1, ZenonT(60) DEF Dispatch
  <2>2. RequestTypes'
    BY <1>0, <2>1, Zenon DEF Create, RequestTypes
  <2>3. LocalTypes'
    BY <1>0, <1>1, <2>1, Zenon DEF Dispatch, LocalTypes, LocalOK, Pc, Redeeming, OnRequest
  <2> QED
    BY <1>0, <1>1, <2>2, <2>3, Zenon DEF Dispatch, TypeInv, RecordTypes, record, HistoryTypes
<1>2. ASSUME NEW t \in Tasks,
             \/ Answer(t) \/ Expire(t) \/ CallerRedeems(t) \/ TurnEnds(t)
             \/ \E r \in Requests : Reconcile(t, r)
      PROVE  TypeInv'
  <2>1. \/ \E r \in Requests : \E m \in {"resume", "caller", "sweep"},
                                  l \in {"claim", "list", "gate"} : Enter(t, m, r, l)
        \/ Enter(t, "turn", None, "check")
    BY <1>2, Zenon DEF Answer, Expire, CallerRedeems, TurnEnds, Reconcile
  <2>2. LocalTypes'
    BY <1>0, <2>1, EnterTypes, Zenon DEF Pc
  <2>3. RequestTypes'
    BY <1>0, <1>2, Zenon
    DEF Answer, Expire, CallerRedeems, TurnEnds, Reconcile, RequestTypes, request
  <2> QED
    BY <1>0, <1>2, <2>2, <2>3, ZenonT(60)
    DEF Answer, Expire, CallerRedeems, TurnEnds, Reconcile, TypeInv, RecordTypes, record,
        HistoryTypes
<1>3. ASSUME NEW t \in Tasks, Crash(t) PROVE TypeInv'
  <2>1. LocalTypes'
    BY <1>0, <1>3, FinishTypes, Zenon DEF Crash
  <2> QED
    BY <1>0, <1>3, <2>1
    DEF Crash, TypeInv, RequestTypes, request, RecordTypes, record, HistoryTypes
<1>4. CASE AnswerTooLate \/ Lapse \/ Drift \/ UNCHANGED vars
  <2>1. RequestTypes'
    BY <1>0, <1>4, Zenon DEF AnswerTooLate, Lapse, Drift, vars, request, RequestTypes
  <2>2. LocalTypes'
    BY <1>0, <1>4, Zenon DEF AnswerTooLate, Lapse, Drift, vars, local, LocalTypes, LocalOK
  <2> QED
    BY <1>0, <1>4, <2>1, <2>2, Zenon
    DEF AnswerTooLate, Lapse, Drift, vars, TypeInv, RecordTypes, record, HistoryTypes
<1> QED
  BY <1>1, <1>2, <1>3, <1>4, ProceedTypes, Zenon DEF Next

\* The type invariant, with the facts on tasks that it needs, is inductive.
THEOREM TypeInvariance == Spec => []TypeInv
<1>1. Init => TypeInv
  <2>1. Init => LocalTypes
    <3>1. Init => /\ pc \in [Tasks -> Pc]
                  /\ cur \in [Tasks -> Requests \cup {None}]
                  /\ hold \in [Tasks -> Requests \cup {None}]
                  /\ said \in [Tasks -> Outcomes \cup {None}]
                  /\ todo \in [Tasks -> SUBSET Runs]
      BY DEF Init, Pc
    <3>2. Init => mode \in [Tasks -> {None, "dispatch", "resume", "caller", "sweep", "turn"}]
      BY Zenon DEF Init
    <3>3. Init => \A t \in Tasks : LocalOK(t)
      BY DEF Init, LocalOK, Redeeming
    <3> QED
      BY <3>1, <3>2, <3>3, Zenon DEF LocalTypes
  <2>2. Init => RequestTypes
    BY Zenon DEF Init, RequestTypes
  <2>3. Init => RecordTypes
    <3>1. [run \in Runs |-> "none"] \in [Runs -> {"none", "paused", "done"}]
      BY Zenon
    <3> QED
      BY <3>1 DEF Init, RecordTypes
  <2>4. Init => HistoryTypes
    <3> SUFFICES ASSUME Init PROVE HistoryTypes
      BY Zenon
    <3>1. turnOver \in BOOLEAN /\ crashes \in Nat
      BY ZenonT(60) DEF Init
    <3>2. ran \in [Requests -> Nat] /\ told \in [Requests -> SUBSET Outcomes]
      BY Zenon DEF Init
    <3> QED
      BY <3>1, <3>2, Zenon DEF HistoryTypes
  <2> QED
    BY <2>1, <2>2, <2>3, <2>4, Zenon DEF TypeInv
<1> QED
  BY <1>1, NextTypes, PTL DEF Spec

\* Every variable keeps its type, and only volatile requests lapse or drift.
THEOREM TypeCorrect == Spec => []TypeOK
<1>1. TypeInv => TypeOK
  BY Zenon DEF TypeInv, LocalTypes, RequestTypes, RecordTypes, HistoryTypes, TypeOK
<1> QED
  BY <1>1, TypeInvariance, PTL
-----------------------------------------------------------------------------
(* Candour.  It rests on the grace window: while a task redeems a request, *)
(* nobody else does.  So what the redeemer found out about the approval is *)
(* still true when it records it.                                          *)

Redeems(t) == pc[t] # "idle" /\ mode[t] \in {"resume", "caller"}

\* Before the consume CAS, and while a re-pended call is written.
Unspent == {"claim", "approved", "read", "gate", "cas", "seal", "root", "child"}

RedeemerOK(t) ==
    /\ pc[t] \in Redeeming \cup {"report"} => Redeems(t)
    /\ Redeems(t) => cur[t] \in Requests /\ status[cur[t]] \in {"answered", "consumed"}
    /\ Redeems(t) /\ pc[t] \in Unspent => status[cur[t]] = "answered"
    /\ pc[t] = "report" => TrueOf(cur[t], said[t])

OneRedeemer ==
    \A t, u \in Tasks : Redeems(t) /\ Redeems(u) /\ cur[t] = cur[u] => t = u

AnswerStored ==
    \A r \in Requests : status[r] = "answered" => decision[r] \in {"approve", "reject"}

CandourInv == (\A t \in Tasks : RedeemerOK(t)) /\ OneRedeemer /\ AnswerStored

\* A step of t that touches no request another task redeems.
Spares(t) ==
    \A u \in Tasks \ {t} : Redeems(u) =>
        /\ status'[cur[u]] = status[cur[u]]
        /\ decision'[cur[u]] = decision[cur[u]]
        /\ ran'[cur[u]] = ran[cur[u]]

\* The other tasks stay where they are.
Stays(u) == pc'[u] = pc[u] /\ mode'[u] = mode[u] /\ cur'[u] = cur[u] /\ said'[u] = said[u]

\* A task that stays, and whose request is spared, is as it was.
LEMMA Spared ==
    ASSUME CandourInv, NEW t \in Tasks, Spares(t), NEW u \in Tasks \ {t}, Stays(u)
    PROVE  RedeemerOK(u)'
<1>1. RedeemerOK(u)
  BY Zenon DEF CandourInv
<1>2. Redeems(u)' <=> Redeems(u)
  BY Zenon DEF Redeems, Stays
<1>3. CASE Redeems(u)
  <2>1. /\ status'[cur'[u]] = status[cur[u]]
        /\ decision'[cur'[u]] = decision[cur[u]]
        /\ ran'[cur'[u]] = ran[cur[u]]
    BY <1>3 DEF Spares, Stays
  <2>2. TrueOf(cur[u], said[u]) => TrueOf(cur[u], said[u])'
    BY <2>1 DEF TrueOf, Stays
  <2> QED
    BY <1>1, <1>2, <1>3, <2>1, <2>2, Zenon DEF RedeemerOK, Stays
<1>4. CASE ~Redeems(u)
  BY <1>1, <1>2, <1>4, Zenon DEF RedeemerOK, Stays
<1> QED
  BY <1>3, <1>4, Zenon

\* A step of one task, from what it does to that task.
LEMMA TaskCandour ==
    ASSUME CandourInv, NEW t \in Tasks, Spares(t), \A u \in Tasks \ {t} : Stays(u),
           AnswerStored', RedeemerOK(t)',
           \/ ~Redeems(t)'
           \/ Redeems(t) /\ cur'[t] = cur[t]
           \/ \A u \in Tasks \ {t} : Redeems(u) => cur[u] # cur'[t]
    PROVE  CandourInv'
<1>1. \A u \in Tasks : RedeemerOK(u)'
  BY Spared, Zenon
<1>2. \A u \in Tasks \ {t} : /\ Redeems(u)' <=> Redeems(u)
                             /\ cur'[u] = cur[u]
  BY Zenon DEF Redeems, Stays
<1>3. \A u \in Tasks \ {t} : Redeems(t)' /\ Redeems(u)' => cur'[u] # cur'[t]
  BY <1>2, Zenon DEF CandourInv, OneRedeemer
<1>4. OneRedeemer'
  <2> SUFFICES ASSUME NEW u \in Tasks, NEW v \in Tasks,
                      Redeems(u)', Redeems(v)', cur'[u] = cur'[v]
               PROVE  u = v
    BY Zenon DEF OneRedeemer
  <2>1. CASE u # t /\ v # t
    BY <1>2, <2>1, Zenon DEF CandourInv, OneRedeemer
  <2> QED
    BY <1>3, <2>1, Zenon
<1> QED
  BY <1>1, <1>4, Zenon DEF CandourInv

\* A task goes on, with the same request.
LEMMA MoveCandour ==
    ASSUME CandourInv, LocalTypes, NEW t \in Tasks, NEW l \in Pc, Spares(t), AnswerStored',
           pc[t] # "idle", l # "idle",
           pc' = [pc EXCEPT ![t] = l], UNCHANGED <<cur, mode>>,
           \A u \in Tasks \ {t} : said'[u] = said[u],
           l \in Redeeming \cup {"report"} => Redeems(t),
           Redeems(t) => status'[cur[t]] \in {"answered", "consumed"},
           Redeems(t) /\ l \in Unspent => status'[cur[t]] = "answered",
           l = "report" => TrueOf(cur[t], said[t])'
    PROVE  CandourInv'
<1>1. pc'[t] = l /\ \A u \in Tasks \ {t} : Stays(u)
  BY Zenon DEF LocalTypes, Stays
<1>2. Redeems(t)' <=> Redeems(t)
  BY <1>1, Zenon DEF Redeems
<1>3. RedeemerOK(t)'
  BY <1>1, <1>2, Zenon DEF RedeemerOK, CandourInv
<1> QED
  BY <1>1, <1>2, <1>3, TaskCandour, Zenon

\* A task ends.
LEMMA FinishCandour ==
    ASSUME CandourInv, LocalTypes, NEW t \in Tasks, Finish(t), Spares(t), AnswerStored'
    PROVE  CandourInv'
<1>1. pc'[t] = "idle" /\ \A u \in Tasks \ {t} : Stays(u)
  BY Zenon DEF LocalTypes, Stays, Finish
<1>2. RedeemerOK(t)' /\ ~Redeems(t)'
  BY <1>1 DEF RedeemerOK, Redeems, Redeeming
<1> QED
  BY <1>1, <1>2, TaskCandour, Zenon

\* A task has its outcome, and the outcome is true.
LEMMA SayCandour ==
    ASSUME CandourInv, LocalTypes, NEW t \in Tasks, NEW o, Say(t, o), Spares(t), AnswerStored',
           pc[t] # "idle",
           Redeems(t) => status'[cur[t]] \in {"answered", "consumed"},
           mode[t] = "resume" => TrueOf(cur[t], o)'
    PROVE  CandourInv'
<1>1. CASE mode[t] = "resume"
  <2>1. /\ pc' = [pc EXCEPT ![t] = "report"] /\ UNCHANGED <<cur, mode>>
        /\ said' = [said EXCEPT ![t] = o]
    BY <1>1, Zenon DEF Say
  <2>2. said'[t] = o /\ \A u \in Tasks \ {t} : said'[u] = said[u]
    BY <2>1, Zenon DEF LocalTypes
  <2>3. TrueOf(cur[t], said[t])'
    BY <1>1, <2>2 DEF TrueOf
  <2>4. Redeems(t) /\ "report" \in Pc \ {"idle"} /\ "report" \notin Unspent
    BY <1>1 DEF Redeems, Pc, Unspent
  <2> QED
    BY <2>1, <2>2, <2>3, <2>4, MoveCandour, Zenon
<1>2. CASE Finish(t)
  BY <1>2, FinishCandour, Zenon
<1>3. CASE Goto(t, "list")
  <2>1. "list" \in Pc \ {"idle"} /\ "list" \notin Unspent /\ "list" \notin Redeeming \cup {"report"}
    BY DEF Pc, Unspent, Redeeming
  <2> QED
    BY <1>3, <2>1, MoveCandour, Zenon DEF Goto
<1> QED
  BY <1>1, <1>2, <1>3, Zenon DEF Say

\* A task starts: on nothing to redeem, or on an answer nobody else redeems.
LEMMA EnterCandour ==
    ASSUME CandourInv, LocalTypes, NEW t \in Tasks, NEW m, NEW r, NEW l, Enter(t, m, r, l),
           Spares(t), AnswerStored',
           \/ m \notin {"resume", "caller"} /\ l \notin Redeeming \cup {"report"}
           \/ /\ m \in {"resume", "caller"} /\ l # "report" /\ l # "idle"
              /\ r \in Requests /\ status'[r] = "answered"
              /\ \A u \in Tasks : Redeems(u) => cur[u] # r
    PROVE  CandourInv'
<1>1. /\ pc'[t] = l /\ mode'[t] = m /\ cur'[t] = r
      /\ \A u \in Tasks \ {t} : Stays(u)
  BY Zenon DEF LocalTypes, Stays, Enter
<1>2. RedeemerOK(t)'
  BY <1>1, Zenon DEF RedeemerOK, Redeems
<1>3. Redeems(t)' => \A u \in Tasks \ {t} : Redeems(u) => cur[u] # cur'[t]
  BY <1>1, Zenon DEF Redeems
<1> QED
  BY <1>1, <1>2, <1>3, TaskCandour, Zenon

\* Leaving the requests and the executions alone spares everybody.
LEMMA AloneSpares ==
    ASSUME CandourInv, UNCHANGED <<status, decision, ran>>
    PROVE  AnswerStored' /\ \A t \in Tasks : Spares(t)
BY Zenon DEF CandourInv, AnswerStored, Spares

\* So does a step on a request that is not answered yet.
LEMMA OpenSpares ==
    ASSUME CandourInv, RequestTypes, NEW r \in Requests, status[r] \in {"none", "pending"}, NEW s,
           status' = [status EXCEPT ![r] = s], UNCHANGED ran,
           \/ UNCHANGED decision /\ s # "answered"
           \/ \E d \in {"approve", "reject"} : decision' = [decision EXCEPT ![r] = d]
    PROVE  /\ AnswerStored'
           /\ \A u \in Tasks : Redeems(u) => /\ cur[u] # r
                                             /\ status'[cur[u]] = status[cur[u]]
           /\ \A t \in Tasks : Spares(t)
<1>1. \A u \in Tasks : Redeems(u) => cur[u] \in Requests /\ cur[u] # r
  BY DEF CandourInv, RedeemerOK
<1>2. \A q \in Requests : q # r => status'[q] = status[q] /\ decision'[q] = decision[q]
  BY Zenon DEF RequestTypes
<1>3. AnswerStored'
  <2>1. status'[r] = "answered" => decision'[r] \in {"approve", "reject"}
    BY ZenonT(60) DEF RequestTypes
  <2> QED
    BY <1>2, <2>1, Zenon DEF CandourInv, AnswerStored
<1> QED
  BY <1>1, <1>2, <1>3, Zenon DEF Spares

\* The gate refuses: the approval is unspent, so the call is held again.
LEMMA NotApprovedCandour ==
    ASSUME CandourInv, TypeInv, NEW t \in Tasks, pc[t] \in {"gate", "cas"}, NotApproved(t),
           UNCHANGED ran
    PROVE  CandourInv'
<1>0. LocalTypes /\ RequestTypes
  BY Zenon DEF TypeInv
<1>1. /\ Redeems(t) /\ cur[t] \in Requests /\ status[cur[t]] = "answered"
  BY Zenon DEF CandourInv, RedeemerOK, Redeeming, Unspent
<1>2. /\ \E n \in Requests \ Asked : Create(n)
      /\ pc' = [pc EXCEPT ![t] = "seal"] /\ UNCHANGED <<cur, mode, said>>
  BY <1>1 DEF NotApproved
<1>3. PICK n \in Requests : Create(n)
  BY <1>2, Zenon
<1>4. AnswerStored' /\ Spares(t) /\ status'[cur[t]] = "answered"
  BY <1>0, <1>1, <1>3, OpenSpares, Zenon DEF Create
<1>5. "seal" \in Pc \ {"idle"} /\ "seal" \notin Redeeming \cup {"report"} /\ pc[t] # "idle"
  BY DEF Pc, Redeeming
<1> QED
  BY <1>0, <1>1, <1>2, <1>4, <1>5, MoveCandour, Zenon

\* The steps of a started coroutine.
LEMMA ProceedCandour ==
    ASSUME CandourInv, TypeInv, IndInv, NEW t \in Tasks, Proceed(t)
    PROVE  CandourInv'
<1>0. LocalTypes /\ RequestTypes /\ RedeemerOK(t) /\ RanInv
  BY Zenon DEF TypeInv, CandourInv, IndInv
<1>1. CASE WriteSeal(t) \/ WriteRoot(t) \/ WriteChild(t)
  <2>1. /\ pc[t] \in {"seal", "root", "child"} /\ UNCHANGED <<status, decision, ran>>
        /\ (\E l \in {"root", "child"} : Goto(t, l)) \/ Finish(t) \/ Say(t, "re_pended")
    BY <1>1, ZenonT(60) DEF WriteSeal, WriteRoot, WriteChild, HoldRecorded, request
  <2>2. AnswerStored' /\ Spares(t)
    BY <2>1, AloneSpares, Zenon
  <2>3. /\ pc[t] # "idle"
        /\ Redeems(t) => cur[t] \in Requests /\ status'[cur[t]] = "answered"
    BY <1>0, <2>1, Zenon DEF RedeemerOK, Unspent
  <2>4. CASE \E l \in {"root", "child"} : Goto(t, l)
    <3>1. PICK l \in {"root", "child"} : Goto(t, l)
      BY <2>4, Zenon
    <3>2. l \in Pc /\ l # "idle" /\ l \notin Redeeming \cup {"report"}
      BY DEF Pc, Redeeming
    <3> QED
      BY <1>0, <2>2, <2>3, <3>1, <3>2, MoveCandour, Zenon DEF Goto
  <2>5. CASE Say(t, "re_pended")
    <3>1. mode[t] = "resume" => ran[cur[t]] = 0 /\ cur' = cur
      BY <1>0, <2>1, <2>3, <2>5 DEF Redeems, Say, RanInv, TypeInv, HistoryTypes
    <3>2. mode[t] = "resume" => TrueOf(cur[t], "re_pended")'
      BY <2>1, <2>3, <3>1 DEF TrueOf, Redeems
    <3> QED
      BY <1>0, <2>2, <2>3, <2>5, <3>2, SayCandour, Zenon
  <2> QED
    BY <1>0, <2>1, <2>2, <2>4, <2>5, FinishCandour, Zenon
<1>2. CASE Claim(t) \/ IsApproved(t) \/ ReadHeld(t)
  <2>1. /\ pc[t] \in {"claim", "approved", "read"} /\ UNCHANGED <<status, decision, ran>>
        /\ \/ \E l \in {"approved", "read", "gate"} : Goto(t, l)
           \/ Finish(t)
           \/ Say(t, "unreadable")
           \/ Say(t, "declined") /\ ~(status[cur[t]] = "answered" /\ decision[cur[t]] = "approve")
    BY <1>2, ZenonT(60) DEF Claim, IsApproved, ReadHeld, request
  <2>2. AnswerStored' /\ Spares(t)
    BY <2>1, AloneSpares, Zenon
  <2>3. /\ pc[t] # "idle" /\ Redeems(t) /\ cur[t] \in Requests
        /\ status[cur[t]] = "answered" /\ status'[cur[t]] = "answered"
    BY <1>0, <2>1, Zenon DEF RedeemerOK, Unspent, Redeeming
  <2>4. CASE \E l \in {"approved", "read", "gate"} : Goto(t, l)
    <3>1. PICK l \in {"approved", "read", "gate"} : Goto(t, l)
      BY <2>4, Zenon
    <3>2. l \in Pc /\ l # "idle" /\ l # "report"
      BY DEF Pc
    <3> QED
      BY <1>0, <2>2, <2>3, <3>1, <3>2, MoveCandour, Zenon DEF Goto
  <2>5. ASSUME NEW o \in {"unreadable", "declined"}, Say(t, o),
               o = "declined" => decision[cur[t]] # "approve"
        PROVE  CandourInv'
    <3>1. ran[cur[t]] = 0 /\ decision[cur[t]] \in {"approve", "reject"}
      BY <1>0, <2>3 DEF RanInv, TypeInv, HistoryTypes, CandourInv, AnswerStored
    <3>2. mode[t] = "resume" => cur' = cur
      BY <2>5, Zenon DEF Say
    <3>3. mode[t] = "resume" => TrueOf(cur[t], o)'
      BY <2>1, <2>3, <2>5, <3>1, <3>2 DEF TrueOf
    <3> QED
      BY <1>0, <2>2, <2>3, <2>5, <3>3, SayCandour, Zenon
  <2>6. CASE Finish(t)
    BY <1>0, <2>2, <2>6, FinishCandour, Zenon
  <2> QED
    BY <2>1, <2>3, <2>4, <2>5, <2>6, Zenon
<1>3. CASE Gate(t)
  <2>1. pc[t] = "gate" /\ UNCHANGED ran
    BY <1>3, Zenon DEF Gate
  <2>2. pc[t] # "idle" /\ Redeems(t) /\ cur[t] \in Requests /\ status[cur[t]] = "answered"
    BY <1>0, <2>1, Zenon DEF RedeemerOK, Unspent, Redeeming
  <2>3. CASE NotApproved(t)
    BY <2>1, <2>3, NotApprovedCandour, Zenon
  <2>4. CASE Goto(t, "cas") /\ UNCHANGED request
    <3>1. UNCHANGED <<status, decision, ran>>
      BY <2>1, <2>4, Zenon DEF request
    <3>2. "cas" \in Pc /\ "cas" # "idle" /\ "cas" # "report"
      BY DEF Pc
    <3> QED
      BY <1>0, <2>2, <2>4, <3>1, <3>2, AloneSpares, MoveCandour, Zenon DEF Goto
  <2>5. CASE Say(t, "failed") /\ UNCHANGED request
    <3>1. UNCHANGED <<status, decision, ran>>
      BY <2>1, <2>5, Zenon DEF request
    <3>2. TrueOf(cur[t], "failed")'
      BY DEF TrueOf
    <3> QED
      BY <1>0, <2>2, <2>5, <3>1, <3>2, AloneSpares, SayCandour, Zenon
  <2> QED
    BY <1>3, <2>3, <2>4, <2>5, Zenon DEF Gate
<1>4. CASE Consume(t)
  <2>1. pc[t] = "cas" /\ UNCHANGED ran
    BY <1>4, Zenon DEF Consume
  <2>2. pc[t] # "idle" /\ Redeems(t) /\ cur[t] \in Requests /\ status[cur[t]] = "answered"
    BY <1>0, <2>1, Zenon DEF RedeemerOK, Unspent, Redeeming
  <2>3. /\ status' = [status EXCEPT ![cur[t]] = "consumed"]
        /\ Goto(t, "execute") /\ UNCHANGED decision
    BY <1>4, <2>2, Zenon DEF Consume
  <2>4. /\ status'[cur[t]] = "consumed"
        /\ \A r \in Requests : r # cur[t] => status'[r] = status[r]
    BY <1>0, <2>2, <2>3, Zenon DEF RequestTypes
  <2>5. AnswerStored'
    BY <2>3, <2>4 DEF CandourInv, AnswerStored
  <2>6. Spares(t)
    BY <2>1, <2>2, <2>3, <2>4, Zenon DEF CandourInv, OneRedeemer, RedeemerOK, Spares
  <2>7. "execute" \in Pc /\ "execute" # "idle" /\ "execute" # "report" /\ "execute" \notin Unspent
    BY DEF Pc, Unspent
  <2> QED
    BY <1>0, <2>2, <2>3, <2>4, <2>5, <2>6, <2>7, MoveCandour, Zenon DEF Goto
<1>5. CASE Execute(t)
  <2>1. pc[t] = "execute" /\ UNCHANGED <<status, decision>>
    BY <1>5, Zenon DEF Execute, request
  <2>2. /\ pc[t] # "idle" /\ Redeems(t) /\ cur[t] \in Requests
        /\ status'[cur[t]] \in {"answered", "consumed"} /\ ran[cur[t]] = 0
    BY <1>0, <2>1, Zenon DEF RedeemerOK, Redeeming, IndInv, ExecutorInv
  <2>3. AnswerStored'
    BY <2>1, Zenon DEF CandourInv, AnswerStored
  <2>4. \A r \in Requests : r # cur[t] => ran'[r] = ran[r]
    BY <1>5, Zenon DEF Execute, TypeInv, HistoryTypes
  <2>5. Spares(t)
    BY <2>1, <2>2, <2>4, Zenon DEF CandourInv, OneRedeemer, RedeemerOK, Spares
  <2>6. PICK o \in {"ok", "failed"} : Say(t, o) /\ (o = "ok" => ran' = [ran EXCEPT ![cur[t]] = @ + 1])
    BY <1>5, Zenon DEF Execute
  <2>7. mode[t] = "resume" => TrueOf(cur[t], o)'
    <3>1. mode[t] = "resume" => cur' = cur
      BY <2>6, Zenon DEF Say
    <3>2. o = "ok" => ran'[cur[t]] = 1
      BY <2>2, <2>6 DEF TypeInv, HistoryTypes
    <3> QED
      BY <3>1, <3>2 DEF TrueOf
  <2> QED
    BY <1>0, <2>2, <2>3, <2>5, <2>6, <2>7, SayCandour, Zenon
<1>6. CASE \/ Report(t) \/ SettleList(t) \/ SettleMark(t) \/ SettleDrop(t)
           \/ SweepCheck(t) \/ SweepDelete(t)
  <2>1. /\ pc[t] \in {"report", "list", "mark", "drop", "check", "delete"}
        /\ UNCHANGED <<status, decision, ran>>
        /\ \/ Finish(t)
           \/ \E l \in {"list", "mark", "drop", "check", "delete"} :
                 pc' = [pc EXCEPT ![t] = l] /\ UNCHANGED <<cur, mode, said>>
    BY <1>6, ZenonT(60) DEF Report, SettleList, SettleMark, SettleDrop, SweepCheck, SweepDelete,
                            Goto, request
  <2>2. AnswerStored' /\ Spares(t)
    BY <2>1, AloneSpares, Zenon
  <2>3. CASE Finish(t)
    BY <1>0, <2>2, <2>3, FinishCandour, Zenon
  <2>4. CASE \E l \in {"list", "mark", "drop", "check", "delete"} :
                 pc' = [pc EXCEPT ![t] = l] /\ UNCHANGED <<cur, mode, said>>
    <3>1. PICK l \in {"list", "mark", "drop", "check", "delete"} :
             pc' = [pc EXCEPT ![t] = l] /\ UNCHANGED <<cur, mode, said>>
      BY <2>4, Zenon
    <3>2. l \in Pc \ (Redeeming \cup {"report", "idle"}) /\ l \notin Unspent
      BY DEF Pc, Redeeming, Unspent
    <3>3. pc[t] # "idle" /\ (Redeems(t) => status'[cur[t]] \in {"answered", "consumed"})
      BY <1>0, <2>1, Zenon DEF RedeemerOK
    <3> QED
      BY <1>0, <2>2, <3>1, <3>2, <3>3, MoveCandour, Zenon
  <2> QED
    BY <2>1, <2>3, <2>4, Zenon
<1> QED
  BY <1>1, <1>2, <1>3, <1>4, <1>5, <1>6, Zenon DEF Proceed

\* With the grace window nobody starts to redeem what another task redeems.
LEMMA NextCandour ==
    ASSUME Grace, CandourInv, TypeInv, IndInv, [Next]_vars PROVE CandourInv'
<1>0. LocalTypes /\ RequestTypes /\ Asked \subseteq Requests
  BY ConstantsAssumption, Zenon DEF TypeInv
<1>1. ASSUME NEW t \in Tasks, Dispatch(t) PROVE CandourInv'
  <2>1. PICK r \in Requests : Create(r)
    BY <1>0, <1>1, ZenonT(60) DEF Dispatch
  <2>2. AnswerStored' /\ Spares(t)
    BY <1>0, <1>1, <2>1, OpenSpares, Zenon DEF Create, Dispatch
  <2>3. /\ pc'[t] = "seal" /\ mode'[t] = "dispatch"
        /\ \A u \in Tasks \ {t} : Stays(u)
    BY <1>0, <1>1, Zenon DEF Dispatch, LocalTypes, Stays
  <2>4. RedeemerOK(t)' /\ ~Redeems(t)'
    BY <2>3 DEF RedeemerOK, Redeems, Redeeming
  <2> QED
    BY <2>2, <2>3, <2>4, TaskCandour, Zenon
<1>2. ASSUME NEW t \in Tasks, Answer(t) PROVE CandourInv'
  <2>1. PICK r \in Requests, d \in {"approve", "reject"} :
           /\ status[r] = "pending"
           /\ status' = [status EXCEPT ![r] = "answered"]
           /\ decision' = [decision EXCEPT ![r] = d]
           /\ Enter(t, "resume", r, "claim")
    BY <1>2, ZenonT(60) DEF Answer
  <2>2. /\ AnswerStored' /\ Spares(t)
        /\ \A u \in Tasks : Redeems(u) => cur[u] # r
    BY <1>0, <1>2, <2>1, OpenSpares, Zenon DEF Answer
  <2>3. status'[r] = "answered"
    BY <1>0, <2>1, Zenon DEF RequestTypes
  <2> QED
    BY <1>0, <2>1, <2>2, <2>3, EnterCandour, Zenon
<1>3. ASSUME NEW t \in Tasks, Expire(t) PROVE CandourInv'
  <2>1. PICK r \in Requests : /\ status[r] = "pending"
                              /\ status' = [status EXCEPT ![r] = "timed_out"]
                              /\ Enter(t, "sweep", r, "list")
    BY <1>3, ZenonT(60) DEF Expire
  <2>2. AnswerStored' /\ Spares(t)
    BY <1>0, <1>3, <2>1, OpenSpares, Zenon DEF Expire
  <2>3. "list" \notin Redeeming \cup {"report"}
    BY DEF Redeeming
  <2> QED
    BY <1>0, <2>1, <2>2, <2>3, EnterCandour, Zenon
<1>4. ASSUME NEW t \in Tasks, CallerRedeems(t) \/ \E r \in Requests : Reconcile(t, r)
      PROVE  CandourInv'
  <2>1. UNCHANGED <<status, decision, ran>>
    BY <1>4, Zenon DEF CallerRedeems, Reconcile, request
  <2>2. PICK r \in Requests : /\ status[r] = "answered" /\ Free(r)
                              /\ Enter(t, "caller", r, "gate") \/ Enter(t, "resume", r, "claim")
    BY <1>4, ZenonT(60) DEF CallerRedeems, Reconcile
  <2>3. \A u \in Tasks : Redeems(u) => cur[u] # r
    BY <2>2, Zenon DEF Free, Redeemed, Redeems
  <2> QED
    BY <1>0, <2>1, <2>2, <2>3, AloneSpares, EnterCandour, Zenon
<1>5. ASSUME NEW t \in Tasks, TurnEnds(t) PROVE CandourInv'
  <2>1. UNCHANGED <<status, decision, ran>> /\ Enter(t, "turn", None, "check")
    BY <1>5, Zenon DEF TurnEnds, request
  <2>2. "check" \notin Redeeming \cup {"report"}
    BY DEF Redeeming
  <2> QED
    BY <1>0, <2>1, <2>2, AloneSpares, EnterCandour, Zenon
<1>6. ASSUME NEW t \in Tasks, Crash(t) PROVE CandourInv'
  <2>1. UNCHANGED <<status, decision, ran>> /\ Finish(t)
    BY <1>6, Zenon DEF Crash, request
  <2> QED
    BY <1>0, <2>1, AloneSpares, FinishCandour, Zenon
<1>7. CASE AnswerTooLate \/ Lapse \/ Drift \/ UNCHANGED vars
  <2>1. UNCHANGED local /\ UNCHANGED <<decision, ran>>
    BY <1>7, Zenon DEF AnswerTooLate, Lapse, Drift, vars, request
  <2>2. /\ AnswerStored'
        /\ \A u \in Tasks : Redeems(u) => status'[cur[u]] = status[cur[u]]
    <3>1. CASE UNCHANGED status
      BY <2>1, <3>1, AloneSpares, Zenon
    <3>2. CASE AnswerTooLate
      <4>1. PICK r \in Requests : /\ status[r] = "pending"
                                  /\ status' = [status EXCEPT ![r] = "timed_out"]
        BY <3>2, ZenonT(60) DEF AnswerTooLate
      <4> QED
        BY <1>0, <2>1, <4>1, OpenSpares, Zenon
    <3> QED
      BY <1>7, <3>1, <3>2, Zenon DEF Lapse, Drift, vars, request
  <2>3. \A u \in Tasks : Redeems(u)' <=> Redeems(u)
    BY <2>1, Zenon DEF local, Redeems
  <2>4. OneRedeemer'
    BY <2>1, <2>3, Zenon DEF local, CandourInv, OneRedeemer
  <2>5. ASSUME NEW u \in Tasks PROVE RedeemerOK(u)'
    <3>1. RedeemerOK(u)
      BY Zenon DEF CandourInv
    <3>2. TrueOf(cur[u], said[u]) /\ Redeems(u) => TrueOf(cur[u], said[u])'
      BY <2>1, <2>2 DEF TrueOf, local
    <3> QED
      BY <2>1, <2>2, <2>3, <3>1, <3>2, Zenon DEF RedeemerOK, local
  <2> QED
    BY <2>2, <2>4, <2>5, Zenon DEF CandourInv
<1> QED
  BY <1>1, <1>2, <1>3, <1>4, <1>5, <1>6, <1>7, ProceedCandour, Zenon DEF Next

\* With the grace window, what resume_held_write records of a redemption is
\* what happened to the write: it ran once, a human refused it, or the approval
\* is still unspent.
THEOREM CandourHolds == ASSUME Grace PROVE Spec => Candour
<1>1. Init => CandourInv
  BY DEF Init, CandourInv, RedeemerOK, OneRedeemer, AnswerStored, Redeems, Redeeming
<1>2. CandourInv /\ TypeInv /\ IndInv /\ [Next]_vars => CandourInv'
  BY NextCandour, Zenon
<1>3. CandourInv /\ TypeInv /\ [Next]_vars =>
          [\A r \in Requests : \A o \in told'[r] \ told[r] : TrueOf(r, o)]_vars
  <2> SUFFICES ASSUME CandourInv, TypeInv, [Next]_vars,
                      NEW r \in Requests, NEW o \in told'[r] \ told[r]
               PROVE  TrueOf(r, o)
    BY Zenon
  <2>1. PICK t \in Tasks : Report(t)
    <3>1. told' # told
      BY Zenon
    <3> QED
      BY <3>1, ZenonT(60)
      DEF Next, Proceed, Dispatch, Answer, Expire, CallerRedeems, TurnEnds, Crash, Reconcile,
          AnswerTooLate, Lapse, Drift, vars, WriteSeal, WriteRoot, WriteChild, Claim, IsApproved,
          ReadHeld, Gate, Consume, Execute, SettleList, SettleMark, SettleDrop, SweepCheck,
          SweepDelete
  <2>2. r = cur[t] /\ o = said[t] /\ pc[t] = "report"
    BY <2>1, ZenonT(60) DEF Report, TypeInv, HistoryTypes
  <2> QED
    BY <2>2, Zenon DEF CandourInv, RedeemerOK
<1> QED
  BY <1>1, <1>2, <1>3, Invariance, TypeInvariance, PTL DEF Spec, Candour
=============================================================================
