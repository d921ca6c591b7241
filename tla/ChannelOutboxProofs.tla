------------------------- MODULE ChannelOutboxProofs -------------------------
(***************************************************************************)
(* At most one gateway holds an unexpired claim, delivered rows were sent  *)
(* and are final, and the type invariant, for any number of gateways,      *)
(* tokens and messages, any leases in the code's order and any number of   *)
(* lost calls, crashes and rotations.                                      *)
(***************************************************************************)
EXTENDS ChannelOutbox, TLAPS

\* The part of the type invariant the argument needs.
Shape ==
    /\ owner = [token |-> owner.token, left |-> owner.left]
    /\ owner.left \in Int
    /\ token \in [Sidecars -> Tokens]
    /\ bearer \in [Sidecars -> Tokens \union {NoToken}]
    /\ pc \in [Sidecars -> Spots]
    /\ held \in [Sidecars -> Int]
    /\ \A s \in Sidecars : held[s] >= Expired /\ held[s] <= OutboxLease
    /\ \A s \in Sidecars : pc[s] \in {"idle", "claim"} => held[s] = Expired

\* A token is one sidecar's: no other has it loaded or claimed with it.  Tokens
\* are numbered as they are minted, so a fresh one is beyond all of these.
TokensApart ==
    /\ \A s \in Sidecars : bearer[s] <= token[s]
    /\ \A s, u \in Sidecars : s # u =>
          /\ token[s] # token[u]
          /\ bearer[s] # token[u]
          /\ bearer[s] = bearer[u] => bearer[s] = NoToken

\* The owner check of a claim link: its token owns the channel for longer than
\* the claim will last, and for as long as a granted claim does last.
OwnerOutlasts ==
    \A s \in Sidecars :
        /\ pc[s] = "claim" => /\ bearer[s] # NoToken
                              /\ owner.token = bearer[s]
                              /\ owner.left > OutboxLease
        /\ held[s] >= 0 => /\ bearer[s] # NoToken
                           /\ owner.token = bearer[s]
                           /\ owner.left > held[s]

IndInv == Shape /\ TokensApart /\ OwnerOutlasts

-----------------------------------------------------------------------------

LEMMA InitInv == Init => IndInv
<1> SUFFICES ASSUME Init PROVE IndInv
  BY Zenon
<1> USE ChannelOutboxAssumption DEF NoToken, Expired
<1>1. Shape
  BY DEF Init, Shape, Spots
<1>2. TokensApart
  <2>1. \A s \in Sidecars : token[s] \in Nat \ {0} /\ bearer[s] = 0
    BY ZenonT(60) DEF Init
  <2>2. \A s, u \in Sidecars : s # u => token[s] # token[u]
    BY Zenon DEF Init
  <2> QED BY <2>1, <2>2 DEF TokensApart
<1>3. OwnerOutlasts
  BY DEF Init, OwnerOutlasts
<1> QED BY <1>1, <1>2, <1>3, Zenon DEF IndInv

\* Elect: while a claim is under way or lives, only its own token can renew,
\* and a renewal leaves more time than any claim has.
LEMMA ElectKeeps ==
    ASSUME IndInv, NEW s \in Sidecars, Elect(token[s]),
           UNCHANGED <<token, bearer, pc, held>>
    PROVE  IndInv'
<1> USE ChannelOutboxAssumption DEF NoToken, Expired
<1>1. owner' = [token |-> token[s], left |-> OwnerLease] \/ owner' = owner
  BY Zenon DEF Elect
<1>2. Shape'
  BY <1>1 DEF IndInv, Shape
<1>3. TokensApart'
  BY Zenon DEF IndInv, TokensApart
<1>4. OwnerOutlasts'
  <2>1. CASE owner' = owner
    BY <2>1, Zenon DEF IndInv, OwnerOutlasts
  <2>2. CASE owner' # owner
    <3>1. /\ owner' = [token |-> token[s], left |-> OwnerLease]
          /\ owner.token = token[s] \/ owner.left <= 0
      BY <2>2, Zenon DEF Elect, Electable
    <3>2. ASSUME NEW u \in Sidecars, pc[u] = "claim" \/ held[u] >= 0
          PROVE  u = s /\ owner.token = token[s]
      BY <3>1, <3>2 DEF IndInv, Shape, TokensApart, OwnerOutlasts
    <3> QED
      BY <3>1, <3>2 DEF IndInv, Shape, OwnerOutlasts
  <2> QED BY <2>1, <2>2, Zenon
<1> QED BY <1>2, <1>3, <1>4, Zenon DEF IndInv

\* A step that leaves the ownership, the tokens and the claims alone.
LEMMA QuietKeeps ==
    ASSUME IndInv, UNCHANGED <<owner, token, bearer, held>>,
           pc' \in [Sidecars -> Spots],
           \A s \in Sidecars : /\ pc'[s] = "claim" => pc[s] = "claim"
                               /\ pc'[s] = "idle" => pc[s] = "idle"
    PROVE  IndInv'
BY Zenon DEF IndInv, Shape, TokensApart, OwnerOutlasts

\* A sidecar that drops or finishes its batch.
LEMMA LeaveKeeps ==
    ASSUME IndInv, NEW s \in Sidecars, UNCHANGED <<owner, token>>,
           pc' = [pc EXCEPT ![s] = "idle"],
           held' = [held EXCEPT ![s] = Expired],
           bearer' = [bearer EXCEPT ![s] = NoToken]
    PROVE  IndInv'
BY ChannelOutboxAssumption
DEF IndInv, Shape, TokensApart, OwnerOutlasts, NoToken, Expired, Spots

LEMMA PollKeeps ==
    ASSUME IndInv, NEW s \in Sidecars, Poll(s) PROVE IndInv'
BY ChannelOutboxAssumption
DEF Poll, Owns, IndInv, Shape, TokensApart, OwnerOutlasts, NoToken, Expired, Spots

LEMMA ClaimKeeps ==
    ASSUME IndInv, NEW s \in Sidecars, Claim(s) PROVE IndInv'
<1>1. CASE Claimed = <<>>
  BY <1>1, LeaveKeeps, ZenonT(60) DEF Claim
<1>2. CASE Claimed # <<>>
  <2>1. /\ pc[s] = "claim" /\ UNCHANGED <<owner, token>>
        /\ pc' = [pc EXCEPT ![s] = "settle"]
        /\ held' = [held EXCEPT ![s] = OutboxLease]
        /\ bearer' = bearer
    BY <1>2, Zenon DEF Claim, IndInv, Shape
  <2> QED
    BY <2>1, ChannelOutboxAssumption
    DEF IndInv, Shape, TokensApart, OwnerOutlasts, NoToken, Expired, Spots
<1> QED BY <1>1, <1>2, Zenon

LEMMA AdvanceKeeps ==
    ASSUME IndInv, NEW s \in Sidecars, pc[s] \in {"ack", "fail"}, Advance(s),
           UNCHANGED <<owner, token>>
    PROVE  IndInv'
<1>1. CASE Len(batch[s]) = 1
  BY <1>1, LeaveKeeps, ZenonT(60) DEF Advance
<1>2. CASE Len(batch[s]) # 1
  <2>1. /\ pc' = [pc EXCEPT ![s] = "settle"]
        /\ UNCHANGED <<held, bearer>>
    BY <1>2, Zenon DEF Advance, IndInv, Shape
  <2> QED
    BY <2>1, QuietKeeps, Zenon DEF IndInv, Shape, Spots
<1> QED BY <1>1, <1>2, Zenon

\* Tick: a claim and the ownership under it run down together, and no time
\* passes between the owner check and the claim.
LEMMA TickKeeps == ASSUME IndInv, Tick PROVE IndInv'
<1> USE ChannelOutboxAssumption DEF NoToken, Expired
<1>1. /\ \A s \in Sidecars : pc[s] # "claim"
      /\ owner' = [token |-> owner.token, left |-> Sooner(owner.left)]
      /\ held' = [s \in Sidecars |-> Sooner(held[s])]
      /\ UNCHANGED <<token, bearer, pc>>
  BY ZenonT(60) DEF Tick, IndInv, Shape
<1>2. Shape'
  BY <1>1 DEF IndInv, Shape, Sooner
<1>3. TokensApart'
  BY <1>1, Zenon DEF IndInv, TokensApart
<1>4. OwnerOutlasts'
  BY <1>1 DEF IndInv, Shape, OwnerOutlasts, Sooner
<1> QED BY <1>2, <1>3, <1>4, Zenon DEF IndInv

LEMMA RotateKeeps ==
    ASSUME IndInv, NEW s \in Sidecars, RotateToken(s) PROVE IndInv'
<1>1. PICK t \in Tokens : /\ \A u \in Sidecars : token[u] < t
                          /\ token' = [token EXCEPT ![s] = t]
  BY ZenonT(60) DEF RotateToken
<1>2. UNCHANGED <<owner, bearer, pc, held>>
  BY Zenon DEF RotateToken
<1>3. t \in Nat /\ \A u \in Sidecars : token[u] \in Nat /\ bearer[u] \in Nat
  BY ChannelOutboxAssumption DEF IndInv, Shape, NoToken
<1>4. TokensApart'
  BY <1>1, <1>2, <1>3 DEF IndInv, Shape, TokensApart
<1> QED
  BY <1>1, <1>2, <1>4, Zenon DEF IndInv, Shape, OwnerOutlasts

LEMMA NextInv == IndInv /\ [Next]_vars => IndInv'
<1> SUFFICES ASSUME IndInv, [Next]_vars PROVE IndInv'
  BY Zenon
<1>1. ASSUME NEW s \in Sidecars, Reconcile(s) PROVE IndInv'
  <2>1. CASE enabled
    BY <1>1, <2>1, ElectKeeps, Zenon DEF Reconcile
  <2>2. CASE ~enabled
    BY <1>1, <2>2, QuietKeeps, Zenon DEF Reconcile, IndInv, Shape
  <2> QED BY <2>1, <2>2, Zenon
<1>2. ASSUME NEW s \in Sidecars, ReconcileUnanswered(s) PROVE IndInv'
  BY <1>2, ElectKeeps, Zenon DEF ReconcileUnanswered
<1>3. ASSUME NEW s \in Sidecars, AdapterUp(s) PROVE IndInv'
  BY <1>3, QuietKeeps, Zenon DEF AdapterUp, IndInv, Shape
<1>4. ASSUME NEW s \in Sidecars, ClaimUnanswered(s) PROVE IndInv'
  <2>1. held' = [held EXCEPT ![s] = Expired]
    BY <1>4, Zenon DEF ClaimUnanswered, IndInv, Shape
  <2> QED
    BY <1>4, <2>1, LeaveKeeps, ZenonT(60) DEF ClaimUnanswered
<1>5. ASSUME NEW s \in Sidecars, TakeAdapter(s) PROVE IndInv'
  BY <1>5, QuietKeeps, Zenon DEF TakeAdapter, IndInv, Shape, Spots
<1>6. ASSUME NEW s \in Sidecars, Deliver(s) PROVE IndInv'
  BY <1>6, QuietKeeps, Zenon DEF Deliver, IndInv, Shape, Spots
<1>7. ASSUME NEW s \in Sidecars, Report(s) \/ ReportLate(s) PROVE IndInv'
  BY <1>7, AdvanceKeeps, Zenon DEF Report, ReportLate
<1>8. ASSUME NEW s \in Sidecars, Crash(s) PROVE IndInv'
  BY <1>8, LeaveKeeps, ZenonT(60) DEF Crash
<1>9. ASSUME Enqueue \/ LateArrives \/ Toggle \/ ReadReceipt \/ RetryDelivery
      PROVE  IndInv'
  BY <1>9, QuietKeeps, Zenon
  DEF Enqueue, LateArrives, Toggle, ReadReceipt, RetryDelivery, IndInv, Shape
<1>10. ASSUME UNCHANGED vars PROVE IndInv'
  BY <1>10, QuietKeeps, Zenon DEF vars, IndInv, Shape
<1> QED
  BY <1>1, <1>2, <1>3, <1>4, <1>5, <1>6, <1>7, <1>8, <1>9, <1>10,
     PollKeeps, ClaimKeeps, TickKeeps, RotateKeeps, Zenon DEF Next

(* IndInv holds in every reachable state. *)
THEOREM Invariance == Spec => []IndInv
BY InitInv, NextInv, PTL DEF Spec

(* claim_channel_outbox under _owned_channels: no two gateways hold an     *)
(* unexpired claim of one message, because an unexpired claim's token owns *)
(* the channel (channel_gateway_lease_owned asks for an ownership that     *)
(* outlasts the claim).                                                    *)
THEOREM OneLiveClaimerHolds == Spec => []OneLiveClaimer
<1>1. IndInv => OneLiveClaimer
  BY Zenon DEF IndInv, TokensApart, OwnerOutlasts, OneLiveClaimer
<1> QED BY <1>1, Invariance, PTL

-----------------------------------------------------------------------------
(* What a step does to the rows.                                           *)

IsRow(r) == r = Row(r.status, r.attempts, r.owner, r.left, r.wait)

RowsOK == row = [m \in Messages |-> row[m]] /\ \A m \in Messages : IsRow(row[m])

\* An ack on its way - a sidecar about to report one, or a late call - is of a
\* message the platform accepted; a receipt is of a failed row.
AcksSent ==
    /\ \A s \in Sidecars : pc[s] = "ack" => Head(batch[s]) \in sent
    /\ \A call \in late : /\ call.kind \in {"ack", "fail"}
                          /\ call.kind = "ack" => call.m \in sent

Receipts == \A m \in seen : m \in Messages /\ row[m].status = "failed"

SentInv == RowsOK /\ AcksSent /\ Receipts /\ DeliveredWasSent

\* Row m goes from old to new: a delivered one stays, another is delivered only
\* when its message was sent, and a failed one stays failed unless it is retried.
RowStep(m, old, new) ==
    /\ IsRow(new)
    /\ old.status = "delivered" => new.status = "delivered"
    /\ new.status = "delivered" => old.status = "delivered" \/ m \in sent
    /\ old.status = "failed" => new.status = "failed" \/ m \notin seen'

RowsStep ==
    /\ row' = [m \in Messages |-> row'[m]]
    /\ \A m \in Messages : RowStep(m, row[m], row'[m])

LEMMA RowIs ==
    ASSUME NEW status, NEW attempts, NEW lessee, NEW left, NEW wait
    PROVE  /\ IsRow(Row(status, attempts, lessee, left, wait))
           /\ Row(status, attempts, lessee, left, wait).status = status
BY Zenon DEF IsRow, Row

LEMMA RowsSame == ASSUME RowsOK, row' = row PROVE RowsStep
BY Zenon DEF RowsOK, RowsStep, RowStep

\* One row changes.
LEMMA RowSet ==
    ASSUME RowsOK, NEW n \in Messages, NEW r, row' = [row EXCEPT ![n] = r],
           RowStep(n, row[n], r)
    PROVE  RowsStep
<1>1. row'[n] = r /\ \A m \in Messages : m # n => row'[m] = row[m]
  BY Zenon DEF RowsOK
<1>2. row' = [m \in Messages |-> row'[m]]
  BY Zenon DEF RowsOK
<1>3. \A m \in Messages : m # n => RowStep(m, row[m], row'[m])
  BY <1>1, Zenon DEF RowsOK, RowStep
<1> QED BY <1>1, <1>2, <1>3, Zenon DEF RowsStep

\* ack_channel_outbox and fail_channel_outbox, for a message in or not in the
\* outbox.
LEMMA SettleStep ==
    ASSUME RowsOK, NEW kind \in {"ack", "fail"}, NEW n, NEW t, Settle(kind, n, t),
           kind = "ack" => n \in sent
    PROVE  RowsStep
<1>1. CASE ~ Settles(n, t) \/ n \notin Messages
  <2>1. row' = row
    BY <1>1, Zenon DEF Settle, RowsOK
  <2> QED BY <2>1, RowsSame, Zenon
<1>2. CASE Settles(n, t) /\ n \in Messages
  <2>1. row[n].status = "in_flight" /\ IsRow(row[n])
    BY <1>2, Zenon DEF Settles, RowsOK
  <2>2. CASE kind = "ack"
    <3>1. row' = [row EXCEPT ![n] = Acked(n)]
      BY <1>2, <2>2, Zenon DEF Settle
    <3>2. IsRow(Acked(n)) /\ Acked(n).status = "delivered"
      BY <2>1 DEF Acked, IsRow, Row
    <3> QED BY <1>2, <2>1, <2>2, <3>1, <3>2, RowSet, Zenon DEF RowStep
  <2>3. CASE kind = "fail"
    <3>1. row' = [row EXCEPT ![n] = Failed(n)]
      BY <1>2, <2>3, Zenon DEF Settle
    <3>2. IsRow(Failed(n)) /\ Failed(n).status \in {"failed", "pending"}
      BY RowIs DEF Failed
    <3>3. RowStep(n, row[n], Failed(n))
      BY <2>1, <3>2, Zenon DEF RowStep
    <3> QED BY <1>2, <3>1, <3>3, RowSet, Zenon
  <2> QED BY <2>2, <2>3, Zenon
<1> QED BY <1>1, <1>2, Zenon

\* claim_channel_outbox
LEMMA TakeStep == ASSUME RowsOK, NEW s \in Sidecars, TakeRows(s) PROVE RowsStep
<1>1. row' = [m \in Messages |-> row'[m]]
  BY Zenon DEF TakeRows
<1>2. ASSUME NEW m \in Messages PROVE RowStep(m, row[m], row'[m])
  <2>1. CASE m \in Oldest
    <3>1. row[m].status \in {"pending", "in_flight"}
      BY <2>1, Zenon DEF Oldest, Claimable
    <3>2. row'[m] = ClaimedRow(m, bearer[s])
      BY <2>1, Zenon DEF TakeRows
    <3>3. IsRow(row'[m]) /\ row'[m].status = "in_flight"
      BY <3>2, RowIs DEF ClaimedRow
    <3> QED BY <3>1, <3>3, Zenon DEF RowStep
  <2>2. CASE m \notin Oldest
    <3>1. row'[m] = row[m]
      BY <2>2, Zenon DEF TakeRows
    <3> QED BY <3>1, Zenon DEF RowStep, RowsOK
  <2> QED BY <2>1, <2>2, Zenon
<1> QED BY <1>1, <1>2, Zenon DEF RowsStep

LEMMA TickStep == ASSUME RowsOK, Tick PROVE RowsStep
<1>1. row' = [m \in Messages |->
                [row[m] EXCEPT !.left = Sooner(@),
                               !.wait = IF @ = 0 THEN 0 ELSE @ - 1]]
  BY Zenon DEF Tick
<1>2. ASSUME NEW m \in Messages
      PROVE  IsRow(row'[m]) /\ row'[m].status = row[m].status
  <2>1. row'[m] = [row[m] EXCEPT !.left = Sooner(@),
                                 !.wait = IF @ = 0 THEN 0 ELSE @ - 1]
    BY <1>1, Zenon
  <2>2. IsRow(row[m])
    BY Zenon DEF RowsOK
  <2> QED BY <2>1, <2>2, Zenon DEF IsRow, Row
<1>3. row' = [m \in Messages |-> row'[m]]
  BY <1>1, Zenon
<1> QED BY <1>2, <1>3, Zenon DEF RowsStep, RowStep

\* enqueue_channel_outbox and retry_terminal_channel_delivery
LEMMA OpenStep ==
    ASSUME RowsOK, Receipts, Enqueue \/ RetryDelivery PROVE RowsStep
<1>1. CASE Enqueue
  <2>1. PICK n \in Messages :
           /\ row[n] = Absent
           /\ row' = [row EXCEPT ![n] = Row("pending", 0, NoToken, Expired, 0)]
    BY <1>1, Zenon DEF Enqueue
  <2>2. row[n].status = "absent"
    BY <2>1, RowIs DEF Absent
  <2> QED BY <2>1, <2>2, RowIs, RowSet, Zenon DEF RowStep
<1>2. CASE RetryDelivery
  <2>1. PICK n \in seen :
           /\ row' = [row EXCEPT ![n] = Row("pending", 0, NoToken, Expired, 0)]
           /\ seen' = seen \ {n}
    BY <1>2, Zenon DEF RetryDelivery
  <2>2. n \in Messages /\ row[n].status = "failed"
    BY <2>1, Zenon DEF Receipts
  <2> QED BY <2>1, <2>2, RowIs, RowSet, Zenon DEF RowStep
<1> QED BY <1>1, <1>2, Zenon

LEMMA NextRows == ASSUME SentInv, [Next]_vars PROVE RowsStep
<1>0. RowsOK /\ AcksSent /\ Receipts
  BY Zenon DEF SentInv
<1>1. ASSUME NEW s \in Sidecars, Claim(s) \/ ClaimUnanswered(s) PROVE RowsStep
  BY <1>0, <1>1, TakeStep, Zenon DEF Claim, ClaimUnanswered
<1>2. ASSUME NEW s \in Sidecars, Report(s) PROVE RowsStep
  <2>1. /\ pc[s] \in {"ack", "fail"} /\ Settle(pc[s], Head(batch[s]), token[s])
        /\ pc[s] = "ack" => Head(batch[s]) \in sent
    BY <1>0, <1>2, Zenon DEF Report, AcksSent
  <2> QED BY <1>0, <2>1, SettleStep, Zenon
<1>3. ASSUME LateArrives PROVE RowsStep
  <2>1. PICK call \in late : Settle(call.kind, call.m, call.token) \/ row' = row
    BY <1>3, Zenon DEF LateArrives
  <2>2. CASE Settle(call.kind, call.m, call.token)
    BY <1>0, <2>1, <2>2, SettleStep, Zenon DEF AcksSent
  <2>3. CASE row' = row
    BY <1>0, <2>3, RowsSame, Zenon
  <2> QED BY <2>1, <2>2, <2>3, Zenon
<1>4. ASSUME row' = row PROVE RowsStep
  BY <1>0, <1>4, RowsSame, Zenon
<1>5. ASSUME NEW s \in Sidecars,
             \/ Reconcile(s) \/ ReconcileUnanswered(s) \/ AdapterUp(s) \/ Poll(s)
             \/ TakeAdapter(s) \/ Deliver(s) \/ ReportLate(s) \/ Crash(s)
             \/ RotateToken(s)
      PROVE  RowsStep
  BY <1>4, <1>5, Zenon DEF Reconcile, ReconcileUnanswered, AdapterUp, Poll, TakeAdapter,
                    Deliver, ReportLate, Crash, RotateToken
<1>6. ASSUME Toggle \/ ReadReceipt \/ UNCHANGED vars PROVE RowsStep
  BY <1>4, <1>6, Zenon DEF Toggle, ReadReceipt, vars
<1> QED BY <1>0, <1>1, <1>2, <1>3, <1>5, <1>6, OpenStep, TickStep, Zenon DEF Next

\* sent only grows, and a step that leaves the pumps and the late calls alone
\* leaves the acks on their way alone.
LEMMA AcksKept ==
    ASSUME AcksSent, UNCHANGED <<pc, batch, late>>, sent \subseteq sent'
    PROVE  AcksSent'
BY Zenon DEF AcksSent

\* A pump that goes anywhere but to its ack.
LEMMA AcksMoved ==
    ASSUME AcksSent, NEW s \in Sidecars, NEW q, q # "ack", pc' = [pc EXCEPT ![s] = q],
           \A u \in Sidecars : u # s => batch'[u] = batch[u],
           pc \in [Sidecars -> Spots],
           UNCHANGED late, sent \subseteq sent'
    PROVE  AcksSent'
BY Zenon DEF AcksSent

LEMMA NextAcks == ASSUME Shape, SentInv, batch = [s \in Sidecars |-> batch[s]], [Next]_vars
                  PROVE  AcksSent'
<1>0. /\ AcksSent
      /\ pc \in [Sidecars -> Spots]
  BY Zenon DEF SentInv, Shape
<1>1. ASSUME NEW s \in Sidecars,
             \/ Reconcile(s) \/ ReconcileUnanswered(s) \/ AdapterUp(s) \/ RotateToken(s)
      PROVE  AcksSent'
  BY <1>0, <1>1, AcksKept, Zenon DEF Reconcile, ReconcileUnanswered, AdapterUp, RotateToken
<1>2. ASSUME Enqueue \/ Tick \/ Toggle \/ ReadReceipt \/ RetryDelivery \/ UNCHANGED vars
      PROVE  AcksSent'
  BY <1>0, <1>2, AcksKept, Zenon DEF Enqueue, Tick, Toggle, ReadReceipt, RetryDelivery, vars
<1>3. ASSUME NEW s \in Sidecars,
             \/ Poll(s) \/ Claim(s) \/ ClaimUnanswered(s) \/ TakeAdapter(s) \/ Crash(s)
             \/ Report(s)
      PROVE  AcksSent'
  <2>1. PICK q \in {"idle", "claim", "settle", "deliver", "fail"} :
           pc' = [pc EXCEPT ![s] = q]
    BY <1>3, Zenon DEF Poll, Claim, ClaimUnanswered, TakeAdapter, Crash, Report, Advance
  <2>2. \A u \in Sidecars : u # s => batch'[u] = batch[u]
    BY <1>3, Zenon DEF Poll, Claim, ClaimUnanswered, TakeAdapter, Crash, Report, Advance
  <2>3. UNCHANGED <<late, sent>>
    BY <1>3, Zenon DEF Poll, Claim, ClaimUnanswered, TakeAdapter, Crash, Report
  <2> QED BY <1>0, <2>1, <2>2, <2>3, AcksMoved, Zenon
<1>4. ASSUME NEW s \in Sidecars, Deliver(s) PROVE AcksSent'
  <2>1. UNCHANGED <<batch, late>> /\ sent \subseteq sent'
    BY <1>4, Zenon DEF Deliver
  <2>2. CASE /\ pc' = [pc EXCEPT ![s] = "ack"]
             /\ sent' = sent \union {Head(batch[s])}
    BY <1>0, <2>1, <2>2, Zenon DEF AcksSent
  <2>3. CASE pc' = [pc EXCEPT ![s] = "fail"]
    BY <1>0, <2>1, <2>3, AcksMoved, Zenon
  <2> QED BY <1>4, <2>2, <2>3, Zenon DEF Deliver
<1>5. ASSUME NEW s \in Sidecars, ReportLate(s) PROVE AcksSent'
  <2>1. PICK q \in {"idle", "settle"} : pc' = [pc EXCEPT ![s] = q]
    BY <1>5, Zenon DEF ReportLate, Advance
  <2>2. \A u \in Sidecars : u # s => batch'[u] = batch[u]
    BY <1>5, Zenon DEF ReportLate, Advance
  <2>3. /\ late' = late \union {[kind |-> pc[s], m |-> Head(batch[s]), token |-> token[s]]}
        /\ pc[s] \in {"ack", "fail"} /\ sent' = sent
    BY <1>5, Zenon DEF ReportLate
  <2>4. \A call \in late' : /\ call.kind \in {"ack", "fail"}
                            /\ call.kind = "ack" => call.m \in sent
    BY <1>0, <2>3 DEF AcksSent
  <2>5. \A u \in Sidecars : pc'[u] = "ack" => Head(batch'[u]) \in sent
    BY <1>0, <2>1, <2>2, Zenon DEF AcksSent
  <2> QED BY <2>3, <2>4, <2>5, Zenon DEF AcksSent
<1>6. ASSUME LateArrives PROVE AcksSent'
  <2>1. late' \subseteq late /\ UNCHANGED <<pc, batch, sent>>
    BY <1>6, Zenon DEF LateArrives
  <2> QED BY <1>0, <2>1, Zenon DEF AcksSent
<1> QED BY <1>1, <1>2, <1>3, <1>4, <1>5, <1>6, Zenon DEF Next

\* A receipt is taken of a failed row, and given up with the retry.
LEMMA NextReceipts == ASSUME SentInv, RowsStep, [Next]_vars PROVE Receipts'
<1>1. \A m \in seen' : m \in Messages /\ row[m].status = "failed"
  <2>1. CASE ReadReceipt
    BY <2>1, Zenon DEF ReadReceipt, SentInv, Receipts
  <2>2. CASE seen' \subseteq seen
    BY <2>2, Zenon DEF SentInv, Receipts
  <2>3. ReadReceipt \/ seen' \subseteq seen
    BY Zenon DEF Next, Reconcile, ReconcileUnanswered, AdapterUp, Poll, Claim, ClaimUnanswered,
           TakeAdapter, Deliver, Report, ReportLate, Crash, RotateToken, Enqueue,
           LateArrives, Tick, Toggle, RetryDelivery, vars
  <2> QED BY <2>1, <2>2, <2>3, Zenon
<1>2. \A m \in seen' : row'[m].status = "failed"
  BY <1>1, Zenon DEF RowsStep, RowStep
<1> QED BY <1>1, <1>2, Zenon DEF Receipts

LEMMA SentGrows == [Next]_vars => sent \subseteq sent'
BY Zenon DEF Next, Reconcile, ReconcileUnanswered, AdapterUp, Poll, Claim, ClaimUnanswered,
       TakeAdapter, Deliver, Report, ReportLate, Crash, RotateToken, Enqueue,
       LateArrives, Tick, Toggle, ReadReceipt, RetryDelivery, vars

Batches == batch = [s \in Sidecars |-> batch[s]]

LEMMA NextBatches == Batches /\ [Next]_vars => Batches'
BY Zenon DEF Batches, Next, Reconcile, ReconcileUnanswered, AdapterUp, Poll, Claim,
       ClaimUnanswered, TakeAdapter, Deliver, Report, ReportLate, Advance, Crash,
       RotateToken, Enqueue, LateArrives, Tick, Toggle, ReadReceipt, RetryDelivery, vars

LEMMA NextSent == Shape /\ Batches /\ SentInv /\ [Next]_vars => SentInv'
<1> SUFFICES ASSUME Shape, Batches, SentInv, [Next]_vars PROVE SentInv'
  BY Zenon
<1>1. RowsStep
  BY NextRows, Zenon
<1>2. RowsOK'
  BY <1>1, Zenon DEF RowsStep, RowStep, RowsOK, IsRow
<1>3. AcksSent'
  BY NextAcks, Zenon DEF Batches
<1>4. Receipts'
  BY <1>1, NextReceipts, Zenon
<1>5. DeliveredWasSent'
  BY <1>1, SentGrows, Zenon DEF RowsStep, RowStep, SentInv, DeliveredWasSent
<1> QED BY <1>2, <1>3, <1>4, <1>5, Zenon DEF SentInv

LEMMA SentInvariance == Spec => [](Shape /\ Batches /\ SentInv)
<1>1. Init => Batches /\ SentInv
  <2> SUFFICES ASSUME Init PROVE Batches /\ SentInv
    BY Zenon
  <2>1. Batches
    BY Zenon DEF Init, Batches
  <2>2. \A m \in Messages : IsRow(row[m]) /\ row[m].status = "absent"
    BY RowIs DEF Init, Absent
  <2>3. RowsOK
    BY <2>2, Zenon DEF Init, RowsOK
  <2>4. AcksSent /\ Receipts
    BY Zenon DEF Init, AcksSent, Receipts
  <2>5. DeliveredWasSent
    BY <2>2, Zenon DEF DeliveredWasSent
  <2> QED BY <2>1, <2>3, <2>4, <2>5, Zenon DEF SentInv
<1>2. IndInv => Shape
  BY Zenon DEF IndInv
<1> QED BY <1>1, <1>2, Invariance, NextBatches, NextSent, PTL DEF Spec

(* _settle and ack_channel_outbox: a row is called delivered only if the   *)
(* platform accepted its message, however late the ack comes and whoever   *)
(* has claimed the row since.                                              *)
THEOREM DeliveredWasSentHolds == Spec => []DeliveredWasSent
<1>1. SentInv => DeliveredWasSent
  BY Zenon DEF SentInv
<1> QED BY <1>1, SentInvariance, PTL

(* The compare-and-swaps of ack, fail, claim and retry: no stale claimer,  *)
(* late call or operator's retry opens a delivered row again.              *)
THEOREM DeliveredIsFinalHolds == Spec => DeliveredIsFinal
<1>1. SentInv /\ [Next]_vars =>
        [\A m \in Messages :
            row[m].status = "delivered" => row'[m].status = "delivered"]_vars
  <2> SUFFICES ASSUME SentInv, [Next]_vars, NEW m \in Messages,
                      row[m].status = "delivered"
               PROVE  row'[m].status = "delivered"
    BY Zenon
  <2>1. RowsStep
    BY NextRows, Zenon
  <2> QED BY <2>1, Zenon DEF RowsStep, RowStep
<1> QED BY <1>1, SentInvariance, PTL DEF Spec, DeliveredIsFinal

-----------------------------------------------------------------------------
(* The type invariant.                                                     *)

\* fail_channel_outbox's backoff counts from the first claim of a row.
ClaimsCounted ==
    \A m \in Messages : row[m].status = "in_flight" => row[m].attempts >= 1

TypeInv == TypeOK /\ ClaimsCounted

LEMMA EventOK == ASSUME TypeOK, Event \/ UNCHANGED events PROVE events' \in 0..MaxEvents
<1>1. events \in 0..MaxEvents /\ MaxEvents \in Nat
  BY ChannelOutboxAssumption, Zenon DEF TypeOK
<1>2. \A a \in 0..MaxEvents : a < MaxEvents => a + 1 \in 0..MaxEvents
  BY <1>1
<1> QED BY <1>1, <1>2, Zenon DEF Event

LEMMA NumbersOK ==
    /\ {0, MaxAttempts} \subseteq 0..MaxAttempts
    /\ {Expired, OutboxLease} \subseteq Expired..OutboxLease
    /\ {Expired, OwnerLease} \subseteq Expired..OwnerLease
    /\ Backoff * BackoffCap \in Nat /\ 0 \in 0..(Backoff * BackoffCap)
<1>1. \A a, b \in Nat : a * b \in Nat
  OBVIOUS
<1>2. Backoff * BackoffCap \in Nat
  BY <1>1, ChannelOutboxAssumption, Zenon
<1> QED BY <1>2, ChannelOutboxAssumption DEF Expired

LEMMA RowOK ==
    ASSUME NEW status \in {"absent", "pending", "in_flight", "delivered", "failed"},
           NEW attempts \in 0..MaxAttempts, NEW lessee \in Tokens \union {NoToken},
           NEW left \in Expired..OutboxLease, NEW wait \in 0..(Backoff * BackoffCap)
    PROVE  Row(status, attempts, lessee, left, wait) \in Rows
BY Zenon DEF Row, Rows

\* fail_channel_outbox: the wait before the next claim keeps to its cap.
LEMMA BackoffOK ==
    ASSUME NEW k \in Nat
    PROVE  Backoff * Least(k, BackoffCap) \in 0..(Backoff * BackoffCap)
<1>1. \A a, b, c \in Nat : a <= b => c * a \in 0..(c * b)
  OBVIOUS
<1>2. Least(k, BackoffCap) \in Nat /\ Least(k, BackoffCap) <= BackoffCap
  BY ChannelOutboxAssumption DEF Least
<1>3. Backoff \in Nat /\ BackoffCap \in Nat
  BY ChannelOutboxAssumption, Zenon
<1> QED BY <1>1, <1>2, <1>3, Zenon

\* A row that claim_channel_outbox may take is within the reach of its limit.
LEMMA OldestIn == Oldest \subseteq Messages
BY Zenon DEF Oldest

INSTANCE FiniteSetTheorems

LEMMA PowerOK == ASSUME NEW n \in Nat PROVE 2 ^ n \in Nat
<1>1. IsFiniteSet(1..n) /\ Cardinality(1..n) = n
  <2>1. 1 \in Int /\ n \in Int
    OBVIOUS
  <2>2. IsFiniteSet(1..n) /\ Cardinality(1..n) = IF 1 > n THEN 0 ELSE n - 1 + 1
    BY <2>1, FS_Interval, Zenon
  <2> QED BY <2>2
<1>2. IsFiniteSet(SUBSET (1..n)) /\ Cardinality(SUBSET (1..n)) = 2 ^ Cardinality(1..n)
  BY <1>1, FS_SUBSET, Zenon
<1>3. Cardinality(SUBSET (1..n)) \in Nat
  BY <1>2, FS_CardinalityType, Zenon
<1> QED BY <1>1, <1>2, <1>3, Zenon

\* A finite set of numbers has exactly one member of each rank.
LEMMA Ranks ==
    ASSUME NEW S \in SUBSET Nat, IsFiniteSet(S), NEW i \in 1..Cardinality(S)
    PROVE  \E m \in S : Cardinality({n \in S : n < m}) = i - 1
<1> DEFINE Under(m) == {n \in S : n < m}
           rank == [m \in S |-> Cardinality(Under(m))]
           T == 0..(Cardinality(S) - 1)
<1>1. Cardinality(S) \in Nat
  BY FS_CardinalityType, Zenon
<1>2. \A m \in S : IsFiniteSet(Under(m)) /\ rank[m] = Cardinality(Under(m)) /\ rank[m] \in Nat
  <2>1. \A m \in S : Under(m) \in SUBSET S
    BY Zenon
  <2> HIDE DEF Under
  <2>2. \A m \in S : IsFiniteSet(Under(m))
    BY <2>1, FS_Subset, Zenon
  <2> QED BY <2>2, FS_CardinalityType, Zenon
<1>3. ASSUME NEW U, IsFiniteSet(U), NEW V \in SUBSET U, V # U
      PROVE  Cardinality(V) < Cardinality(U)
  <2>1. Cardinality(V) <= Cardinality(U) /\ Cardinality(U) # Cardinality(V)
    BY <1>3, FS_Subset, Zenon
  <2>2. Cardinality(V) \in Nat /\ Cardinality(U) \in Nat
    BY <1>3, FS_Subset, FS_CardinalityType, Zenon
  <2> QED BY <2>1, <2>2
<1>4. \A m \in S : rank[m] < Cardinality(S)
  <2> SUFFICES ASSUME NEW m \in S PROVE rank[m] < Cardinality(S)
    BY Zenon
  <2>1. Under(m) \in SUBSET S /\ Under(m) # S
    <3>1. m \notin Under(m)
      OBVIOUS
    <3> QED BY <3>1, Zenon
  <2> HIDE DEF Under, rank
  <2> QED BY <1>2, <1>3, <2>1, Zenon
<1>5. \A m, n \in S : n < m => rank[n] < rank[m]
  <2> SUFFICES ASSUME NEW m \in S, NEW n \in S, n < m PROVE rank[n] < rank[m]
    BY Zenon
  <2>1. Under(n) \in SUBSET Under(m) /\ n \in Under(m) /\ n \notin Under(n)
    <3>1. \A a, b, c \in Nat : (c < a /\ a < b => c < b) /\ ~(a < a)
      OBVIOUS
    <3> QED BY <3>1, Zenon
  <2> HIDE DEF Under, rank
  <2>2. Under(n) # Under(m)
    BY <2>1, Zenon
  <2> QED BY <1>2, <1>3, <2>1, <2>2, Zenon
<1>6. rank \in Injection(S, T)
  <2>1. rank \in [S -> T]
    <3>1. \A m \in S : rank[m] \in T
      <4>1. \A a, c \in Nat : a < c => a \in 0..(c - 1)
        OBVIOUS
      <4> HIDE DEF rank
      <4> QED BY <1>1, <1>2, <1>4, <4>1, Zenon
    <3> QED BY <3>1, Zenon
  <2> HIDE DEF rank
  <2>2. \A m, n \in S : m # n => rank[m] # rank[n]
    <3>1. \A a, b \in Nat : (a # b => a < b \/ b < a) /\ (a < b => a # b)
      OBVIOUS
    <3> QED BY <1>2, <1>5, <3>1, Zenon
  <2> QED BY <2>1, <2>2, Zenon DEF Injection, IsInjective
<1>7. IsFiniteSet(T) /\ Cardinality(T) = Cardinality(S)
  <2>1. 0 \in Int /\ Cardinality(S) - 1 \in Int
    BY <1>1
  <2>2. /\ IsFiniteSet(T)
        /\ Cardinality(T) = IF 0 > Cardinality(S) - 1 THEN 0 ELSE Cardinality(S) - 1 - 0 + 1
    BY <2>1, FS_Interval, Zenon
  <2> QED BY <1>1, <2>2
<1>8. rank \in Surjection(S, T)
  BY <1>6, <1>7, FS_Injection, Zenon
<1>9. i - 1 \in T
  BY <1>1
<1> QED BY <1>8, <1>9, Zenon DEF Surjection

\* claim_channel_outbox returns messages, none exactly when there is no row to
\* take.
LEMMA ClaimedOK ==
    Claimed \in Seq(Messages) /\ (Claimed = <<>> <=> Oldest = {})
<1>1. IsFiniteSet(Oldest) /\ Oldest \in SUBSET Nat
  <2>1. 1 \in Int /\ MaxMessages \in Int
    BY ChannelOutboxAssumption
  <2>2. IsFiniteSet(Messages)
    BY <2>1, FS_Interval, Zenon DEF Messages
  <2>3. Messages \subseteq Nat
    BY ChannelOutboxAssumption DEF Messages
  <2> QED BY <2>2, <2>3, OldestIn, FS_Subset, Zenon
<1>2. PICK c : c = Cardinality(Oldest) /\ c \in Nat
  BY <1>1, FS_CardinalityType, Zenon
<1>3. Claimed \in [1..c -> Messages]
  <2>1. \A i \in 1..c : \E m \in Oldest : Cardinality({n \in Oldest : n < m}) = i - 1
    BY <1>1, <1>2, Ranks, Zenon
  <2> QED BY <1>2, <2>1, OldestIn, Zenon DEF Claimed
<1>4. PICK f : f = Claimed
  BY Zenon
<1>5. f \in Seq(Messages) /\ Len(f) = c
  BY <1>2, <1>3, <1>4
<1>6. c = 0 <=> Oldest = {}
  BY <1>1, <1>2, FS_EmptySet, Zenon
<1>7. f = <<>> <=> c = 0
  BY <1>2, <1>5
<1> QED BY <1>4, <1>5, <1>6, <1>7, Zenon

-----------------------------------------------------------------------------
(* The rows keep their type.                                               *)

RowsTyped == row \in [Messages -> Rows] /\ ClaimsCounted

\* One row changes.
LEMMA RowTyped ==
    ASSUME RowsTyped, NEW n \in Messages, NEW r \in Rows,
           r.status = "in_flight" => r.attempts >= 1,
           row' = [row EXCEPT ![n] = r]
    PROVE  RowsTyped'
<1>1. row' \in [Messages -> Rows]
  BY Zenon DEF RowsTyped
<1>2. \A m \in Messages : row'[m] = IF m = n THEN r ELSE row[m]
  BY Zenon DEF RowsTyped
<1> QED BY <1>1, <1>2, Zenon DEF RowsTyped, ClaimsCounted

LEMMA RowParts ==
    ASSUME RowsTyped, NEW m \in Messages
    PROVE  /\ row[m] \in Rows
           /\ row[m].attempts \in 0..MaxAttempts
           /\ row[m].owner \in Tokens \union {NoToken}
           /\ row[m].left \in Expired..OutboxLease
           /\ row[m].wait \in 0..(Backoff * BackoffCap)
BY Zenon DEF RowsTyped, Rows

\* claim_channel_outbox counts the claim, up to the cap.
LEMMA ClaimedRowOK ==
    ASSUME RowsTyped, NEW m \in Messages, NEW t \in Tokens \union {NoToken}
    PROVE  ClaimedRow(m, t) \in Rows /\ ClaimedRow(m, t).attempts >= 1
<1>1. \A a \in 0..MaxAttempts : /\ Least(a + 1, MaxAttempts) \in 0..MaxAttempts
                               /\ Least(a + 1, MaxAttempts) >= 1
  BY ChannelOutboxAssumption DEF Least
<1>2. PICK k : k = Least(row[m].attempts + 1, MaxAttempts)
  BY Zenon
<1>3. k \in 0..MaxAttempts /\ k >= 1
  BY <1>1, <1>2, RowParts, Zenon
<1>4. ClaimedRow(m, t) = Row("in_flight", k, t, OutboxLease, row[m].wait)
  BY <1>2, Zenon DEF ClaimedRow
<1>5. ClaimedRow(m, t) \in Rows
  <2>1. OutboxLease \in Expired..OutboxLease /\ row[m].wait \in 0..(Backoff * BackoffCap)
    BY NumbersOK, RowParts, Zenon
  <2> QED BY <1>3, <1>4, <2>1, RowOK, Zenon
<1>6. ClaimedRow(m, t).attempts = k
  BY <1>4 DEF Row
<1> QED BY <1>3, <1>5, <1>6, Zenon

LEMMA TakeTyped ==
    ASSUME RowsTyped, NEW s \in Sidecars, bearer[s] \in Tokens \union {NoToken},
           TakeRows(s)
    PROVE  RowsTyped'
<1>1. \A m \in Messages : row'[m] = IF m \in Oldest THEN ClaimedRow(m, bearer[s]) ELSE row[m]
  BY Zenon DEF TakeRows
<1>2. \A m \in Messages : row'[m] \in Rows
  BY <1>1, ClaimedRowOK, RowParts, Zenon
<1>3. row' \in [Messages -> Rows]
  BY <1>2, Zenon DEF TakeRows
<1>4. \A m \in Messages : row'[m].status = "in_flight" => row'[m].attempts >= 1
  BY <1>1, ClaimedRowOK, Zenon DEF RowsTyped, ClaimsCounted
<1> QED BY <1>3, <1>4, Zenon DEF RowsTyped, ClaimsCounted

\* fail_channel_outbox: a row in flight was claimed, so its backoff is a power
\* of two, and the wait keeps to its cap.
LEMMA SettleTyped ==
    ASSUME RowsTyped, NEW kind \in {"ack", "fail"}, NEW n \in Messages, NEW t,
           Settle(kind, n, t)
    PROVE  RowsTyped'
<1>1. CASE ~Settles(n, t)
  BY <1>1, Zenon DEF Settle, RowsTyped, ClaimsCounted
<1>2. CASE Settles(n, t) /\ kind = "ack"
  <2>1. row' = [row EXCEPT ![n] = Acked(n)]
    BY <1>2, Zenon DEF Settle
  <2>2. row[n] \in Rows
    BY RowParts, Zenon
  <2>3. Acked(n) \in Rows /\ Acked(n).status = "delivered"
    BY <2>2, Zenon DEF Acked, Rows
  <2> QED BY <2>1, <2>3, RowTyped, Zenon
<1>3. CASE Settles(n, t) /\ kind = "fail"
  <2>1. row' = [row EXCEPT ![n] = Failed(n)]
    BY <1>3, Zenon DEF Settle
  <2>2. PICK a : a = row[n].attempts
    BY Zenon
  <2>3. a \in 0..MaxAttempts /\ a >= 1
    BY <1>3, <2>2, RowParts, Zenon DEF Settles, RowsTyped, ClaimsCounted
  <2>4. a - 1 \in Nat
    BY <2>3, ChannelOutboxAssumption
  <2>5. Backoff * Least(2 ^ (a - 1), BackoffCap) \in 0..(Backoff * BackoffCap)
    BY <2>4, PowerOK, BackoffOK, Zenon
  <2>6. /\ Row("failed", a, NoToken, Expired, row[n].wait) \in Rows
        /\ Row("pending", a, NoToken, Expired,
               Backoff * Least(2 ^ (a - 1), BackoffCap)) \in Rows
    BY <2>3, <2>5, RowOK, RowParts, NumbersOK, Zenon
  <2>7. Failed(n) \in Rows
    BY <2>2, <2>6, Zenon DEF Failed
  <2>8. Failed(n).status \in {"failed", "pending"}
    BY RowIs DEF Failed
  <2> QED BY <2>1, <2>7, <2>8, RowTyped, Zenon
<1> QED BY <1>1, <1>2, <1>3, Zenon

LEMMA SoonerOK ==
    ASSUME NEW n \in Nat, NEW left \in Expired..n PROVE Sooner(left) \in Expired..n
BY DEF Sooner, Expired

LEMMA TickTyped == ASSUME RowsTyped, Tick PROVE RowsTyped'
<1>1. row' = [m \in Messages |->
                [row[m] EXCEPT !.left = Sooner(@),
                               !.wait = IF @ = 0 THEN 0 ELSE @ - 1]]
  BY Zenon DEF Tick
<1>2. ASSUME NEW m \in Messages
      PROVE  /\ row'[m] \in Rows
             /\ row'[m].status = "in_flight" => row'[m].attempts >= 1
  <2>1. PICK left, wait : /\ left = Sooner(row[m].left)
                          /\ wait = IF row[m].wait = 0 THEN 0 ELSE row[m].wait - 1
    BY Zenon
  <2>2. row'[m] = [row[m] EXCEPT !.left = left, !.wait = wait]
    BY <1>1, <2>1, Zenon
  <2>3. left \in Expired..OutboxLease
    BY <2>1, RowParts, SoonerOK, ChannelOutboxAssumption, Zenon
  <2>4. wait \in 0..(Backoff * BackoffCap)
    <3>1. \A c \in Nat : \A w \in 0..c : (IF w = 0 THEN 0 ELSE w - 1) \in 0..c
      OBVIOUS
    <3> QED BY <2>1, <3>1, RowParts, NumbersOK, Zenon
  <2>5. row[m] \in Rows
    BY RowParts, Zenon
  <2>6. /\ row'[m] \in Rows /\ row'[m].status = row[m].status
        /\ row'[m].attempts = row[m].attempts
    BY <2>2, <2>3, <2>4, <2>5, Zenon DEF Rows
  <2> QED BY <2>6, Zenon DEF RowsTyped, ClaimsCounted
<1>3. row' \in [Messages -> Rows]
  BY <1>1, <1>2, Zenon
<1> QED BY <1>2, <1>3, Zenon DEF RowsTyped, ClaimsCounted

LEMMA OpenTyped ==
    ASSUME RowsTyped, Receipts, Enqueue \/ RetryDelivery PROVE RowsTyped'
<1>1. PICK n \in Messages :
         row' = [row EXCEPT ![n] = Row("pending", 0, NoToken, Expired, 0)]
  BY Zenon DEF Enqueue, RetryDelivery, Receipts
<1>2. Row("pending", 0, NoToken, Expired, 0) \in Rows
  BY RowOK, NumbersOK, Zenon
<1>3. Row("pending", 0, NoToken, Expired, 0).status = "pending"
  BY RowIs
<1> QED BY <1>1, <1>2, <1>3, RowTyped, Zenon

\* A pump that reports has a message, and so has a late call.
LEMMA HeadOK ==
    ASSUME TypeOK, NEW s \in Sidecars, pc[s] \notin {"idle", "claim"}
    PROVE  Head(batch[s]) \in Messages /\ Tail(batch[s]) \in Seq(Messages)
<1>1. batch[s] \in Seq(Messages) /\ batch[s] # <<>>
  BY Zenon DEF TypeOK
<1>2. \A q \in Seq(Messages) : q # <<>> => Head(q) \in Messages /\ Tail(q) \in Seq(Messages)
  OBVIOUS
<1> QED BY <1>1, <1>2, Zenon

LEMMA NextRowsTyped ==
    ASSUME TypeInv, Receipts, [Next]_vars PROVE RowsTyped'
<1>0. RowsTyped /\ TypeOK
  BY Zenon DEF TypeInv, TypeOK, RowsTyped
<1>1. ASSUME NEW s \in Sidecars, Claim(s) \/ ClaimUnanswered(s) PROVE RowsTyped'
  <2>1. bearer[s] \in Tokens \union {NoToken}
    BY <1>0, Zenon DEF TypeOK
  <2> QED BY <1>0, <1>1, <2>1, TakeTyped, Zenon DEF Claim, ClaimUnanswered
<1>2. ASSUME NEW s \in Sidecars, Report(s) PROVE RowsTyped'
  <2>1. pc[s] \in {"ack", "fail"} /\ Settle(pc[s], Head(batch[s]), token[s])
    BY <1>2, Zenon DEF Report
  <2>2. Head(batch[s]) \in Messages
    BY <1>0, <2>1, HeadOK, Zenon
  <2> QED BY <1>0, <2>1, <2>2, SettleTyped, Zenon
<1>3. ASSUME LateArrives PROVE RowsTyped'
  <2>1. PICK call \in late : Settle(call.kind, call.m, call.token) \/ row' = row
    BY <1>3, Zenon DEF LateArrives
  <2>2. call.kind \in {"ack", "fail"} /\ call.m \in Messages
    BY <1>0, Zenon DEF TypeOK
  <2> QED BY <1>0, <2>1, <2>2, SettleTyped, Zenon DEF RowsTyped, ClaimsCounted
<1>4. ASSUME row' = row PROVE RowsTyped'
  BY <1>0, <1>4, Zenon DEF RowsTyped, ClaimsCounted
<1>5. ASSUME NEW s \in Sidecars,
             \/ Reconcile(s) \/ ReconcileUnanswered(s) \/ AdapterUp(s) \/ Poll(s)
             \/ TakeAdapter(s) \/ Deliver(s) \/ ReportLate(s) \/ Crash(s)
             \/ RotateToken(s)
      PROVE  RowsTyped'
  BY <1>4, <1>5, Zenon DEF Reconcile, ReconcileUnanswered, AdapterUp, Poll, TakeAdapter,
                           Deliver, ReportLate, Crash, RotateToken
<1>6. ASSUME Toggle \/ ReadReceipt \/ UNCHANGED vars PROVE RowsTyped'
  BY <1>4, <1>6, Zenon DEF Toggle, ReadReceipt, vars
<1> QED BY <1>0, <1>1, <1>2, <1>3, <1>5, <1>6, OpenTyped, TickTyped, Zenon DEF Next

-----------------------------------------------------------------------------
(* The other variables keep theirs.                                        *)

PumpsTyped ==
    /\ pc \in [Sidecars -> Spots]
    /\ batch \in [Sidecars -> Seq(Messages)]
    /\ \A s \in Sidecars : batch[s] = <<>> <=> pc[s] \in {"idle", "claim"}
    /\ held \in [Sidecars -> Expired..OutboxLease]
    /\ bearer \in [Sidecars -> Tokens \union {NoToken}]

\* One pump moves.
LEMMA PumpTyped ==
    ASSUME PumpsTyped, NEW s \in Sidecars, NEW q \in Spots, NEW b \in Seq(Messages),
           NEW left \in Expired..OutboxLease, NEW t \in Tokens \union {NoToken},
           b = <<>> <=> q \in {"idle", "claim"},
           pc' = [pc EXCEPT ![s] = q], batch' = [batch EXCEPT ![s] = b],
           held' = [held EXCEPT ![s] = left], bearer' = [bearer EXCEPT ![s] = t]
    PROVE  PumpsTyped'
<1>1. /\ pc' \in [Sidecars -> Spots]
      /\ batch' \in [Sidecars -> Seq(Messages)]
      /\ held' \in [Sidecars -> Expired..OutboxLease]
      /\ bearer' \in [Sidecars -> Tokens \union {NoToken}]
  BY Zenon DEF PumpsTyped
<1>2. \A u \in Sidecars : /\ pc'[u] = IF u = s THEN q ELSE pc[u]
                          /\ batch'[u] = IF u = s THEN b ELSE batch[u]
  BY Zenon DEF PumpsTyped
<1>3. \A u \in Sidecars : batch'[u] = <<>> <=> pc'[u] \in {"idle", "claim"}
  BY <1>2, Zenon DEF PumpsTyped
<1> QED BY <1>1, <1>3, Zenon DEF PumpsTyped

\* What a pump does not write stays.
LEMMA PumpSame ==
    ASSUME PumpsTyped, NEW s \in Sidecars
    PROVE  /\ batch = [batch EXCEPT ![s] = batch[s]]
           /\ held = [held EXCEPT ![s] = held[s]]
           /\ bearer = [bearer EXCEPT ![s] = bearer[s]]
           /\ batch[s] \in Seq(Messages) /\ held[s] \in Expired..OutboxLease
           /\ bearer[s] \in Tokens \union {NoToken}
BY Zenon DEF PumpsTyped

LEMMA EmptyOK == <<>> \in Seq(Messages)
OBVIOUS

LEMMA ClaimTyped ==
    ASSUME PumpsTyped, NEW s \in Sidecars, Claim(s) \/ ClaimUnanswered(s)
    PROVE  PumpsTyped'
<1>1. CASE Claim(s)
  <2>1. CASE Claimed = <<>>
    <3>1. /\ pc' = [pc EXCEPT ![s] = "idle"] /\ batch' = [batch EXCEPT ![s] = <<>>]
          /\ held' = [held EXCEPT ![s] = Expired]
          /\ bearer' = [bearer EXCEPT ![s] = NoToken]
      BY <1>1, <2>1, Zenon DEF Claim
    <3> QED BY <3>1, PumpTyped, EmptyOK, NumbersOK, Zenon DEF Spots
  <2>2. CASE Claimed # <<>>
    <3>1. /\ pc' = [pc EXCEPT ![s] = "settle"] /\ batch' = [batch EXCEPT ![s] = Claimed]
          /\ held' = [held EXCEPT ![s] = OutboxLease]
          /\ bearer' = [bearer EXCEPT ![s] = bearer[s]]
      BY <1>1, <2>2, Zenon DEF Claim
    <3> QED BY <2>2, <3>1, ClaimedOK, PumpTyped, PumpSame, NumbersOK, Zenon DEF Spots
  <2> QED BY <2>1, <2>2, Zenon
<1>2. CASE ClaimUnanswered(s)
  <2>1. /\ pc' = [pc EXCEPT ![s] = "idle"] /\ pc[s] = "claim"
        /\ batch' = [batch EXCEPT ![s] = batch[s]]
        /\ held' = [held EXCEPT ![s] = held[s]]
        /\ bearer' = [bearer EXCEPT ![s] = NoToken]
    BY <1>2, PumpSame, Zenon DEF ClaimUnanswered
  <2>2. batch[s] = <<>>
    BY <2>1, Zenon DEF PumpsTyped
  <2> QED BY <2>1, <2>2, PumpTyped, PumpSame, Zenon DEF Spots
<1> QED BY <1>1, <1>2, Zenon

\* The pump goes on, or is done with its batch.
LEMMA AdvanceTyped ==
    ASSUME PumpsTyped, NEW s \in Sidecars, pc[s] \in {"ack", "fail"}, Advance(s)
    PROVE  PumpsTyped'
<1>1. PICK b : b = batch[s]
  BY Zenon
<1>2. b \in Seq(Messages) /\ b # <<>>
  BY <1>1, Zenon DEF PumpsTyped
<1>3. Tail(b) \in Seq(Messages) /\ (Tail(b) = <<>> <=> Len(b) = 1)
  <2>1. Tail(b) \in Seq(Messages) /\ Len(Tail(b)) = Len(b) - 1 /\ Len(b) \in Nat
    BY <1>2
  <2>2. \A q \in Seq(Messages) : q = <<>> <=> Len(q) = 0
    OBVIOUS
  <2>3. \A n \in Nat : n = 1 <=> n - 1 = 0
    OBVIOUS
  <2> QED BY <2>1, <2>2, <2>3, Zenon
<1>4. batch' = [batch EXCEPT ![s] = Tail(b)]
  BY <1>1, Zenon DEF Advance
<1>5. CASE Len(b) = 1
  <2>1. /\ pc' = [pc EXCEPT ![s] = "idle"] /\ held' = [held EXCEPT ![s] = Expired]
        /\ bearer' = [bearer EXCEPT ![s] = NoToken]
    BY <1>1, <1>5, Zenon DEF Advance
  <2> QED BY <1>3, <1>4, <1>5, <2>1, PumpTyped, NumbersOK, Zenon DEF Spots
<1>6. CASE Len(b) # 1
  <2>1. /\ pc' = [pc EXCEPT ![s] = "settle"] /\ held' = [held EXCEPT ![s] = held[s]]
        /\ bearer' = [bearer EXCEPT ![s] = bearer[s]]
    BY <1>1, <1>6, Zenon DEF Advance
  <2> QED BY <1>3, <1>4, <1>6, <2>1, PumpTyped, PumpSame, Zenon DEF Spots
<1> QED BY <1>5, <1>6, Zenon

\* A step within a batch.
LEMMA MoveTyped ==
    ASSUME PumpsTyped, NEW s \in Sidecars, NEW q \in Spots, pc' = [pc EXCEPT ![s] = q],
           pc[s] \in {"idle", "claim"} <=> q \in {"idle", "claim"},
           UNCHANGED <<batch, held>>,
           \E t \in Tokens \union {NoToken} : bearer' = [bearer EXCEPT ![s] = t]
    PROVE  PumpsTyped'
<1>1. batch[s] = <<>> <=> q \in {"idle", "claim"}
  BY Zenon DEF PumpsTyped
<1>2. /\ batch' = [batch EXCEPT ![s] = batch[s]] /\ held' = [held EXCEPT ![s] = held[s]]
  BY PumpSame, Zenon
<1>3. PICK t \in Tokens \union {NoToken} : bearer' = [bearer EXCEPT ![s] = t]
  BY Zenon
<1>4. batch[s] \in Seq(Messages) /\ held[s] \in Expired..OutboxLease
  BY PumpSame, Zenon
<1> QED BY <1>1, <1>2, <1>3, <1>4, PumpTyped, ZenonT(30)

LEMMA TickHeld == ASSUME PumpsTyped, Tick PROVE PumpsTyped'
<1>1. /\ UNCHANGED <<pc, batch, bearer>>
      /\ held' = [s \in Sidecars |-> Sooner(held[s])]
  BY Zenon DEF Tick
<1>2. held' \in [Sidecars -> Expired..OutboxLease]
  BY <1>1, SoonerOK, ChannelOutboxAssumption, Zenon DEF PumpsTyped
<1> QED BY <1>1, <1>2, Zenon DEF PumpsTyped

LEMMA NextPumpsTyped == ASSUME TypeOK, [Next]_vars PROVE PumpsTyped'
<1>0. PumpsTyped /\ token \in [Sidecars -> Tokens]
  BY Zenon DEF TypeOK, PumpsTyped
<1>1. ASSUME NEW s \in Sidecars, Poll(s) PROVE PumpsTyped'
  <2>1. /\ pc[s] = "idle" /\ pc' = [pc EXCEPT ![s] = "claim"]
        /\ UNCHANGED <<batch, held>> /\ bearer' = [bearer EXCEPT ![s] = token[s]]
    BY <1>1, Zenon DEF Poll
  <2> QED BY <1>0, <2>1, MoveTyped, Zenon DEF Spots
<1>2. ASSUME NEW s \in Sidecars, TakeAdapter(s) \/ Deliver(s) PROVE PumpsTyped'
  <2>1. /\ pc[s] \in {"settle", "deliver"} /\ UNCHANGED <<batch, held, bearer>>
        /\ \E q \in {"deliver", "ack", "fail"} : pc' = [pc EXCEPT ![s] = q]
    BY <1>2, Zenon DEF TakeAdapter, Deliver
  <2> QED BY <1>0, <2>1, MoveTyped, PumpSame, Zenon DEF Spots
<1>3. ASSUME NEW s \in Sidecars, Report(s) \/ ReportLate(s) PROVE PumpsTyped'
  BY <1>0, <1>3, AdvanceTyped, Zenon DEF Report, ReportLate
<1>4. ASSUME NEW s \in Sidecars, Crash(s) PROVE PumpsTyped'
  <2>1. /\ pc' = [pc EXCEPT ![s] = "idle"] /\ batch' = [batch EXCEPT ![s] = <<>>]
        /\ held' = [held EXCEPT ![s] = Expired] /\ bearer' = [bearer EXCEPT ![s] = NoToken]
    BY <1>4, Zenon DEF Crash
  <2> QED BY <1>0, <2>1, PumpTyped, EmptyOK, NumbersOK, Zenon DEF Spots
<1>5. ASSUME UNCHANGED <<pc, batch, held, bearer>> PROVE PumpsTyped'
  BY <1>0, <1>5, Zenon DEF PumpsTyped
<1>6. ASSUME NEW s \in Sidecars,
             \/ Reconcile(s) \/ ReconcileUnanswered(s) \/ AdapterUp(s) \/ RotateToken(s)
      PROVE  PumpsTyped'
  BY <1>5, <1>6, Zenon DEF Reconcile, ReconcileUnanswered, AdapterUp, RotateToken
<1>7. ASSUME \/ Enqueue \/ LateArrives \/ Toggle \/ ReadReceipt \/ RetryDelivery
             \/ UNCHANGED vars
      PROVE  PumpsTyped'
  BY <1>5, <1>7, Zenon
  DEF Enqueue, LateArrives, Toggle, ReadReceipt, RetryDelivery, vars
<1> QED
  BY <1>0, <1>1, <1>2, <1>3, <1>4, <1>6, <1>7, ClaimTyped, TickHeld, Zenon DEF Next

OthersTyped ==
    /\ owner \in [token : Tokens \union {NoToken}, left : Expired..OwnerLease]
    /\ enabled \in BOOLEAN
    /\ token \in [Sidecars -> Tokens]
    /\ up \in [Sidecars -> {"off", "starting", "live"}]
    /\ late \subseteq [kind : {"ack", "fail"}, m : Messages, token : Tokens]
    /\ sent \subseteq Messages
    /\ events \in 0..MaxEvents

LEMMA ElectTyped ==
    ASSUME TypeOK, NEW s \in Sidecars, Elect(token[s])
    PROVE  owner' \in [token : Tokens \union {NoToken}, left : Expired..OwnerLease]
<1>1. token[s] \in Tokens \union {NoToken} /\ OwnerLease \in Expired..OwnerLease
  BY NumbersOK, Zenon DEF TypeOK
<1>2. [token |-> token[s], left |-> OwnerLease]
         \in [token : Tokens \union {NoToken}, left : Expired..OwnerLease]
  BY <1>1, Zenon
<1> QED BY <1>2, Zenon DEF Elect, TypeOK

LEMMA ReconcileTyped ==
    ASSUME TypeOK, NEW s \in Sidecars, Reconcile(s) \/ ReconcileUnanswered(s)
    PROVE  OthersTyped'
<1>1. UNCHANGED <<enabled, token, late, sent>> /\ events' \in 0..MaxEvents
  BY EventOK, Zenon DEF Reconcile, ReconcileUnanswered
<1>2. owner' \in [token : Tokens \union {NoToken}, left : Expired..OwnerLease]
  BY ElectTyped, Zenon DEF Reconcile, ReconcileUnanswered, TypeOK
<1>3. up' \in [Sidecars -> {"off", "starting", "live"}]
  BY Zenon DEF Reconcile, ReconcileUnanswered, TypeOK
<1> QED BY <1>1, <1>2, <1>3, Zenon DEF TypeOK, OthersTyped

LEMMA ReportLateTyped ==
    ASSUME TypeOK, NEW s \in Sidecars, ReportLate(s) PROVE OthersTyped'
<1>1. UNCHANGED <<owner, enabled, token, up, sent>> /\ events' \in 0..MaxEvents
  BY EventOK, Zenon DEF ReportLate
<1>2. pc[s] \in {"ack", "fail"} /\ Head(batch[s]) \in Messages /\ token[s] \in Tokens
  BY HeadOK, Zenon DEF ReportLate, TypeOK
<1>3. late' \subseteq [kind : {"ack", "fail"}, m : Messages, token : Tokens]
  <2>1. [kind |-> pc[s], m |-> Head(batch[s]), token |-> token[s]]
           \in [kind : {"ack", "fail"}, m : Messages, token : Tokens]
    BY <1>2, Zenon
  <2> QED BY <2>1, Zenon DEF ReportLate, TypeOK
<1> QED BY <1>1, <1>3, Zenon DEF TypeOK, OthersTyped

LEMMA DeliverTyped ==
    ASSUME TypeOK, NEW s \in Sidecars, Deliver(s) PROVE OthersTyped'
<1>1. UNCHANGED <<owner, enabled, token, up, late, events>>
  BY Zenon DEF Deliver
<1>2. Head(batch[s]) \in Messages
  BY HeadOK, Zenon DEF Deliver
<1>3. sent' \subseteq Messages
  BY <1>2, Zenon DEF Deliver, TypeOK
<1> QED BY <1>1, <1>3, Zenon DEF TypeOK, OthersTyped

LEMMA TickTypes == ASSUME TypeOK, Tick PROVE OthersTyped'
<1>1. UNCHANGED <<enabled, token, up, late, sent>> /\ events' \in 0..MaxEvents
  BY EventOK, Zenon DEF Tick
<1>2. owner.left \in Expired..OwnerLease /\ OwnerLease \in Nat
  BY ChannelOutboxAssumption, Zenon DEF TypeOK
<1>3. Sooner(owner.left) \in Expired..OwnerLease
  BY <1>2, SoonerOK, Zenon
<1>4. owner' \in [token : Tokens \union {NoToken}, left : Expired..OwnerLease]
  BY <1>3, Zenon DEF Tick, TypeOK
<1> QED BY <1>1, <1>4, Zenon DEF TypeOK, OthersTyped

LEMMA NextOthersTyped == ASSUME TypeOK, [Next]_vars PROVE OthersTyped'
<1>1. ASSUME NEW s \in Sidecars, AdapterUp(s) \/ Crash(s) PROVE OthersTyped'
  <2>1. UNCHANGED <<owner, enabled, token, late, sent>> /\ events' \in 0..MaxEvents
    BY <1>1, EventOK, Zenon DEF AdapterUp, Crash
  <2>2. up' \in [Sidecars -> {"off", "starting", "live"}]
    BY <1>1, Zenon DEF AdapterUp, Crash, TypeOK
  <2> QED BY <2>1, <2>2, Zenon DEF TypeOK, OthersTyped
<1>2. ASSUME NEW s \in Sidecars, RotateToken(s) PROVE OthersTyped'
  <2>1. UNCHANGED <<owner, enabled, up, late, sent>> /\ events' \in 0..MaxEvents
    BY <1>2, EventOK, Zenon DEF RotateToken
  <2>2. token' \in [Sidecars -> Tokens]
    BY <1>2, Zenon DEF RotateToken, TypeOK
  <2> QED BY <2>1, <2>2, Zenon DEF TypeOK, OthersTyped
<1>3. ASSUME NEW s \in Sidecars,
             Poll(s) \/ Claim(s) \/ ClaimUnanswered(s) \/ TakeAdapter(s) \/ Report(s)
      PROVE  OthersTyped'
  <2>1. UNCHANGED <<owner, enabled, token, up, late, sent>> /\ events' \in 0..MaxEvents
    BY <1>3, EventOK, Zenon DEF Poll, Claim, ClaimUnanswered, TakeAdapter, Report
  <2> QED BY <2>1, Zenon DEF TypeOK, OthersTyped
<1>4. ASSUME LateArrives \/ Toggle PROVE OthersTyped'
  <2>1. UNCHANGED <<owner, token, up, sent>> /\ late' \subseteq late
    BY <1>4, Zenon DEF LateArrives, Toggle
  <2>2. enabled' \in BOOLEAN /\ events' \in 0..MaxEvents
    BY <1>4, EventOK, Zenon DEF LateArrives, Toggle, TypeOK
  <2> QED BY <2>1, <2>2, Zenon DEF TypeOK, OthersTyped
<1>5. ASSUME Enqueue \/ ReadReceipt \/ RetryDelivery \/ UNCHANGED vars PROVE OthersTyped'
  <2>1. UNCHANGED <<owner, enabled, token, up, late, sent>> /\ events' \in 0..MaxEvents
    BY <1>5, EventOK, Zenon DEF Enqueue, ReadReceipt, RetryDelivery, vars
  <2> QED BY <2>1, Zenon DEF TypeOK, OthersTyped
<1> QED
  BY <1>1, <1>2, <1>3, <1>4, <1>5, ReconcileTyped, DeliverTyped, ReportLateTyped,
     TickTypes, Zenon DEF Next

LEMMA TypeParts ==
    ASSUME RowsTyped', PumpsTyped', OthersTyped', Receipts' PROVE TypeInv'
BY Zenon DEF RowsTyped, PumpsTyped, OthersTyped, Receipts, TypeInv, TypeOK

LEMMA InitTyped == Init => TypeInv
<1> SUFFICES ASSUME Init PROVE TypeInv
  BY Zenon
<1>1. Absent \in Rows /\ Absent.status = "absent"
  <2>1. Absent \in Rows
    BY RowOK, NumbersOK, Zenon DEF Absent
  <2> QED BY <2>1, RowIs DEF Absent
<1>2. row \in [Messages -> Rows] /\ ClaimsCounted
  BY <1>1, Zenon DEF Init, ClaimsCounted
<1>3. owner \in [token : Tokens \union {NoToken}, left : Expired..OwnerLease]
  BY NumbersOK, Zenon DEF Init
<1>4. /\ token \in [Sidecars -> Tokens] /\ pc \in [Sidecars -> Spots]
      /\ up \in [Sidecars -> {"off", "starting", "live"}]
      /\ held \in [Sidecars -> Expired..OutboxLease]
      /\ bearer \in [Sidecars -> Tokens \union {NoToken}]
  BY NumbersOK, ChannelOutboxAssumption, Zenon DEF Init, Spots
<1>5. /\ batch \in [Sidecars -> Seq(Messages)]
      /\ \A s \in Sidecars : batch[s] = <<>> <=> pc[s] \in {"idle", "claim"}
  BY EmptyOK, Zenon DEF Init
<1>6. events \in 0..MaxEvents
  BY ChannelOutboxAssumption DEF Init
<1> QED
  BY <1>2, <1>3, <1>4, <1>5, <1>6, Zenon DEF Init, TypeInv, TypeOK

LEMMA TypeInvariance == Spec => []TypeInv
<1>1. TypeInv /\ SentInv /\ SentInv' /\ [Next]_vars => TypeInv'
  <2> SUFFICES ASSUME TypeInv, SentInv, SentInv', [Next]_vars PROVE TypeInv'
    BY Zenon
  <2>1. TypeOK /\ Receipts /\ Receipts'
    BY Zenon DEF TypeInv, SentInv
  <2> QED BY <2>1, NextRowsTyped, NextPumpsTyped, NextOthersTyped, TypeParts, Zenon
<1> QED BY <1>1, InitTyped, SentInvariance, PTL DEF Spec

(* The outbox rows, the leases and the pumps keep their shape: a gateway   *)
(* has a batch exactly while it works on one, the backoff keeps to its     *)
(* cap, and an operator's receipt is always of a failed row.               *)
THEOREM TypeCorrect == Spec => []TypeOK
<1>1. TypeInv => TypeOK
  BY Zenon DEF TypeInv
<1> QED BY <1>1, TypeInvariance, PTL
=============================================================================
