--------------------------- MODULE ChannelOutbox ---------------------------
(***************************************************************************)
(* Outbound delivery on one socket channel: the outbox rows and their      *)
(* leases (store/channel_outbox.py), the lease that elects one gateway as  *)
(* the channel's owner (store/channel_gateway_state.py), the kernel's      *)
(* claim, ack and fail links, and the gateway sidecars that reconcile,     *)
(* run the platform's adapter and pump the outbox                          *)
(* (services/channel_gateway/app.py).                                      *)
(*                                                                         *)
(* A timestamp is kept as the time left until it: "left < 0" is the code's *)
(* lease_expires_at < now, and Tick lets one unit of time pass.            *)
(***************************************************************************)
EXTENDS Integers, Sequences, FiniteSets, Functions

CONSTANTS
    Sidecars,      \* gateway processes that serve the channel
    Tokens,        \* lease_ids of the run tokens, numbered as they are minted
    FirstToken,    \* the token each sidecar is started with
    MaxMessages,   \* bound: rows enqueued
    BatchLimit,    \* the "limit" of a claim
    OutboxLease,   \* the lease_seconds of a claim
    OwnerLease,    \* GATEWAY_OWNER_LEASE_SECONDS
    MaxAttempts,   \* OUTBOX_MAX_ATTEMPTS
    Backoff,       \* OUTBOX_BACKOFF_SECONDS
    BackoffCap,    \* _BACKOFF_CAP
    MaxEvents      \* bound: lapses, lost calls, crashes, rotations, operator acts

ASSUME ChannelOutboxAssumption ==
    /\ Tokens \subseteq Nat \ {0}
    /\ FirstToken \in [Sidecars -> Tokens]
    /\ \A s, t \in Sidecars : s # t => FirstToken[s] # FirstToken[t]
    /\ OutboxLease \in Nat \ {0} /\ OwnerLease \in Nat
    /\ OutboxLease < OwnerLease
    /\ {MaxMessages, BatchLimit, MaxAttempts} \subseteq Nat \ {0}
    /\ {Backoff, BackoffCap, MaxEvents} \subseteq Nat

VARIABLES
    row,      \* channel_outbox, by order of created_at
    owner,    \* the channel's row of channel_gateway_leases
    enabled,  \* channels.enabled
    token,    \* the token each sidecar has loaded
    up,       \* "off", "starting" or "live": each sidecar's adapter
    pc,       \* where each sidecar's _pump_outbox is
    batch,    \* the claimed messages it has not settled yet
    held,     \* the time left of that batch's lease
    bearer,   \* the token of the link that claimed it
    late,     \* ack and fail calls the client gave up on, still on their way
    seen,     \* failed rows an operator holds a current receipt of
    sent,     \* history: messages the platform accepted
    events    \* how many of the bounded events happened

vars == <<row, owner, enabled, token, up, pc, batch, held, bearer, late, seen,
          sent, events>>

Messages == 1..MaxMessages
NoToken == 0
Expired == -1

Row(status, attempts, lessee, left, wait) ==
    [status |-> status, attempts |-> attempts, owner |-> lessee,
     left |-> left, wait |-> wait]

Absent == Row("absent", 0, NoToken, Expired, 0)

Rows ==
    [status : {"absent", "pending", "in_flight", "delivered", "failed"},
     attempts : 0..MaxAttempts,
     owner : Tokens \union {NoToken},
     left : Expired..OutboxLease,
     wait : 0..(Backoff * BackoffCap)]

Spots == {"idle", "claim", "settle", "deliver", "ack", "fail"}

\* Every variable keeps its shape: a sidecar has a batch exactly while it works
\* on one, and only failed rows have a read receipt.
TypeOK ==
    /\ row \in [Messages -> Rows]
    /\ owner \in [token : Tokens \union {NoToken}, left : Expired..OwnerLease]
    /\ enabled \in BOOLEAN
    /\ token \in [Sidecars -> Tokens]
    /\ up \in [Sidecars -> {"off", "starting", "live"}]
    /\ pc \in [Sidecars -> Spots]
    /\ batch \in [Sidecars -> Seq(Messages)]
    /\ \A s \in Sidecars : batch[s] = <<>> <=> pc[s] \in {"idle", "claim"}
    /\ held \in [Sidecars -> Expired..OutboxLease]
    /\ bearer \in [Sidecars -> Tokens \union {NoToken}]
    /\ late \subseteq [kind : {"ack", "fail"}, m : Messages, token : Tokens]
    /\ seen \subseteq {m \in Messages : row[m].status = "failed"}
    /\ sent \subseteq Messages
    /\ events \in 0..MaxEvents

Init ==
    /\ row = [m \in Messages |-> Absent]
    /\ owner = [token |-> NoToken, left |-> Expired]
    /\ enabled = TRUE
    /\ token = FirstToken
    /\ up = [s \in Sidecars |-> "off"]
    /\ pc = [s \in Sidecars |-> "idle"]
    /\ batch = [s \in Sidecars |-> <<>>]
    /\ held = [s \in Sidecars |-> Expired]
    /\ bearer = [s \in Sidecars |-> NoToken]
    /\ late = {}
    /\ seen = {}
    /\ sent = {}
    /\ events = 0

Event == events < MaxEvents /\ events' = events + 1

----------------------------------------------------------------------------
(* The ownership lease: one token owns the channel until its lease ends.   *)

\* claim_channel_gateway_lease: renew one's own lease or take an ended one.
Electable(t) == owner.token = t \/ owner.left <= 0

Elect(t) ==
    owner' = IF Electable(t) THEN [token |-> t, left |-> OwnerLease] ELSE owner

\* A plausible bug: the claim link forgets minimum_remaining_seconds.
OwnsNow(t) == owner.token = t /\ owner.left > 0

\* channel_gateway_lease_owned, as the claim link asks it: the lease must
\* outlast the leases the claim is about to grant.
Owns(t) == owner.token = t /\ owner.left > OutboxLease

\* reconcile_gateway and _reconcile_once: the owner keeps its adapter or starts
\* one, every other sidecar stops its own.
Reconcile(s) ==
    /\ \/ /\ enabled
          /\ Elect(token[s])
          /\ up' = [up EXCEPT ![s] = IF Electable(token[s])
                                     THEN IF @ = "off" THEN "starting" ELSE @
                                     ELSE "off"]
       \/ /\ ~enabled
          /\ up' = [up EXCEPT ![s] = "off"]
          /\ UNCHANGED owner
    /\ UNCHANGED <<row, enabled, token, pc, batch, held, bearer, late,
                   seen, sent, events>>

\* The kernel granted the lease and the answer is lost: adapters stay.
ReconcileUnanswered(s) ==
    /\ Event
    /\ enabled
    /\ Elect(token[s])
    /\ UNCHANGED <<row, enabled, token, up, pc, batch, held, bearer, late,
                   seen, sent>>

\* _run_adapter: a start that fails is tried again, so only the start that
\* succeeds is a step.
AdapterUp(s) ==
    /\ up[s] = "starting"
    /\ up' = [up EXCEPT ![s] = "live"]
    /\ UNCHANGED <<row, owner, enabled, token, pc, batch, held, bearer,
                   late, seen, sent, events>>

----------------------------------------------------------------------------
(* The outbox rows.  Each operator is one statement of the store.          *)

\* enqueue_channel_outbox
Enqueue ==
    \E m \in Messages :
        /\ row[m] = Absent
        /\ \A n \in Messages : n < m => row[n] # Absent
        /\ row' = [row EXCEPT ![m] = Row("pending", 0, NoToken, Expired, 0)]
        /\ UNCHANGED <<owner, enabled, token, up, pc, batch, held, bearer,
                       late, seen, sent, events>>

\* A plausible bug: a claim that lapsed is never taken over.
ClaimablePending(m) == row[m].status = "pending" /\ row[m].wait = 0

\* The rows claim_channel_outbox may take.
Claimable(m) ==
    \/ row[m].status = "pending" /\ row[m].wait = 0
    \/ row[m].status = "in_flight" /\ row[m].left < 0

\* The rows it takes, the oldest of them ...
Oldest ==
    {m \in Messages :
        /\ Claimable(m)
        /\ Cardinality({n \in Messages : n < m /\ Claimable(n)}) < BatchLimit}

\* ... in their order: the i-th has i - 1 of them before it.
Claimed ==
    [i \in 1..Cardinality(Oldest) |->
        CHOOSE m \in Oldest : Cardinality({n \in Oldest : n < m}) = i - 1]

Least(a, b) == IF a <= b THEN a ELSE b

\* Claims count beyond MaxAttempts in the code; only >= is ever asked of them.
ClaimedRow(m, t) ==
    Row("in_flight", Least(row[m].attempts + 1, MaxAttempts), t, OutboxLease,
        row[m].wait)

\* A plausible bug: the compare-and-swap forgets the status.
SettlesUnchecked(m, t) == row[m].owner = t

\* The rows ack_channel_outbox and fail_channel_outbox may settle for t.
Settles(m, t) == row[m].status = "in_flight" /\ row[m].owner = t

Acked(m) == [row[m] EXCEPT !.status = "delivered"]

\* Below the cap the row waits out its backoff, at the cap it is given up.
Failed(m) ==
    IF row[m].attempts >= MaxAttempts
    THEN Row("failed", row[m].attempts, NoToken, Expired, row[m].wait)
    ELSE Row("pending", row[m].attempts, NoToken, Expired,
             Backoff * Least(2 ^ (row[m].attempts - 1), BackoffCap))

\* The kernel's answer to one ack or fail link; 409 changes nothing.
Settle(kind, m, t) ==
    row' = IF Settles(m, t)
           THEN [row EXCEPT ![m] = IF kind = "ack" THEN Acked(m) ELSE Failed(m)]
           ELSE row

----------------------------------------------------------------------------
(* The pump of one sidecar.                                                *)

\* claim_gateway_outbox up to _owned_channels: without ownership there is
\* nothing to claim, and the pump sleeps and asks again.
Poll(s) ==
    /\ pc[s] = "idle"
    /\ enabled
    /\ Owns(token[s])
    /\ pc' = [pc EXCEPT ![s] = "claim"]
    /\ bearer' = [bearer EXCEPT ![s] = token[s]]
    /\ UNCHANGED <<row, owner, enabled, token, up, batch, held, late, seen,
                   sent, events>>

TakeRows(s) ==
    row' = [m \in Messages |-> IF m \in Oldest
                               THEN ClaimedRow(m, bearer[s]) ELSE row[m]]

Claim(s) ==
    /\ pc[s] = "claim"
    /\ TakeRows(s)
    /\ batch' = [batch EXCEPT ![s] = Claimed]
    /\ held' = [held EXCEPT ![s] = IF Claimed = <<>> THEN Expired
                                   ELSE OutboxLease]
    /\ bearer' = [bearer EXCEPT ![s] = IF Claimed = <<>> THEN NoToken ELSE @]
    /\ pc' = [pc EXCEPT ![s] = IF Claimed = <<>> THEN "idle" ELSE "settle"]
    /\ UNCHANGED <<owner, enabled, token, up, late, seen, sent, events>>

\* The rows are claimed and the answer is lost.
ClaimUnanswered(s) ==
    /\ Event
    /\ pc[s] = "claim"
    /\ TakeRows(s)
    /\ bearer' = [bearer EXCEPT ![s] = NoToken]
    /\ pc' = [pc EXCEPT ![s] = "idle"]
    /\ UNCHANGED <<owner, enabled, token, up, batch, held, late, seen, sent>>

\* A plausible bug: a message no adapter could take is acked.
TakeAdapterOrAck(s) ==
    /\ pc[s] = "settle"
    /\ pc' = [pc EXCEPT ![s] = IF up[s] = "live" THEN "deliver" ELSE "ack"]
    /\ UNCHANGED <<row, owner, enabled, token, up, batch, held, bearer,
                   late, seen, sent, events>>

\* _settle: find the adapter, or fail the message.
TakeAdapter(s) ==
    /\ pc[s] = "settle"
    /\ pc' = [pc EXCEPT ![s] = IF up[s] = "live" THEN "deliver" ELSE "fail"]
    /\ UNCHANGED <<row, owner, enabled, token, up, batch, held, bearer,
                   late, seen, sent, events>>

\* adapter.deliver returns, or raises before or after the platform took it.
Deliver(s) ==
    /\ pc[s] = "deliver"
    /\ \/ /\ pc' = [pc EXCEPT ![s] = "ack"]
          /\ sent' = sent \union {Head(batch[s])}
       \/ /\ pc' = [pc EXCEPT ![s] = "fail"]
          /\ sent' \in {sent, sent \union {Head(batch[s])}}
    /\ UNCHANGED <<row, owner, enabled, token, up, batch, held, bearer,
                   late, seen, events>>

\* The pump goes on to the next message of the batch.
Advance(s) ==
    /\ batch' = [batch EXCEPT ![s] = Tail(@)]
    /\ pc' = [pc EXCEPT ![s] = IF Len(batch[s]) = 1 THEN "idle" ELSE "settle"]
    /\ held' = [held EXCEPT ![s] = IF Len(batch[s]) = 1 THEN Expired ELSE @]
    /\ bearer' = [bearer EXCEPT ![s] = IF Len(batch[s]) = 1 THEN NoToken ELSE @]

\* _safe_ack, _safe_fail
Report(s) ==
    /\ pc[s] \in {"ack", "fail"}
    /\ Settle(pc[s], Head(batch[s]), token[s])
    /\ Advance(s)
    /\ UNCHANGED <<owner, enabled, token, up, late, seen, sent, events>>

\* The client's call times out: the pump goes on, the call may still arrive.
ReportLate(s) ==
    /\ Event
    /\ pc[s] \in {"ack", "fail"}
    /\ late' = late \union {[kind |-> pc[s], m |-> Head(batch[s]),
                             token |-> token[s]]}
    /\ Advance(s)
    /\ UNCHANGED <<row, owner, enabled, token, up, seen, sent>>

\* It arrives, or is dropped on the way.
LateArrives ==
    \E call \in late :
        /\ late' = late \ {call}
        /\ \/ Settle(call.kind, call.m, call.token)
           \/ UNCHANGED row
        /\ UNCHANGED <<owner, enabled, token, up, pc, batch, held, bearer, seen, sent,
                       events>>

----------------------------------------------------------------------------
(* Time, failures and the operator.                                        *)

Sooner(left) == IF left = Expired THEN Expired ELSE left - 1

\* The reads and the update of one claim link are closer than a unit of time.
\* A pump that is still settling its batch when the lease runs out is one of
\* the bounded events.
Tick ==
    /\ \A s \in Sidecars : pc[s] # "claim"
    /\ \/ /\ \A s \in Sidecars : held[s] # 0
          /\ UNCHANGED events
       \/ /\ \E s \in Sidecars : held[s] = 0
          /\ Event
    /\ row' = [m \in Messages |->
                  [row[m] EXCEPT !.left = Sooner(@),
                                 !.wait = IF @ = 0 THEN 0 ELSE @ - 1]]
    /\ owner' = [owner EXCEPT !.left = Sooner(@)]
    /\ held' = [s \in Sidecars |-> Sooner(held[s])]
    /\ UNCHANGED <<enabled, token, up, pc, batch, bearer, late, seen, sent>>

\* The process dies and is started again with the token it had.
Crash(s) ==
    /\ Event
    /\ up' = [up EXCEPT ![s] = "off"]
    /\ pc' = [pc EXCEPT ![s] = "idle"]
    /\ batch' = [batch EXCEPT ![s] = <<>>]
    /\ held' = [held EXCEPT ![s] = Expired]
    /\ bearer' = [bearer EXCEPT ![s] = NoToken]
    /\ UNCHANGED <<row, owner, enabled, token, late, seen, sent>>

\* _reload_token: a fresh token replaces one the kernel refused.
RotateToken(s) ==
    /\ Event
    /\ \E t \in Tokens : /\ \A u \in Sidecars : token[u] < t
                         /\ token' = [token EXCEPT ![s] = t]
    /\ UNCHANGED <<row, owner, enabled, up, pc, batch, held, bearer, late,
                   seen, sent>>

\* control.channel.configure and disconnect
Toggle ==
    /\ Event
    /\ enabled' = ~enabled
    /\ UNCHANGED <<row, owner, token, up, pc, batch, held, bearer, late,
                   seen, sent>>

\* The approval of a retry reads the receipt of a failed row on an enabled
\* channel: its updated_at is what the retry must quote.
ReadReceipt ==
    \E m \in Messages \ seen :
        /\ Event
        /\ enabled
        /\ row[m].status = "failed"
        /\ seen' = seen \union {m}
        /\ UNCHANGED <<row, owner, enabled, token, up, pc, batch, held, bearer, late,
                       sent>>

\* A plausible bug: the retry does not compare updated_at, so an old receipt
\* serves again.
RetryAnyReceipt ==
    \E m \in seen :
        /\ row' = [row EXCEPT ![m] = Row("pending", 0, NoToken, Expired, 0)]
        /\ UNCHANGED <<owner, enabled, token, up, pc, batch, held, bearer,
                       late, seen, sent, events>>

\* retry_terminal_channel_delivery.  Nothing but a retry writes a failed row,
\* so a receipt is out of date exactly when one happened since.
RetryDelivery ==
    \E m \in seen :
        /\ row' = [row EXCEPT ![m] = Row("pending", 0, NoToken, Expired, 0)]
        /\ seen' = seen \ {m}
        /\ UNCHANGED <<owner, enabled, token, up, pc, batch, held, bearer, late, sent,
                       events>>

----------------------------------------------------------------------------

PumpStep(s) == Claim(s) \/ TakeAdapter(s) \/ Deliver(s) \/ Report(s)

Next ==
    \/ \E s \in Sidecars :
          \/ Reconcile(s) \/ ReconcileUnanswered(s) \/ AdapterUp(s)
          \/ Poll(s) \/ Claim(s) \/ ClaimUnanswered(s) \/ TakeAdapter(s)
          \/ Deliver(s) \/ Report(s) \/ ReportLate(s)
          \/ Crash(s) \/ RotateToken(s)
    \/ Enqueue \/ LateArrives \/ Tick \/ Toggle \/ ReadReceipt \/ RetryDelivery

Spec == Init /\ [][Next]_vars

\* Every sidecar's loops run on.  Poll is asked again every poll_seconds (2 s)
\* while a renewal every reconcile_seconds (10 s) keeps ownership longer than
\* an outbox lease, so an owner that can poll again and again does.
FairSpec ==
    /\ Spec
    /\ SF_vars(Tick)
    /\ \A s \in Sidecars : /\ WF_vars(Reconcile(s))
                           /\ SF_vars(Poll(s))
                           /\ WF_vars(PumpStep(s))

----------------------------------------------------------------------------

\* claim_channel_outbox under _owned_channels: no two gateways hold an
\* unexpired claim of the same message, whatever late ack or fail calls, lost
\* answers, crashes and hand-overs of the channel come between.
OneLiveClaimer ==
    \A s, t \in Sidecars :
        s # t /\ held[s] >= 0 /\ held[t] >= 0
            => Range(batch[s]) \intersect Range(batch[t]) = {}

\* _settle and ack_channel_outbox: a row is called delivered only if the
\* platform accepted its message.
DeliveredWasSent ==
    \A m \in Messages : row[m].status = "delivered" => m \in sent

\* ack, fail, claim and retry: a delivered row is final; no stale claimer, late
\* call or operator's retry opens it again.
DeliveredIsFinal ==
    [][\A m \in Messages :
           row[m].status = "delivered" => row'[m].status = "delivered"]_vars

\* The pump: while the channel is enabled every message is delivered or given
\* up; lost claims, late calls, crashes and token rotations leave none behind.
EventuallySettled ==
    \A m \in Messages :
        row[m].status \in {"pending", "in_flight"}
            ~> \/ row[m].status \in {"delivered", "failed"}
               \/ ~enabled
============================================================================
