----------------------------- MODULE AgentTurns -----------------------------
(***************************************************************************)
(* The turns of one named agent.  Chat turns (lane interactive) and work   *)
(* items (lane background) queue for the agent's one turn lease through    *)
(* AgentTurnCoordinator.hold (fleet/agent_turns.py); peer messages take    *)
(* the same lease when a pump's mailbox claims them                        *)
(* (fleet/agent_mailbox.py, store/agent_*.py); the pump alternates between *)
(* its mailbox and the filed work (WorkPump.run_once).                     *)
(*                                                                         *)
(* Time is abstracted: a lease whose heartbeat has stopped runs out at     *)
(* some moment, a beating one only as one of the bounded events.  A turn   *)
(* token names the taker of hold, whose owner is fresh, or the message and *)
(* the number of its claim.                                                *)
(***************************************************************************)
EXTENDS Naturals, Sequences, FiniteSets, Functions

CONSTANTS
    Chats,        \* callers of run_named_chat_turn
    Works,        \* work items the agent handles
    MaxMessages,  \* bound: peer messages sent to the agent
    Pumps,        \* fleet workers, each with its own mailbox service
    Durable,      \* whether work bodies run on an engine, not in the pump
    MaxAttempts,  \* AgentMailboxService.max_attempts
    MaxEvents     \* bound: lapses, crashes, failed store calls, operator acts

ASSUME AgentTurnsAssumption ==
    /\ Chats \intersect Works = {}
    /\ {MaxMessages, MaxAttempts} \subseteq Nat \ {0}
    /\ MaxEvents \in Nat
    /\ Durable \in BOOLEAN

VARIABLES
    turn,     \* the agent's row of agent_turn_leases
    queue,    \* agent_turn_waiters, by requested_at
    enabled,  \* named_agents.enabled
    hold,     \* where each taker is in AgentTurnCoordinator.hold
    lost,     \* takers and pumps whose heartbeat has stopped
    row,      \* agent_message_deliveries, by created_at
    replied,  \* the claim that committed each message's reply, 0 if none did
    pump,     \* where each pump is in run_once, and the claim it works on
    prefer,   \* _prefer_mailbox
    overrun,  \* history: tokens whose lease ran out under a running body
    events    \* how many of the bounded events happened

vars == <<turn, queue, enabled, hold, lost, row, replied, pump, prefer,
          overrun, events>>

Takers == Chats \union Works
Messages == 1..MaxMessages
Nobody == <<"nobody", 0, 0>>
Free == [token |-> Nobody, lane |-> "none", live |-> FALSE]
Lane(h) == IF h \in Chats THEN "interactive" ELSE "background"
TURN_LANE_PRIORITY == [interactive |-> 0, peer |-> 10, background |-> 20]
HoldToken(h) == <<h, 0, 0>>
ClaimToken(m, k) == <<"message", m, k>>
Tokens ==
    {Nobody} \union {HoldToken(h) : h \in Takers}
        \union {ClaimToken(m, k) : m \in Messages, k \in 1..MaxAttempts}

At(pc) == [pc |-> pc, m |-> 0, k |-> 0, work |-> "none"]
Top == At("top")
MailToken(p) == ClaimToken(pump[p].m, pump[p].k)

\* The bodies that run now, by the token of their turn.
Running ==
    {HoldToken(h) : h \in {g \in Takers : hold[g] = "run"}}
        \union {MailToken(p) : p \in {q \in Pumps : pump[q].pc = "run"}}

Leases ==
    [token : Tokens, lane : {"none"} \union DOMAIN TURN_LANE_PRIORITY,
     live : BOOLEAN]

Stages == {"filed", "called", "wait", "run", "end", "done", "dead"}

Rows ==
    [status : {"absent", "pending", "in_flight", "delivered", "failed"},
     attempts : 0..MaxAttempts, due : BOOLEAN, live : BOOLEAN,
     owner : Pumps \union {"none"}]

Spots ==
    [pc : {"top", "work", "again", "busy", "run", "complete", "fail", "refuse"},
     m : 0..MaxMessages, k : 0..MaxAttempts, work : Works \union {"none"}]

\* Every variable keeps its shape: the queue holds a waiter once, and no message
\* is claimed more often than MaxAttempts.
TypeOK ==
    /\ turn \in Leases
    /\ queue \in Seq(Takers) /\ IsInjective(queue)
    /\ enabled \in BOOLEAN
    /\ hold \in [Takers -> Stages]
    /\ lost \subseteq Takers \union Pumps
    /\ row \in [Messages -> Rows]
    /\ replied \in [Messages -> 0..MaxAttempts]
    /\ pump \in [Pumps -> Spots]
    /\ prefer \in [Pumps -> BOOLEAN]
    /\ overrun \subseteq Tokens
    /\ events \in 0..MaxEvents

Init ==
    /\ turn = Free
    /\ queue = <<>>
    /\ enabled = TRUE
    /\ hold = [h \in Takers |-> IF h \in Chats THEN "called" ELSE "filed"]
    /\ lost = {}
    /\ row = [m \in Messages |-> [status |-> "absent", attempts |-> 0,
                                  due |-> TRUE, live |-> FALSE,
                                  owner |-> "none"]]
    /\ replied = [m \in Messages |-> 0]
    /\ pump = [p \in Pumps |-> Top]
    /\ prefer = [p \in Pumps |-> TRUE]
    /\ overrun = {}
    /\ events = 0

Event == events < MaxEvents /\ events' = events + 1

Held(token) == turn.live /\ turn.token = token

----------------------------------------------------------------------------
(* The durable priority queue of takers.                                   *)

\* A plausible bug: a message given up still counts as waiting.
DuePeerUndelivered(m) ==
    row[m].status \in {"pending", "in_flight", "failed"} /\ ~row[m].live

\* _due_peer_message: the rows a mailbox could claim now.
DuePeer(m) ==
    \/ row[m].status = "pending" /\ row[m].due
    \/ row[m].status = "in_flight" /\ ~row[m].live

PlaceOf(h, q) == CHOOSE i \in DOMAIN q : q[i] = h

Before(g, h, q) ==
    LET rank(x) == TURN_LANE_PRIORITY[Lane(x)]
    IN  \/ rank(g) < rank(h)
        \/ rank(g) = rank(h) /\ PlaceOf(g, q) < PlaceOf(h, q)

Selected(h, q) ==
    /\ \A g \in Range(q) \ {h} : Before(h, g, q)
    /\ Lane(h) = "background" => ~ \E m \in Messages : DuePeer(m)

Joined(h) == IF h \in Range(queue) THEN queue ELSE Append(queue, h)

\* The deletion of a waiter's row: those behind it move up.
Without(q, h) ==
    IF h \notin Range(q) THEN q
    ELSE [i \in 1..(Len(q) - 1) |-> IF i < PlaceOf(h, q) THEN q[i] ELSE q[i + 1]]

\* acquire_agent_turn, asked again every poll_seconds until it grants a lease.
Acquire(h) ==
    /\ hold[h] \in {"called", "wait"}
    /\ enabled
    /\ \/ /\ ~turn.live
          /\ Selected(h, Joined(h))
          /\ turn' = [token |-> HoldToken(h), lane |-> Lane(h), live |-> TRUE]
          /\ queue' = Without(queue, h)
          /\ hold' = [hold EXCEPT ![h] = "run"]
       \/ /\ turn.live \/ ~Selected(h, Joined(h))
          /\ turn' = IF turn.live THEN turn ELSE Free
          /\ queue' = Joined(h)
          /\ hold' = [hold EXCEPT ![h] = "wait"]
    /\ UNCHANGED <<enabled, lost, row, replied, pump, prefer, overrun, events>>

\* The end of a work body frees the pump that awaits it.
Freed(h) == [p \in Pumps |-> IF pump[p].work = h THEN Top ELSE pump[p]]

\* The wait ends in an exception: the agent is disabled, or the caller is
\* cancelled.  The waiter's row is deleted, or outlives a failed delete.
GiveUp(h) ==
    /\ hold[h] \in {"called", "wait"}
    /\ \/ ~enabled /\ UNCHANGED events
       \/ enabled /\ Event
    /\ hold' = [hold EXCEPT ![h] = "done"]
    /\ queue' \in {queue, Without(queue, h)}
    /\ pump' = Freed(h)
    /\ UNCHANGED <<turn, enabled, lost, row, replied, prefer, overrun>>

\* A waiter nobody refreshes is dropped when its expires_at has passed.
WaiterExpires(h) ==
    /\ h \in Range(queue)
    /\ hold[h] \in {"done", "dead"}
    /\ queue' = Without(queue, h)
    /\ UNCHANGED <<turn, enabled, hold, lost, row, replied, pump, prefer,
                   overrun, events>>

BodyEnds(h) ==
    /\ hold[h] = "run"
    /\ hold' = [hold EXCEPT ![h] = "end"]
    /\ UNCHANGED <<turn, queue, enabled, lost, row, replied, pump, prefer,
                   overrun, events>>

\* A plausible bug: a release that does not compare the token.
ReleasedAny(token) == Free

\* release_agent_turn, and the release that ends a settled delivery.
Released(token) == IF turn.token = token THEN Free ELSE turn

\* hold's finally: the release may fail, and then the lease has to run out.
Release(h) ==
    /\ hold[h] = "end"
    /\ \/ turn' = Released(HoldToken(h)) /\ UNCHANGED events
       \/ Event /\ UNCHANGED turn
    /\ hold' = [hold EXCEPT ![h] = "done"]
    /\ lost' = lost \union {h}
    /\ pump' = Freed(h)
    /\ UNCHANGED <<queue, enabled, row, replied, prefer, overrun>>

----------------------------------------------------------------------------
(* Heartbeats, lapses and crashes.                                         *)

\* The body a token names beats no more.
Silent(token) ==
    /\ \A h \in Takers : token = HoldToken(h) =>
           h \in lost \/ hold[h] \notin {"run", "end"}
    /\ \A p \in Pumps : token = MailToken(p) => p \in lost

\* The lease of the current turn runs out; a claim's delivery row has the same
\* expiry.  Under a beating body that takes a stall of the process.
Expire ==
    /\ turn.live
    /\ \/ Silent(turn.token) /\ UNCHANGED events
       \/ ~Silent(turn.token) /\ Event
    /\ turn' = [turn EXCEPT !.live = FALSE]
    /\ row' = [m \in Messages |->
                  IF turn.token = ClaimToken(m, row[m].attempts)
                  THEN [row[m] EXCEPT !.live = FALSE] ELSE row[m]]
    /\ overrun' = overrun \union (Running \intersect {turn.token})
    /\ UNCHANGED <<queue, enabled, hold, lost, replied, pump, prefer>>

\* _heartbeat finds its lease gone, or its store call raises.
BeatLost(h) ==
    /\ hold[h] = "run" /\ h \notin lost
    /\ \/ ~Held(HoldToken(h)) /\ UNCHANGED events
       \/ Event
    /\ lost' = lost \union {h}
    /\ UNCHANGED <<turn, queue, enabled, hold, row, replied, pump, prefer,
                   overrun>>

\* _heartbeat_claim, the same for a pump's claim.
BeatClaimLost(p) ==
    /\ pump[p].pc = "run" /\ p \notin lost
    /\ \/ ~Held(MailToken(p)) /\ UNCHANGED events
       \/ Event
    /\ lost' = lost \union {p}
    /\ UNCHANGED <<turn, queue, enabled, hold, row, replied, pump, prefer,
                   overrun>>

\* A process dies: a chat's, an engine's, or a pump's with what it runs.
CrashTaker(h) ==
    /\ Event
    /\ hold[h] \in {"wait", "run", "end"}
    /\ h \in Chats \/ Durable
    /\ hold' = [hold EXCEPT ![h] = "dead"]
    /\ UNCHANGED <<turn, queue, enabled, lost, row, replied, pump, prefer,
                   overrun>>

CrashPump(p) ==
    /\ Event
    /\ pump[p].pc \notin {"top", "work", "again"}
    /\ pump' = [pump EXCEPT ![p] = Top]
    /\ prefer' = [prefer EXCEPT ![p] = TRUE]
    /\ lost' = lost \ {p}
    /\ hold' = [h \in Takers |-> IF pump[p].work = h THEN "dead" ELSE hold[h]]
    /\ UNCHANGED <<turn, queue, enabled, row, replied, overrun>>

\* deactivate_absent_named_agents
Disable ==
    /\ Event
    /\ enabled
    /\ enabled' = FALSE
    /\ UNCHANGED <<turn, queue, hold, lost, row, replied, pump, prefer, overrun>>

----------------------------------------------------------------------------
(* The mailbox: messages sent to the agent, and the claims of the pumps.   *)

\* enqueue_agent_message
Send ==
    \E m \in Messages :
        /\ row[m].status = "absent"
        /\ \A n \in Messages : n < m => row[n].status # "absent"
        /\ row' = [row EXCEPT ![m].status = "pending"]
        /\ UNCHANGED <<turn, queue, enabled, hold, lost, replied, pump, prefer,
                       overrun, events>>

\* The backoff of a failed delivery has passed.
Due(m) ==
    /\ row[m].status = "pending" /\ ~row[m].due
    /\ row' = [row EXCEPT ![m].due = TRUE]
    /\ UNCHANGED <<turn, queue, enabled, hold, lost, replied, pump, prefer,
                   overrun, events>>

\* _expire_deliveries: rows of a disabled agent, and lapsed last attempts.
Swept(m) ==
    IF \/ ~enabled /\ \/ row[m].status = "pending"
                      \/ row[m].status = "in_flight" /\ ~row[m].live
       \/ /\ row[m].status = "in_flight" /\ ~row[m].live
          /\ row[m].attempts >= MaxAttempts
    THEN [row[m] EXCEPT !.status = "failed", !.owner = "none", !.live = FALSE]
    ELSE row[m]

\* A plausible bug: the cap on attempts is not asked.
EligibleUncapped(m) ==
    /\ enabled /\ ~turn.live
    /\ \A h \in Range(queue) : Lane(h) # "interactive"
    /\ DuePeer(m)

\* _select_mailbox and _oldest_message: no live turn, no interactive waiter.
Eligible(m) ==
    /\ enabled /\ ~turn.live
    /\ \A h \in Range(queue) : Lane(h) # "interactive"
    /\ DuePeer(m) /\ row[m].attempts < MaxAttempts

\* run_once asks the mailbox first when it prefers it, else after the work.
TryMail(p) ==
    /\ (pump[p].pc = "top" /\ prefer[p]) \/ pump[p].pc = "again"
    /\ \/ \E m \in Messages :
             /\ Eligible(m)
             /\ \A n \in Messages : Eligible(n) => m <= n
             /\ row' = [n \in Messages |->
                           IF n = m
                           THEN [status |-> "in_flight", owner |-> p,
                                 attempts |-> row[m].attempts + 1,
                                 due |-> TRUE, live |-> TRUE]
                           ELSE Swept(n)]
             /\ turn' = [token |-> ClaimToken(m, row[m].attempts + 1),
                         lane |-> "peer", live |-> TRUE]
             /\ pump' = [pump EXCEPT ![p] =
                            [pc |-> "run", m |-> m, k |-> row[m].attempts + 1,
                             work |-> "none"]]
             /\ prefer' = [prefer EXCEPT ![p] = FALSE]
       \/ /\ \A m \in Messages : ~Eligible(m)
          /\ row' = [m \in Messages |-> Swept(m)]
          /\ pump' = [pump EXCEPT ![p] =
                         IF pump[p].pc = "again" THEN Top ELSE At("work")]
          /\ prefer' = [prefer EXCEPT ![p] = TRUE]
          /\ UNCHANGED turn
    /\ UNCHANGED <<queue, enabled, hold, lost, replied, overrun, events>>

\* claim_work_item: an item of this agent, or none.  A body on the engine
\* leaves the pump free, any other the pump waits for.
TryWork(p) ==
    /\ (pump[p].pc = "top" /\ ~prefer[p]) \/ pump[p].pc = "work"
    /\ \/ \E w \in Works :
             /\ hold[w] = "filed"
             /\ hold' = [hold EXCEPT ![w] = "called"]
             /\ pump' = [pump EXCEPT ![p] = IF Durable THEN Top
                                            ELSE [At("busy") EXCEPT !.work = w]]
             /\ prefer' = [prefer EXCEPT ![p] = TRUE]
       \/ /\ \A w \in Works : hold[w] # "filed"
          /\ pump' = [pump EXCEPT ![p] = At("again")]
          /\ UNCHANGED <<hold, prefer>>
    /\ UNCHANGED <<turn, queue, enabled, lost, row, replied, overrun, events>>

\* runner.respond: an answer, a degraded or raising turn, or a message whose
\* runner or authority is missing.
Respond(p) ==
    /\ pump[p].pc = "run"
    /\ \E to \in {"complete", "fail", "refuse"} :
           pump' = [pump EXCEPT ![p].pc = to]
    /\ UNCHANGED <<turn, queue, enabled, hold, lost, row, replied, prefer,
                   overrun, events>>

\* A plausible bug: the fence asks only whether the message is in flight.
LiveDeliveryOfAnyone(p) == row[pump[p].m].status = "in_flight"

\* _live_delivery: the delivery and the turn still belong to this claim.
LiveDelivery(p) ==
    LET m == pump[p].m
    IN  /\ row[m].status = "in_flight" /\ row[m].live /\ row[m].owner = p
        /\ Held(MailToken(p))

Settled(p, status, due) ==
    /\ row' = [row EXCEPT ![pump[p].m] =
                  [status |-> status, attempts |-> @.attempts, due |-> due,
                   live |-> FALSE, owner |-> "none"]]
    /\ turn' = Released(MailToken(p))

BackToTop(p) == pump' = [pump EXCEPT ![p] = Top] /\ lost' = lost \ {p}

\* complete_agent_message, unless the heartbeat has found the lease lost.
Commits(p) ==
    IF p \notin lost /\ LiveDelivery(p)
    THEN /\ Settled(p, "delivered", TRUE)
         /\ replied' = [replied EXCEPT ![pump[p].m] = pump[p].k]
    ELSE UNCHANGED <<row, turn, replied>>

Complete(p) ==
    /\ pump[p].pc = "complete"
    /\ Commits(p)
    /\ BackToTop(p)
    /\ UNCHANGED <<queue, enabled, hold, prefer, overrun, events>>

\* The store call raises, before or after its commit; the turn is then failed.
CompleteRaises(p) ==
    /\ Event
    /\ pump[p].pc = "complete" /\ p \notin lost
    /\ Commits(p) \/ UNCHANGED <<row, turn, replied>>
    /\ pump' = [pump EXCEPT ![p].pc = "fail"]
    /\ UNCHANGED <<queue, enabled, hold, lost, prefer, overrun>>

\* fail_agent_message; its own exception leaves the claim to lapse.
Fail(p) ==
    /\ pump[p].pc \in {"fail", "refuse"}
    /\ \/ /\ IF ~LiveDelivery(p) THEN UNCHANGED <<row, turn>>
             ELSE IF pump[p].pc = "fail" /\ pump[p].k < MaxAttempts
             THEN Settled(p, "pending", FALSE)
             ELSE Settled(p, "failed", TRUE)
          /\ UNCHANGED events
       \/ Event /\ UNCHANGED <<row, turn>>
    /\ BackToTop(p)
    /\ UNCHANGED <<queue, enabled, hold, replied, prefer, overrun>>

----------------------------------------------------------------------------

TakerStep(h) == Acquire(h) \/ (~enabled /\ GiveUp(h)) \/ BodyEnds(h) \/ Release(h)

PumpStep(p) ==
    TryMail(p) \/ TryWork(p) \/ Respond(p) \/ Complete(p) \/ Fail(p)

Next ==
    \/ \E h \in Takers : \/ Acquire(h) \/ GiveUp(h) \/ WaiterExpires(h)
                         \/ BodyEnds(h) \/ Release(h) \/ BeatLost(h)
                         \/ CrashTaker(h)
    \/ \E p \in Pumps : \/ TryMail(p) \/ TryWork(p) \/ Respond(p)
                        \/ Complete(p) \/ CompleteRaises(p) \/ Fail(p)
                        \/ BeatClaimLost(p) \/ CrashPump(p)
    \/ \E m \in Messages : Due(m)
    \/ Send \/ Expire \/ Disable

Spec == Init /\ [][Next]_vars

\* Processes run on, heartbeats stop when their body does, leases, waiters and
\* backoffs run out, and a model's turn ends.
FairSpec ==
    /\ Spec
    /\ \A h \in Takers : WF_vars(TakerStep(h)) /\ WF_vars(WaiterExpires(h))
    /\ \A p \in Pumps : WF_vars(PumpStep(p))
    /\ \A m \in Messages : WF_vars(Due(m))
    /\ WF_vars(Silent(turn.token) /\ Expire)

----------------------------------------------------------------------------

\* acquire, claim and release: apart from bodies whose lease ran out under
\* them, the agent never takes two turns at once, whatever its lanes.
OneTurnAtATime == Cardinality(Running \ overrun) <= 1

\* complete_agent_message: a message has a reply exactly when it is delivered,
\* and the reply is that of its newest claim; a worker whose claim was taken
\* over commits nothing.
ReplyIsNewest ==
    \A m \in Messages :
        replied[m] = IF row[m].status = "delivered" THEN row[m].attempts ELSE 0

\* hold: every chat turn and every claimed work item gets its turn.
EveryTurnServed ==
    \A h \in Takers : hold[h] \in {"called", "wait"}
                          ~> hold[h] \in {"run", "end", "done", "dead"}

\* The mailbox: every message is delivered or given up, whatever lapses,
\* crashes and orphaned waiters come between.
EveryMessageSettled ==
    \A m \in Messages : row[m].status \in {"pending", "in_flight"}
                            ~> row[m].status \in {"delivered", "failed"}

\* run_once: "an active peer conversation cannot starve filed work (or vice
\* versa)".
LanesDoNotStarve == EveryTurnServed /\ EveryMessageSettled
============================================================================
