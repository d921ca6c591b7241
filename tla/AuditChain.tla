----------------------------- MODULE AuditChain -----------------------------
(***************************************************************************)
(* The per-tenant audit chain: AuditWriter.write and write_now (kernel/    *)
(* audit.py), the audit outbox that a faulted append defers to, and the    *)
(* janitor that drains it (kernel/audit_outbox.py).  One tenant.           *)
(*                                                                         *)
(* A task is a dispatch whose `finally' writes its one event, or a         *)
(* janitor.  A dispatch is named by its event.  The chain and the outbox   *)
(* are database tables that every process shares; a writer is one          *)
(* AuditWriter object, and its lock serialises only the tasks using it.    *)
(***************************************************************************)
EXTENDS Naturals, Sequences, FiniteSets, Functions

CONSTANTS Events,      \* actions the kernel takes, one dispatch each
          Janitors,    \* running outbox janitors (one per worker process)
          Writers,     \* AuditWriter objects
          WriterOf,    \* the writer each task uses
          DrainBatch,  \* rows a drain reads at once, _DRAIN_BATCH
          FaultKinds,  \* which statements may fail (see Fault and below)
          MaxFaults,   \* bound: failing statements in a behaviour
          MaxCrashes,  \* bound: tasks lost to a crash or a cancellation
          None

Tasks == Events \cup Janitors

Faults == {"append", "lost_ack", "defer", "settle"}

ASSUME ChainAssumption ==
    /\ Events \cap Janitors = {}
    /\ IsFiniteSet(Events) /\ IsFiniteSet(Janitors) /\ Janitors # {}
    /\ WriterOf \in [Tasks -> Writers]
    /\ None \notin Tasks
    /\ DrainBatch \in Nat \ {0}
    /\ FaultKinds \subseteq Faults
    /\ MaxFaults \in Nat /\ MaxCrashes \in Nat

VARIABLES log,      \* audit_log in insertion order: [seq, event, prev, by]
          outbox,   \* audit_outbox: the deferred events (a dispatch defers once)
          id,       \* the BIGSERIAL id an event's row was given, 0 before
          due,      \* deferred events whose next_retry_at has passed
          lock,     \* per writer: the task inside its lock, or None
          pc,       \* per task: where it stands
          row,      \* per task: the row it computed from the head, or None
          batch,    \* per janitor: rows of the drain still to handle
          faults, crashes

vars == <<log, outbox, id, due, lock, pc, row, batch, faults, crashes>>

-----------------------------------------------------------------------------
(* What a row commits to.  HMAC-SHA256 over the canonical form is taken as *)
(* collision free, so a hash is modelled by what it covers.                *)
Digest(r) == <<r.seq, r.event, r.prev>>

(* The `by' field of a row is history: which writer appended it. *)
HeadSeq == IF log = <<>> THEN 0 ELSE log[Len(log)].seq

HeadHash == IF log = <<>> THEN None ELSE Digest(log[Len(log)])

(* The event a task is writing: its own, or the head of the drain. *)
EventOf(t) == IF t \in Events THEN t ELSE Head(batch[t])

SeqTaken(n) == \E i \in DOMAIN log : log[i].seq = n

Logged(e) == \E i \in DOMAIN log : log[i].event = e

Deferred(e) == e \in outbox

(* The next id of the outbox table. *)
Serial == 1 + Cardinality({e \in Events : id[e] # 0})

Init ==
    /\ log = <<>> /\ outbox = {} /\ due = {}
    /\ id = [e \in Events |-> 0]
    /\ lock = [w \in Writers |-> None]
    /\ pc = [t \in Tasks |-> "idle"]
    /\ row = [t \in Tasks |-> None]
    /\ batch = [j \in Janitors |-> <<>>]
    /\ faults = 0 /\ crashes = 0

-----------------------------------------------------------------------------
(* The chain step, shared by write and write_now. *)

(* The action has run; dispatch's finally calls audit.write. *)
Act(e) ==
    /\ pc[e] = "idle"
    /\ pc' = [pc EXCEPT ![e] = "enter"]
    /\ UNCHANGED <<log, outbox, id, due, lock, row, batch, faults, crashes>>

(* ReadHead reusing the head's own seq. *)
ReadHeadSeq(t) ==
    /\ pc[t] = "enter"
    /\ lock[WriterOf[t]] = None
    /\ lock' = [lock EXCEPT ![WriterOf[t]] = t]
    /\ row' = [row EXCEPT ![t] = [seq |-> HeadSeq, event |-> EventOf(t),
                                  prev |-> HeadHash, by |-> WriterOf[t]]]
    /\ pc' = [pc EXCEPT ![t] = "append"]
    /\ UNCHANGED <<log, outbox, id, due, batch, faults, crashes>>

(* ReadHead without the lock. *)
ReadHeadUnlocked(t) ==
    /\ pc[t] = "enter"
    /\ lock' = [lock EXCEPT ![WriterOf[t]] = t]
    /\ row' = [row EXCEPT ![t] = [seq |-> HeadSeq + 1, event |-> EventOf(t),
                                  prev |-> HeadHash, by |-> WriterOf[t]]]
    /\ pc' = [pc EXCEPT ![t] = "append"]
    /\ UNCHANGED <<log, outbox, id, due, batch, faults, crashes>>

(* Take the writer's lock, read the head and compute the next row. *)
ReadHead(t) ==
    /\ pc[t] = "enter"
    /\ lock[WriterOf[t]] = None
    /\ lock' = [lock EXCEPT ![WriterOf[t]] = t]
    /\ row' = [row EXCEPT ![t] = [seq |-> HeadSeq + 1, event |-> EventOf(t),
                                  prev |-> HeadHash, by |-> WriterOf[t]]]
    /\ pc' = [pc EXCEPT ![t] = "append"]
    /\ UNCHANGED <<log, outbox, id, due, batch, faults, crashes>>

(* Leaving the `async with' block, by return or by exception. *)
Leave(t, to) ==
    /\ lock' = [lock EXCEPT ![WriterOf[t]] = None]
    /\ row' = [row EXCEPT ![t] = None]
    /\ pc' = [pc EXCEPT ![t] = to]

AfterWrite(t) == IF t \in Events THEN "done" ELSE "delete"

(* A failed chain step: write defers, write_now raises to the drain. *)
AfterFault(t) == IF t \in Events THEN "defer" ELSE "mark"

(* audit_append without UNIQUE (tenant_id, seq). *)
AppendUnchecked(t) ==
    /\ pc[t] = "append"
    /\ log' = Append(log, row[t])
    /\ Leave(t, AfterWrite(t))
    /\ UNCHANGED <<outbox, id, due, batch, faults, crashes>>

(* audit_append, where UNIQUE (tenant_id, seq) admits the row. *)
AppendRow(t) ==
    /\ pc[t] = "append"
    /\ ~SeqTaken(row[t].seq)
    /\ log' = Append(log, row[t])
    /\ Leave(t, AfterWrite(t))
    /\ UNCHANGED <<outbox, id, due, batch, faults, crashes>>

(* Another writer took the seq first: the INSERT raises. *)
Collide(t) ==
    /\ pc[t] = "append"
    /\ SeqTaken(row[t].seq)
    /\ Leave(t, AfterFault(t))
    /\ UNCHANGED <<log, outbox, id, due, batch, faults, crashes>>

(* A statement of kind k fails; the bound on faults is the model's. *)
Fault(k) ==
    /\ k \in FaultKinds
    /\ faults < MaxFaults
    /\ faults' = faults + 1

(* The head read or the INSERT fails and stores nothing. *)
AppendFault(t) ==
    /\ pc[t] = "append"
    /\ Fault("append")
    /\ Leave(t, AfterFault(t))
    /\ UNCHANGED <<log, outbox, id, due, batch, crashes>>

(* The INSERT commits and the connection is lost before its answer. *)
LostAck(t) ==
    /\ pc[t] = "append"
    /\ ~SeqTaken(row[t].seq)
    /\ Fault("lost_ack")
    /\ log' = Append(log, row[t])
    /\ Leave(t, AfterFault(t))
    /\ UNCHANGED <<outbox, id, due, batch, crashes>>

-----------------------------------------------------------------------------
(* The deferral of write. *)

(* A deferral that enqueues nothing. *)
DeferDropped(e) ==
    /\ pc[e] = "defer"
    /\ pc' = [pc EXCEPT ![e] = "done"]
    /\ UNCHANGED <<log, outbox, id, due, lock, row, batch, faults, crashes>>

(* audit_outbox_enqueue: the payload, without chain fields, due at once. *)
Defer(e) ==
    /\ pc[e] = "defer"
    /\ outbox' = outbox \cup {e}
    /\ id' = [id EXCEPT ![e] = Serial]
    /\ due' = due \cup {e}
    /\ pc' = [pc EXCEPT ![e] = "done"]
    /\ UNCHANGED <<log, lock, row, batch, faults, crashes>>

(* The enqueue fails too: write raises and dispatch logs the incident. *)
DeferFault(e) ==
    /\ pc[e] = "defer"
    /\ Fault("defer")
    /\ pc' = [pc EXCEPT ![e] = "unaudited"]
    /\ UNCHANGED <<log, outbox, id, due, lock, row, batch, crashes>>

-----------------------------------------------------------------------------
(* The janitor: drain_tenant_once. *)

(* The rows audit_outbox_due returns: the oldest due ones, in order of id. *)
Drains ==
    {rows \in UNION {[1..n -> due] : n \in 1..DrainBatch} :
        /\ \A i, k \in DOMAIN rows : i < k => id[rows[i]] < id[rows[k]]
        /\ \A e \in due \ Range(rows) :
              /\ Len(rows) = DrainBatch
              /\ \A i \in DOMAIN rows : id[rows[i]] < id[e]}

Sweep(j) ==
    /\ pc[j] = "idle"
    /\ due # {}
    /\ batch' \in {[batch EXCEPT ![j] = rows] : rows \in Drains}
    /\ pc' = [pc EXCEPT ![j] = "enter"]
    /\ UNCHANGED <<log, outbox, id, due, lock, row, faults, crashes>>

(* Go on to the next row of the drain, or end it. *)
NextRow(j) ==
    /\ batch' = [batch EXCEPT ![j] = Tail(@)]
    /\ pc' = [pc EXCEPT ![j] = IF Len(batch[j]) > 1 THEN "enter" ELSE "idle"]

(* Delete that only backs the drained row off. *)
DeleteBacksOff(j) ==
    /\ pc[j] = "delete"
    /\ due' = due \ {EventOf(j)}
    /\ NextRow(j)
    /\ UNCHANGED <<log, outbox, id, lock, row, faults, crashes>>

(* audit_outbox_delete, once write_now has returned. *)
Delete(j) ==
    /\ pc[j] = "delete"
    /\ outbox' = outbox \ {EventOf(j)}
    /\ due' = due \ {EventOf(j)}
    /\ NextRow(j)
    /\ UNCHANGED <<log, id, lock, row, faults, crashes>>

(* MarkFailed taken for a settled row: the row is deleted. *)
MarkFailedDeletes(j) ==
    /\ pc[j] = "mark"
    /\ outbox' = outbox \ {EventOf(j)}
    /\ due' = due \ {EventOf(j)}
    /\ NextRow(j)
    /\ UNCHANGED <<log, id, lock, row, faults, crashes>>

(* audit_outbox_mark_failed: next_retry_at moves past the backoff. *)
MarkFailed(j) ==
    /\ pc[j] = "mark"
    /\ due' = due \ {EventOf(j)}
    /\ NextRow(j)
    /\ UNCHANGED <<log, outbox, id, lock, row, faults, crashes>>

(* The DELETE or the UPDATE fails: the drain of the tenant is abandoned. *)
SettleFault(j) ==
    /\ pc[j] \in {"delete", "mark"}
    /\ Fault("settle")
    /\ batch' = [batch EXCEPT ![j] = <<>>]
    /\ pc' = [pc EXCEPT ![j] = "idle"]
    /\ UNCHANGED <<log, outbox, id, due, lock, row, crashes>>

(* The backoff of a deferred event passes. *)
BackoffElapses(e) ==
    /\ Deferred(e)
    /\ e \notin due
    /\ due' = due \cup {e}
    /\ UNCHANGED <<log, outbox, id, lock, pc, row, batch, faults, crashes>>

-----------------------------------------------------------------------------
(* The task is lost: its process dies or it is cancelled.  A lock it holds *)
(* goes with it.  A dispatch is gone for good, a janitor is restarted.     *)
Crash(t) ==
    /\ pc[t] \notin {"idle", "done", "unaudited"}
    /\ crashes < MaxCrashes
    /\ crashes' = crashes + 1
    /\ lock' = [w \in Writers |-> IF lock[w] = t THEN None ELSE lock[w]]
    /\ row' = [row EXCEPT ![t] = None]
    /\ pc' = [pc EXCEPT ![t] = IF t \in Events THEN "unaudited" ELSE "idle"]
    /\ batch' = [j \in Janitors |-> IF j = t THEN <<>> ELSE batch[j]]
    /\ UNCHANGED <<log, outbox, id, due, faults>>

Chain(t) ==
    \/ ReadHead(t) \/ AppendRow(t) \/ Collide(t) \/ AppendFault(t)
    \/ LostAck(t)

Dispatch(e) == Act(e) \/ Defer(e) \/ DeferFault(e)

Drain(j) == Sweep(j) \/ Delete(j) \/ MarkFailed(j) \/ SettleFault(j)

Next ==
    \/ \E t \in Tasks : Chain(t) \/ Crash(t)
    \/ \E e \in Events : Dispatch(e) \/ BackoffElapses(e)
    \/ \E j \in Janitors : Drain(j)

Spec == Init /\ [][Next]_vars

(* A started coroutine is resumed, the janitor's loop sweeps again and the *)
(* clock passes every backoff.                                             *)
Fairness ==
    /\ \A t \in Tasks : WF_vars(Chain(t))
    /\ \A e \in Events : WF_vars(Defer(e)) /\ WF_vars(BackoffElapses(e))
    /\ \A j \in Janitors :
          /\ WF_vars(Sweep(j))
          /\ WF_vars(Delete(j))
          /\ WF_vars(MarkFailed(j))

FairSpec == Spec /\ Fairness

-----------------------------------------------------------------------------
RowType(r) ==
    /\ r.seq \in Nat \ {0} /\ r.event \in Events /\ r.by \in Writers

\* Every variable keeps its shape, the rows of the chain those of AuditEvent.
TypeOK ==
    /\ \A i \in DOMAIN log : RowType(log[i])
    /\ outbox \subseteq Events
    /\ due \subseteq outbox
    /\ id \in [Events -> Nat]
    /\ lock \in [Writers -> Tasks \cup {None}]
    /\ \A e \in Events :
          pc[e] \in {"idle", "enter", "append", "defer", "done", "unaudited"}
    /\ \A j \in Janitors :
          pc[j] \in {"idle", "enter", "append", "delete", "mark"}
    /\ \A t \in Tasks : pc[t] = "append" => RowType(row[t])
    /\ batch \in [Janitors -> Seq(Events)]
    /\ faults \in 0 .. MaxFaults /\ crashes \in 0 .. MaxCrashes

(* The audit chain verifies at every moment, whatever interleaving of      *)
(* writers, collisions, deferrals and drains produced it: row n has seq n  *)
(* and carries the hash of row n - 1 (audit.py: "the chain stays           *)
(* contiguous").                                                           *)
ChainIntact ==
    \A n \in DOMAIN log :
        /\ log[n].seq = n
        /\ log[n].prev = IF n = 1 THEN None ELSE Digest(log[n - 1])

(* An append collides only with another AuditWriter's: the tasks of one    *)
(* writer never compute the same seq (the per-tenant lock, SEC-16).        *)
CollisionNeedsTwoWriters ==
    \A t \in Tasks : pc[t] = "append" =>
        \A i \in DOMAIN log : log[i].seq = row[t].seq => log[i].by # WriterOf[t]

(* An event whose audit.write returned is in the chain or in the outbox,   *)
(* however often its drain failed, was abandoned or crashed: the row is    *)
(* deleted only once its event is chained.                                 *)
NothingLost ==
    \A e \in Events : pc[e] = "done" => Logged(e) \/ Deferred(e)

(* At least once, and boundedly often: every row of an event beyond the    *)
(* first is owed to a janitor that had read the outbox row before another  *)
(* deleted it, to a lost acknowledgement, to a failing settlement or to a  *)
(* crash.  audit.py asks for "exactly one audit row"; this is what the     *)
(* append and the later delete of the outbox row give.                     *)
Copies(e) == Cardinality({i \in DOMAIN log : log[i].event = e})

RepeatsBounded ==
    \A e \in Events : Copies(e) <= Cardinality(Janitors) + faults + crashes

(* An event whose audit.write returned reaches the chain.                  *)
EventuallyAudited ==
    \A e \in Events : (pc[e] = "done") ~> Logged(e)
=============================================================================
