-------------------------- MODULE AuditChainProofs --------------------------
(***************************************************************************)
(* Proofs about AuditChain, for any number of events, janitors and         *)
(* writers, any assignment of tasks to writers, any drain batch and any    *)
(* number of faults of every kind and of crashes.                          *)
(***************************************************************************)
EXTENDS AuditChain, TLAPS

(* The variables are functions of the shape Init gives them. *)
Shape ==
    /\ pc = [t \in Tasks |-> pc[t]]
    /\ row = [t \in Tasks |-> row[t]]
    /\ lock = [w \in Writers |-> lock[w]]
    /\ batch = [j \in Janitors |-> batch[j]]
    /\ \E S : log \in Seq(S)

(* A computed row continues a prefix of the chain as it stands now. *)
Continues(r) ==
    /\ r.seq \in 1 .. Len(log) + 1
    /\ r.prev = IF r.seq = 1 THEN None ELSE Digest(log[r.seq - 1])

(* A task between its head read and its append holds its writer's lock and *)
(* a row for its own event that continues the chain.                       *)
Pending ==
    \A t \in Tasks : pc[t] = "append" =>
        /\ lock[WriterOf[t]] = t
        /\ Continues(row[t])
        /\ row[t].event = EventOf(t)
        /\ row[t].by = WriterOf[t]

(* A janitor deletes only what is chained. *)
DeletesChained ==
    \A j \in Janitors : pc[j] = "delete" => Logged(EventOf(j))

IndInv ==
    /\ Shape
    /\ ChainIntact
    /\ Pending
    /\ CollisionNeedsTwoWriters
    /\ DeletesChained
    /\ NothingLost

-----------------------------------------------------------------------------
(* What a step may do to the chain: nothing, or append the row of a task   *)
(* whose seq is free.                                                      *)
Appends(t) ==
    /\ t \in Tasks
    /\ pc[t] = "append"
    /\ ~SeqTaken(row[t].seq)
    /\ log' = Append(log, row[t])
    /\ \E to \in {"done", "delete", "defer", "mark"} : Leave(t, to)
    /\ pc'[t] \in {"done", "delete"} => pc'[t] = AfterWrite(t)
    /\ UNCHANGED <<outbox, batch>>

(* A step of Next appends one free row or leaves the chain alone. *)
LEMMA LogStep ==
    ASSUME IndInv, [Next]_vars
    PROVE  log' = log \/ \E t \in Tasks : Appends(t)
<1>1. CASE \E t \in Tasks : Chain(t)
  <2>1. PICK t \in Tasks : Chain(t)
    BY <1>1, Zenon
  <2>2. CASE AppendRow(t) \/ LostAck(t)
    BY <2>1, <2>2, Zenon DEF AppendRow, LostAck, Appends, Leave, AfterWrite,
                      AfterFault, Fault, IndInv, Shape
  <2>3. CASE ReadHead(t) \/ Collide(t) \/ AppendFault(t)
    BY <2>3, Zenon DEF ReadHead, Collide, AppendFault
  <2>. QED BY <2>1, <2>2, <2>3, Zenon DEF Chain
<1>2. CASE ~ \E t \in Tasks : Chain(t)
  BY <1>2, Zenon DEF Next, vars, Crash, Dispatch, Act, Defer, DeferFault,
     BackoffElapses, Drain, Sweep, Delete, MarkFailed, SettleFault
<1>. QED BY <1>1, <1>2, Zenon

(* A free seq that continues the chain is the next one. *)
LEMMA FreeIsNext ==
    ASSUME IndInv, NEW t \in Tasks, pc[t] = "append",
           ~SeqTaken(row[t].seq)
    PROVE  /\ row[t].seq = Len(log) + 1
           /\ Continues(row[t])
           /\ Len(log) \in Nat
<1>1. PICK S : log \in Seq(S)
  BY Zenon DEF IndInv, Shape
<1>2. Continues(row[t])
  BY Zenon DEF IndInv, Pending
<1>3. row[t].seq \notin 1 .. Len(log)
  BY <1>1 DEF SeqTaken, IndInv, ChainIntact
<1>. QED BY <1>1, <1>2, <1>3 DEF Continues

(* What appending a task's free row makes of the chain. *)
LEMMA Appended ==
    ASSUME IndInv, NEW t, Appends(t)
    PROVE  /\ Len(log') = Len(log) + 1
           /\ DOMAIN log' = 1 .. Len(log) + 1
           /\ DOMAIN log = 1 .. Len(log)
           /\ \A i \in 1 .. Len(log) : log'[i] = log[i]
           /\ log'[Len(log) + 1] = row[t]
           /\ Len(log) \in Nat
           /\ \E S : log' \in Seq(S)
<1>1. PICK S : log \in Seq(S)
  BY Zenon DEF IndInv, Shape
<1>2. log \in Seq(S \cup {row[t]})
  BY <1>1
<1>3. log' = Append(log, row[t])
  BY Zenon DEF Appends
<1>4. log' \in Seq(S \cup {row[t]})
  BY <1>2, <1>3
<1>. QED BY <1>2, <1>3, <1>4

(* The chain stays intact and rows keep continuing it. *)
LEMMA ChainStep ==
    ASSUME IndInv, [Next]_vars
    PROVE  /\ ChainIntact'
           /\ \E S : log' \in Seq(S)
           /\ \A r : Continues(r) => Continues(r)'
<1>1. CASE log' = log
  BY <1>1, Zenon DEF IndInv, Shape, ChainIntact, Continues
<1>2. ASSUME NEW t \in Tasks, Appends(t)
      PROVE  /\ ChainIntact'
             /\ \E S : log' \in Seq(S)
             /\ \A r : Continues(r) => Continues(r)'
  <2>1. /\ row[t].seq = Len(log) + 1
        /\ Continues(row[t])
        /\ Len(log) \in Nat
    BY <1>2, FreeIsNext, Zenon DEF Appends
  <2>2. ChainIntact'
    <3>. SUFFICES ASSUME NEW n \in 1 .. Len(log) + 1
                  PROVE  /\ log'[n].seq = n
                         /\ log'[n].prev = IF n = 1 THEN None
                                           ELSE Digest(log'[n - 1])
      BY <1>2, Appended, ZenonT(60) DEF ChainIntact, Digest
    <3>1. CASE n \in 1 .. Len(log)
      <4>1. log'[n] = log[n] /\ (n # 1 => log'[n - 1] = log[n - 1])
        BY <1>2, <3>1, <2>1, Appended
      <4>2. /\ log[n].seq = n
            /\ log[n].prev = IF n = 1 THEN None ELSE Digest(log[n - 1])
        BY <1>2, <3>1, Appended, Zenon DEF IndInv, ChainIntact
      <4>. QED BY <4>1, <4>2, Zenon
    <3>2. CASE n = Len(log) + 1
      <4>1. log'[n] = row[t] /\ (n # 1 => log'[n - 1] = log[n - 1])
        BY <1>2, <3>2, <2>1, Appended
      <4>. QED BY <4>1, <3>2, <2>1, Zenon DEF Continues
    <3>. QED BY <3>1, <3>2, <2>1
  <2>3. ASSUME NEW r, Continues(r) PROVE Continues(r)'
    <3>1. r.seq \in 1 .. Len(log') + 1
      BY <1>2, <2>3, Appended DEF Continues
    <3>2. r.seq # 1 => log'[r.seq - 1] = log[r.seq - 1]
      BY <1>2, <2>3, Appended DEF Continues
    <3>. QED BY <2>3, <3>1, <3>2, Zenon DEF Continues
  <2>. QED BY <1>2, <2>2, <2>3, Appended, Zenon
<1>. QED BY <1>1, <1>2, LogStep, Zenon

(* The head row and the next seq, as the head query computes them. *)
LEMMA HeadContinues ==
    ASSUME IndInv
    PROVE  /\ HeadSeq + 1 = Len(log) + 1
           /\ Len(log) \in Nat
           /\ HeadHash = IF HeadSeq + 1 = 1 THEN None ELSE Digest(log[HeadSeq])
<1>1. PICK S : log \in Seq(S)
  BY Zenon DEF IndInv, Shape
<1>2. CASE log = <<>>
  BY <1>2 DEF HeadSeq, HeadHash
<1>3. CASE log # <<>>
  <2>1. Len(log) \in DOMAIN log /\ Len(log) \in Nat \ {0}
    BY <1>1, <1>3
  <2>2. log[Len(log)].seq = Len(log)
    BY <2>1, Zenon DEF IndInv, ChainIntact
  <2>. QED BY <1>3, <2>1, <2>2 DEF HeadSeq, HeadHash
<1>. QED BY <1>2, <1>3, Zenon

(* A task that is not reading the head keeps its place and its row, or     *)
(* leaves "append"; its event does not change while it is there.           *)
LEMMA OtherStep ==
    ASSUME IndInv, [Next]_vars, NEW t \in Tasks, ~ReadHead(t),
           pc'[t] = "append"
    PROVE  /\ pc[t] = "append"
           /\ row'[t] = row[t]
           /\ EventOf(t)' = EventOf(t)
<1>1. CASE \E u \in Tasks : Chain(u)
  <2>1. PICK u \in Tasks : Chain(u)
    BY <1>1, Zenon
  <2>2. u # t
    BY <2>1, Zenon DEF Chain, ReadHead, AppendRow, Collide, AppendFault, LostAck,
                Leave, AfterWrite, AfterFault, IndInv, Shape
  <2>3. pc'[t] = pc[t] /\ row'[t] = row[t] /\ batch' = batch
    BY <2>1, <2>2, Zenon DEF Chain, ReadHead, AppendRow, Collide, AppendFault,
                      LostAck, Leave, IndInv, Shape
  <2>. QED BY <2>3, Zenon DEF EventOf
<1>2. CASE \E u \in Tasks : Crash(u)
  <2>1. PICK u \in Tasks : Crash(u)
    BY <1>2, Zenon
  <2>2. u # t
    BY <2>1, Zenon DEF Crash, IndInv, Shape
  <2>3. pc'[t] = pc[t] /\ row'[t] = row[t]
        /\ (t \in Janitors => batch'[t] = batch[t])
    BY <2>1, <2>2, ZenonT(60) DEF Crash, IndInv, Shape
  <2>. QED BY <2>3, Zenon DEF EventOf, Tasks
<1>3. CASE \E e \in Events : Dispatch(e) \/ BackoffElapses(e)
  BY <1>3, ZenonT(60) DEF Dispatch, Act, Defer, DeferFault, BackoffElapses, EventOf,
              IndInv, Shape, Tasks
<1>4. CASE \E j \in Janitors : Drain(j)
  <2>1. PICK j \in Janitors : Drain(j)
    BY <1>4, Zenon
  <2>2. t # j
    BY <2>1, Zenon DEF Drain, Sweep, Delete, MarkFailed, SettleFault, NextRow,
                IndInv, Shape, Tasks
  <2>3. pc'[t] = pc[t] /\ row'[t] = row[t]
        /\ (t \in Janitors => batch'[t] = batch[t])
    BY <2>1, <2>2, ZenonT(60) DEF Drain, Sweep, Delete, MarkFailed, SettleFault, NextRow,
                      IndInv, Shape, Tasks
  <2>. QED BY <2>3, Zenon DEF EventOf, Tasks
<1>5. CASE UNCHANGED vars
  BY <1>5, Zenon DEF vars, EventOf
<1>. QED BY <1>1, <1>2, <1>3, <1>4, <1>5, Zenon DEF Next

(* A held lock is released only by its holder leaving "append". *)
LEMMA LockStep ==
    ASSUME IndInv, [Next]_vars, NEW t \in Tasks, ~ReadHead(t),
           pc'[t] = "append"
    PROVE  lock'[WriterOf[t]] = t
<1>1. pc[t] = "append" /\ lock[WriterOf[t]] = t /\ WriterOf[t] \in Writers
  BY OtherStep, ChainAssumption, Zenon DEF IndInv, Pending
<1>2. CASE \E u \in Tasks : Chain(u)
  <2>1. PICK u \in Tasks : Chain(u)
    BY <1>2, Zenon
  <2>2. u # t
    BY <2>1, Zenon DEF Chain, ReadHead, AppendRow, Collide, AppendFault, LostAck,
                Leave, AfterWrite, AfterFault, IndInv, Shape
  <2>3. CASE ReadHead(u)
    <3>1. WriterOf[u] # WriterOf[t]
      BY <2>3, <1>1, ChainAssumption, Zenon DEF ReadHead
    <3>. QED BY <3>1, <2>3, <1>1, Zenon DEF ReadHead, IndInv, Shape
  <2>4. CASE pc[u] = "append"
    <3>1. WriterOf[u] # WriterOf[t]
      BY <2>4, <2>2, <1>1, Zenon DEF IndInv, Pending
    <3>. QED BY <3>1, <2>1, <2>4, <1>1, Zenon
             DEF Chain, ReadHead, AppendRow, Collide, AppendFault, LostAck,
                 Leave, IndInv, Shape
  <2>. QED BY <2>1, <2>3, <2>4, Zenon DEF Chain, AppendRow, Collide, AppendFault,
                                   LostAck
<1>3. CASE \E u \in Tasks : Crash(u)
  <2>1. PICK u \in Tasks : Crash(u)
    BY <1>3, Zenon
  <2>2. u # t
    BY <2>1, Zenon DEF Crash, IndInv, Shape
  <2>. QED BY <1>1, <2>1, <2>2, Zenon DEF Crash
<1>4. CASE lock' = lock
  BY <1>1, <1>4, Zenon
<1>. QED BY <1>2, <1>3, <1>4, Zenon DEF Next, Dispatch, Act, Defer, DeferFault,
     BackoffElapses, Drain, Sweep, Delete, MarkFailed, SettleFault, vars

-----------------------------------------------------------------------------
(* The variables keep their shape. *)
LEMMA ShapeStep ==
    ASSUME IndInv, [Next]_vars
    PROVE  Shape'
<1>1. \E S : log' \in Seq(S)
  BY ChainStep, Zenon
<1>2. pc' = [t \in Tasks |-> pc'[t]]
  BY ZenonT(60) DEF IndInv, Shape, Next, vars, Chain, ReadHead, AppendRow, Collide,
     AppendFault, LostAck, Leave, Crash, Dispatch,
     Act, Defer, DeferFault, BackoffElapses, Drain, Sweep, Delete,
     MarkFailed, SettleFault, NextRow
<1>3. row' = [t \in Tasks |-> row'[t]]
  BY Zenon DEF IndInv, Shape, Next, vars, Chain, ReadHead, AppendRow, Collide,
     AppendFault, LostAck, Leave, Crash, Dispatch,
     Act, Defer, DeferFault, BackoffElapses, Drain, Sweep, Delete,
     MarkFailed, SettleFault
<1>4. lock' = [w \in Writers |-> lock'[w]]
  BY ZenonT(60) DEF IndInv, Shape, Next, vars, Chain, ReadHead, AppendRow, Collide,
     AppendFault, LostAck, Leave, Crash, Dispatch,
     Act, Defer, DeferFault, BackoffElapses, Drain, Sweep, Delete,
     MarkFailed, SettleFault
<1>5. batch' = [j \in Janitors |-> batch'[j]]
  BY Zenon DEF IndInv, Shape, Next, vars, Chain, ReadHead, AppendRow, Collide,
     AppendFault, LostAck, Crash, Dispatch,
     Act, Defer, DeferFault, BackoffElapses, Drain, Sweep, Delete,
     MarkFailed, SettleFault, NextRow
<1>. QED BY <1>1, <1>2, <1>3, <1>4, <1>5, Zenon DEF Shape

(* What a head read gives its task. *)
LEMMA ReadHeadStep ==
    ASSUME IndInv, NEW t \in Tasks, ReadHead(t)
    PROVE  /\ lock'[WriterOf[t]] = t
           /\ Continues(row[t])'
           /\ row'[t].event = EventOf(t)'
           /\ row'[t].by = WriterOf[t]
           /\ row'[t].seq = Len(log) + 1
           /\ log' = log
<1>1. log' = log /\ batch' = batch /\ WriterOf[t] \in Writers
  BY ChainAssumption, Zenon DEF ReadHead
<1>2. lock'[WriterOf[t]] = t
  BY <1>1, Zenon DEF ReadHead, IndInv, Shape
<1>3. row'[t] = [seq |-> HeadSeq + 1, event |-> EventOf(t),
                 prev |-> HeadHash, by |-> WriterOf[t]]
  BY Zenon DEF ReadHead, IndInv, Shape
<1>4. /\ row'[t].seq = HeadSeq + 1 /\ row'[t].event = EventOf(t)
      /\ row'[t].prev = HeadHash /\ row'[t].by = WriterOf[t]
  BY <1>3
<1>5. row'[t].seq = Len(log) + 1 /\ Len(log) \in Nat
  BY <1>4, HeadContinues, Zenon
<1>6. HeadSeq = Len(log)
  BY HeadContinues, <1>5 DEF HeadSeq, IndInv, ChainIntact, Shape
<1>7. /\ row'[t].seq \in 1 .. Len(log') + 1
      /\ row'[t].prev = IF row'[t].seq = 1 THEN None
                        ELSE Digest(log'[row'[t].seq - 1])
  BY <1>1, <1>4, <1>5, <1>6, HeadContinues
<1>8. Continues(row[t])'
  BY <1>7, Zenon DEF Continues, Digest
<1>. QED BY <1>1, <1>2, <1>4, <1>5, <1>8, Zenon DEF EventOf

(* Tasks about to append keep their lock and a row continuing the chain. *)
LEMMA PendingStep ==
    ASSUME IndInv, [Next]_vars
    PROVE  Pending'
<1>. SUFFICES ASSUME NEW t \in Tasks, pc'[t] = "append"
              PROVE  /\ lock'[WriterOf[t]] = t
                     /\ Continues(row[t])'
                     /\ row'[t].event = EventOf(t)'
                     /\ row'[t].by = WriterOf[t]
  BY Zenon DEF Pending
<1>1. CASE ReadHead(t)
  BY <1>1, ReadHeadStep, Zenon
<1>2. CASE ~ReadHead(t)
  <2>1. /\ pc[t] = "append" /\ row'[t] = row[t]
        /\ EventOf(t)' = EventOf(t) /\ lock'[WriterOf[t]] = t
    BY <1>2, OtherStep, LockStep, Zenon
  <2>2. /\ Continues(row[t])
        /\ row[t].event = EventOf(t)
        /\ row[t].by = WriterOf[t]
    BY <2>1, Zenon DEF IndInv, Pending
  <2>3. Continues(row[t])'
    <3>1. PICK r : r = row[t]
      BY Zenon
    <3>2. Continues(r)'
      BY <3>1, <2>2, ChainStep, Zenon
    <3>. QED BY <3>1, <3>2, <2>1, Zenon DEF Continues
  <2>. QED BY <2>1, <2>2, <2>3, Zenon
<1>. QED BY <1>1, <1>2, Zenon

(* Rows already chained stay, and an appended row's event is then chained. *)
LEMMA LoggedStays ==
    ASSUME IndInv, [Next]_vars
    PROVE  \A e : Logged(e) => Logged(e)'
<1>1. CASE log' = log
  BY <1>1, Zenon DEF Logged
<1>2. ASSUME NEW t \in Tasks, Appends(t)
      PROVE  \A e : Logged(e) => Logged(e)'
  <2>1. /\ DOMAIN log' = 1 .. Len(log) + 1 /\ DOMAIN log = 1 .. Len(log)
        /\ \A i \in 1 .. Len(log) : log'[i] = log[i] /\ Len(log) \in Nat
    BY <1>2, Appended, Zenon
  <2>. QED BY <2>1 DEF Logged
<1>. QED BY <1>1, <1>2, LogStep, Zenon

(* The event of a task that appended its row is chained. *)
LEMMA AppendLogs ==
    ASSUME IndInv, NEW t \in Tasks, Appends(t)
    PROVE  Logged(EventOf(t))'
<1>1. /\ DOMAIN log' = 1 .. Len(log) + 1
      /\ log'[Len(log) + 1] = row[t] /\ Len(log) \in Nat
  BY Appended, Zenon
<1>2. row[t].event = EventOf(t) /\ EventOf(t)' = EventOf(t)
  BY Zenon DEF Appends, IndInv, Pending, EventOf
<1>3. PICK n : n = Len(log) + 1
  BY Zenon
<1>4. n \in DOMAIN log' /\ log'[n].event = EventOf(t)'
  BY <1>1, <1>2, <1>3
<1>. QED BY <1>4, Zenon DEF Logged, EventOf

(* Collisions stay between writers. *)
LEMMA CollisionStep ==
    ASSUME IndInv, [Next]_vars
    PROVE  CollisionNeedsTwoWriters'
<1>. SUFFICES ASSUME NEW t \in Tasks, pc'[t] = "append",
                     NEW i \in DOMAIN log', log'[i].seq = row'[t].seq
              PROVE  log'[i].by # WriterOf[t]
  BY Zenon DEF CollisionNeedsTwoWriters
<1>1. CASE ReadHead(t)
  <2>1. row'[t].seq = Len(log) + 1 /\ log' = log
    BY <1>1, ReadHeadStep, Zenon
  <2>2. log[i].seq = i /\ i \in DOMAIN log
    BY <2>1, Zenon DEF IndInv, ChainIntact
  <2>3. PICK S : log \in Seq(S)
    BY Zenon DEF IndInv, Shape
  <2>. QED BY <2>1, <2>2, <2>3
<1>2. CASE ~ReadHead(t)
  <2>1. pc[t] = "append" /\ row'[t] = row[t]
    BY <1>2, OtherStep, Zenon
  <2>2. \A k \in DOMAIN log : log[k].seq = row[t].seq
                               => log[k].by # WriterOf[t]
    BY <2>1, Zenon DEF IndInv, CollisionNeedsTwoWriters
  <2>3. CASE log' = log
    BY <2>1, <2>2, <2>3, Zenon
  <2>4. ASSUME NEW u \in Tasks, Appends(u)
        PROVE  log'[i].by # WriterOf[t]
    <3>1. u # t
      BY <2>4, Zenon DEF Appends, Leave, IndInv, Shape
    <3>2. row[u].by = WriterOf[u] /\ WriterOf[u] # WriterOf[t]
      BY <2>1, <2>4, <3>1, Zenon DEF Appends, IndInv, Pending
    <3>3. /\ DOMAIN log' = 1 .. Len(log) + 1 /\ DOMAIN log = 1 .. Len(log)
          /\ \A k \in 1 .. Len(log) : log'[k] = log[k]
          /\ log'[Len(log) + 1] = row[u] /\ Len(log) \in Nat
      BY <2>4, Appended, Zenon
    <3>4. CASE i \in 1 .. Len(log)
      BY <3>3, <3>4, <2>1, <2>2, Zenon
    <3>5. CASE i = Len(log) + 1
      BY <3>2, <3>3, <3>5, Zenon
    <3>. QED BY <3>3, <3>4, <3>5
  <2>. QED BY <2>3, <2>4, LogStep, Zenon
<1>. QED BY <1>1, <1>2, Zenon

(* A janitor stands at its delete because it has just appended, or still   *)
(* stands there for the same event.                                        *)
LEMMA DeleteStep ==
    ASSUME IndInv, [Next]_vars, NEW j \in Janitors, pc'[j] = "delete"
    PROVE  Appends(j) \/ (pc[j] = "delete" /\ EventOf(j)' = EventOf(j))
<1>. j \in Tasks /\ j \notin Events
  BY ChainAssumption, Zenon DEF Tasks
<1>1. CASE \E u \in Tasks : Chain(u)
  <2>1. PICK u \in Tasks : Chain(u)
    BY <1>1, Zenon
  <2>2. CASE u # j
    BY <2>1, <2>2, Zenon DEF Chain, ReadHead, AppendRow, Collide, AppendFault,
                      LostAck, Leave, IndInv, Shape, EventOf
  <2>3. CASE u = j
    <3>1. AppendRow(j)
      BY <2>1, <2>3, Zenon DEF Chain, ReadHead, Collide, AppendFault, LostAck,
                        Leave, AfterFault, IndInv, Shape
    <3>. QED BY <3>1, Zenon DEF AppendRow, Appends, Leave, AfterWrite, IndInv, Shape
  <2>. QED BY <2>2, <2>3, Zenon
<1>2. CASE \E u \in Tasks : Crash(u)
  <2>1. PICK u \in Tasks : Crash(u)
    BY <1>2, Zenon
  <2>2. u # j
    BY <2>1, Zenon DEF Crash, IndInv, Shape
  <2>. QED BY <2>1, <2>2, ZenonT(60) DEF Crash, IndInv, Shape, EventOf
<1>3. CASE \E e \in Events : Dispatch(e) \/ BackoffElapses(e)
  BY <1>3, ZenonT(60) DEF Dispatch, Act, Defer, DeferFault, BackoffElapses, EventOf,
              IndInv, Shape, Tasks
<1>4. CASE \E k \in Janitors : Drain(k)
  <2>1. PICK k \in Janitors : Drain(k)
    BY <1>4, Zenon
  <2>2. k # j
    BY <2>1, Zenon DEF Drain, Sweep, Delete, MarkFailed, SettleFault, NextRow,
                IndInv, Shape, Tasks
  <2>. QED BY <2>1, <2>2, ZenonT(60) DEF Drain, Sweep, Delete, MarkFailed, SettleFault,
                             NextRow, IndInv, Shape, Tasks, EventOf
<1>5. CASE UNCHANGED vars
  BY <1>5, Zenon DEF vars, EventOf
<1>. QED BY <1>1, <1>2, <1>3, <1>4, <1>5, Zenon DEF Next

(* Janitors delete only what is chained. *)
LEMMA DeletesChainedStep ==
    ASSUME IndInv, [Next]_vars
    PROVE  DeletesChained'
<1>. SUFFICES ASSUME NEW j \in Janitors, pc'[j] = "delete"
              PROVE  Logged(EventOf(j))'
  BY Zenon DEF DeletesChained
<1>1. CASE Appends(j)
  BY <1>1, AppendLogs, Zenon DEF Tasks
<1>2. CASE pc[j] = "delete" /\ EventOf(j)' = EventOf(j)
  <2>1. PICK e : e = EventOf(j)
    BY Zenon
  <2>2. Logged(e)
    BY <1>2, <2>1, Zenon DEF IndInv, DeletesChained
  <2>3. Logged(e)'
    BY <2>2, LoggedStays, Zenon
  <2>. QED BY <1>2, <2>1, <2>3, Zenon DEF Logged
<1>. QED BY <1>1, <1>2, DeleteStep, Zenon

(* How an event's write comes to have returned. *)
LEMMA DoneStep ==
    ASSUME IndInv, [Next]_vars, NEW e \in Events, pc'[e] = "done"
    PROVE  pc[e] = "done" \/ Appends(e) \/ Defer(e)
<1>. e \in Tasks /\ e \notin Janitors
  BY ChainAssumption, Zenon DEF Tasks
<1>1. CASE \E u \in Tasks : Chain(u)
  <2>1. PICK u \in Tasks : Chain(u)
    BY <1>1, Zenon
  <2>2. CASE u # e
    BY <2>1, <2>2, Zenon DEF Chain, ReadHead, AppendRow, Collide, AppendFault,
                      LostAck, Leave, IndInv, Shape
  <2>3. CASE u = e
    <3>1. AppendRow(e)
      BY <2>1, <2>3, Zenon DEF Chain, ReadHead, Collide, AppendFault, LostAck,
                        Leave, AfterFault, IndInv, Shape
    <3>. QED BY <3>1, Zenon DEF AppendRow, Appends, Leave, AfterWrite, IndInv, Shape
  <2>. QED BY <2>2, <2>3, Zenon
<1>2. CASE \E u \in Tasks : Crash(u)
  BY <1>2, ZenonT(60) DEF Crash, IndInv, Shape
<1>3. CASE \E f \in Events : Dispatch(f) \/ BackoffElapses(f)
  BY <1>3, ZenonT(60) DEF Dispatch, Act, Defer, DeferFault, BackoffElapses, IndInv,
              Shape, Tasks
<1>4. CASE \E k \in Janitors : Drain(k)
  <2>1. PICK k \in Janitors : Drain(k)
    BY <1>4, Zenon
  <2>. QED BY <2>1, ZenonT(60) DEF Drain, Sweep, Delete, MarkFailed, SettleFault,
                       NextRow, IndInv, Shape, Tasks
<1>5. CASE UNCHANGED vars
  BY <1>5, Zenon DEF vars
<1>. QED BY <1>1, <1>2, <1>3, <1>4, <1>5, Zenon DEF Next

(* A deferred event leaves the outbox only when it is chained. *)
LEMMA OutboxStep ==
    ASSUME IndInv, [Next]_vars, NEW e \in Events, Deferred(e)
    PROVE  Deferred(e)' \/ Logged(e)
<1>1. CASE \E j \in Janitors : Delete(j)
  <2>1. PICK j \in Janitors : Delete(j)
    BY <1>1, Zenon
  <2>2. Logged(EventOf(j)) /\ outbox' = outbox \ {EventOf(j)}
    BY <2>1, Zenon DEF Delete, IndInv, DeletesChained
  <2>. QED BY <2>2, Zenon DEF Deferred
<1>2. CASE outbox' = outbox \/ \E f \in Events : Defer(f)
  BY <1>2, Zenon DEF Deferred, Defer
<1>. QED BY <1>1, <1>2, ZenonT(60) DEF Next, vars, Chain, ReadHead, AppendRow, Collide,
     AppendFault, LostAck, Crash, Dispatch, Act, DeferFault,
     BackoffElapses, Drain, Sweep, MarkFailed, SettleFault

(* No finished write loses its event. *)
LEMMA NothingLostStep ==
    ASSUME IndInv, [Next]_vars
    PROVE  NothingLost'
<1>. SUFFICES ASSUME NEW e \in Events, pc'[e] = "done"
              PROVE  Logged(e)' \/ Deferred(e)'
  BY Zenon DEF NothingLost
<1>1. CASE pc[e] = "done"
  BY <1>1, OutboxStep, LoggedStays, Zenon DEF IndInv, NothingLost
<1>2. CASE Appends(e)
  <2>1. e \in Tasks /\ EventOf(e) = e
    BY Zenon DEF Tasks, EventOf
  <2>2. Logged(EventOf(e))'
    BY <1>2, <2>1, AppendLogs, Zenon
  <2>. QED BY <2>2, Zenon DEF Logged, EventOf
<1>3. CASE Defer(e)
  BY <1>3, Zenon DEF Defer, Deferred
<1>. QED BY <1>1, <1>2, <1>3, DoneStep, Zenon

(* The invariant holds of the empty chain. *)
LEMMA InitInv ==
    Init => IndInv
<1>. SUFFICES ASSUME Init PROVE IndInv
  BY Zenon
<1>1. Shape
  <2>1. log \in Seq({})
    BY DEF Init
  <2>. QED BY <2>1, Zenon DEF Init, Shape
<1>2. ChainIntact
  BY DEF Init, ChainIntact
<1>3. \A t \in Tasks : pc[t] = "idle"
  BY Zenon DEF Init
<1>4. Pending /\ CollisionNeedsTwoWriters
  BY <1>3, Zenon DEF Pending, CollisionNeedsTwoWriters
<1>5. DeletesChained /\ NothingLost
  BY <1>3, Zenon DEF DeletesChained, NothingLost, Tasks
<1>. QED BY <1>1, <1>2, <1>4, <1>5, Zenon DEF IndInv

(* The inductive invariant: the chain is intact, every task between its    *)
(* head read and its append holds its writer's lock and a row continuing   *)
(* the chain, and a janitor deletes only what is chained.                  *)
THEOREM Invariance == Spec => []IndInv
<1>1. Init => IndInv
  BY InitInv, Zenon
<1>2. IndInv /\ [Next]_vars => IndInv'
  BY ShapeStep, ChainStep, PendingStep, CollisionStep, DeletesChainedStep,
     NothingLostStep, Zenon DEF IndInv
<1>. QED BY <1>1, <1>2, PTL DEF Spec

(* The chain that AuditWriter.write and the janitor build verifies, for    *)
(* any number of processes, collisions, faults and crashes.                *)
THEOREM ChainIntactHolds == Spec => []ChainIntact
<1>1. IndInv => ChainIntact
  BY Zenon DEF IndInv
<1>. QED BY <1>1, Invariance, PTL

(* The per-tenant lock of an AuditWriter keeps its own tasks from          *)
(* colliding on a seq.                                                     *)
THEOREM CollisionNeedsTwoWritersHolds ==
    Spec => []CollisionNeedsTwoWriters
<1>1. IndInv => CollisionNeedsTwoWriters
  BY Zenon DEF IndInv
<1>. QED BY <1>1, Invariance, PTL

(* An event whose audit.write returned is chained or still in the outbox,  *)
(* whatever faults and crashes the janitors meet.                          *)
THEOREM NothingLostHolds == Spec => []NothingLost
<1>1. IndInv => NothingLost
  BY Zenon DEF IndInv
<1>. QED BY <1>1, Invariance, PTL

-----------------------------------------------------------------------------
(* Types.                                                                  *)

INSTANCE FiniteSetTheorems

(* A janitor outside a drain has no rows left, and a drain read a row once. *)
BatchOK(j) == IsInjective(batch[j]) /\ (pc[j] = "idle" <=> batch[j] = <<>>)

TypeInv == IndInv /\ TypeOK /\ \A j \in Janitors : BatchOK(j)

(* Taking the head off a batch. *)
LEMMA TailOf ==
    ASSUME NEW S, NEW q \in Seq(S), q # <<>>
    PROVE  /\ Head(q) \in S /\ Tail(q) \in Seq(S)
           /\ Tail(q) = <<>> <=> ~(Len(q) > 1)
           /\ Range(q) = {Head(q)} \cup Range(Tail(q))
           /\ IsInjective(q) => IsInjective(Tail(q)) /\ Head(q) \notin Range(Tail(q))
<1>1. /\ Head(q) \in S /\ Head(q) = q[1] /\ Tail(q) \in Seq(S)
      /\ DOMAIN q = 1..Len(q) /\ DOMAIN Tail(q) = 1..(Len(q) - 1) /\ Len(q) \in Nat \ {0}
      /\ \A i \in 1..(Len(q) - 1) : Tail(q)[i] = q[i + 1]
      /\ Len(Tail(q)) = Len(q) - 1
  OBVIOUS
<1>2. Range(q) = {Head(q)} \cup Range(Tail(q))
  <2>1. \A i \in DOMAIN q : i = 1 \/ (i - 1 \in DOMAIN Tail(q) /\ Tail(q)[i - 1] = q[i])
    BY <1>1
  <2>2. \A i \in DOMAIN Tail(q) : i + 1 \in DOMAIN q /\ q[i + 1] = Tail(q)[i]
    BY <1>1
  <2>3. 1 \in DOMAIN q
    BY <1>1
  <2>4. ASSUME NEW i \in DOMAIN q PROVE q[i] = Head(q) \/ q[i] \in Range(Tail(q))
    BY <1>1, <2>1, Zenon DEF Range
  <2>5. ASSUME NEW i \in DOMAIN Tail(q) PROVE Tail(q)[i] \in Range(q)
    BY <2>2, Zenon DEF Range
  <2>6. Head(q) \in Range(q)
    BY <1>1, <2>3, Zenon DEF Range
  <2>7. /\ \A x \in Range(q) : x = Head(q) \/ x \in Range(Tail(q))
        /\ \A x \in Range(Tail(q)) : x \in Range(q)
    BY <2>4, <2>5, Zenon DEF Range
  <2> QED BY <2>6, <2>7, Zenon
<1>3. ASSUME IsInjective(q) PROVE IsInjective(Tail(q)) /\ Head(q) \notin Range(Tail(q))
  BY <1>1, <1>3 DEF IsInjective, Range
<1>4. Tail(q) = <<>> <=> ~(Len(q) > 1)
  <2>1. \A r \in Seq(S) : r = <<>> <=> Len(r) = 0
    OBVIOUS
  <2>2. Tail(q) = <<>> <=> Len(Tail(q)) = 0
    BY <1>1, <2>1, Zenon
  <2>3. PICK n \in Nat \ {0} : n = Len(q) /\ Len(Tail(q)) = n - 1
    BY <1>1, Zenon
  <2>4. n - 1 = 0 <=> ~(n > 1)
    OBVIOUS
  <2> QED BY <2>2, <2>3, <2>4, Zenon
<1> QED BY <1>1, <1>2, <1>3, <1>4, Zenon

(* An empty batch. *)
LEMMA EmptyBatch == <<>> \in Seq(Events) /\ IsInjective(<<>>) /\ Range(<<>>) = {}
BY DEF IsInjective, Range

(* A drain reads deferred events, each once, and at least one. *)
LEMMA DrainsAre ==
    ASSUME TypeOK, NEW rows \in Drains
    PROVE  /\ rows \in Seq(Events) /\ rows # <<>> /\ IsInjective(rows)
           /\ Range(rows) \subseteq outbox
<1>1. PICK n \in 1..DrainBatch : rows \in [1..n -> due]
  BY Zenon DEF Drains
<1>2. n \in Nat \ {0} /\ due \subseteq outbox /\ due \subseteq Events
  BY ChainAssumption DEF TypeOK
<1>3. rows \in Seq(Events) /\ rows # <<>> /\ DOMAIN rows = 1..n
  BY <1>1, <1>2
<1>4. Range(rows) \subseteq outbox
  BY <1>1, <1>2, Zenon DEF Range
<1>5. ASSUME NEW i \in 1..n, NEW k \in 1..n, i < k PROVE rows[i] # rows[k]
  <2>1. id[rows[i]] < id[rows[k]]
    BY <1>3, <1>5, Zenon DEF Drains
  <2>2. id[rows[i]] \in Nat
    BY <1>1, <1>2, Zenon DEF TypeOK
  <2> QED BY <2>1, <2>2
<1>6. IsInjective(rows)
  <2>1. \A i, k \in 1..n : i < k \/ k < i \/ i = k
    BY <1>2
  <2> QED BY <1>3, <1>5, <2>1, Zenon DEF IsInjective
<1> QED BY <1>3, <1>4, <1>6, Zenon

(* The event of a task that is at work. *)
LEMMA EventType ==
    ASSUME TypeInv, NEW t \in Tasks, pc[t] # "idle" PROVE EventOf(t) \in Events
<1>1. CASE t \in Events
  BY <1>1, Zenon DEF EventOf
<1>2. CASE t \notin Events
  <2>1. t \in Janitors /\ batch[t] \in Seq(Events) /\ batch[t] # <<>>
    BY <1>2, Zenon DEF Tasks, TypeInv, TypeOK, BatchOK
  <2> QED BY <1>2, <2>1 DEF EventOf
<1> QED BY <1>1, <1>2, Zenon

(* The next outbox id. *)
LEMMA SerialType == ASSUME TypeOK PROVE Serial \in Nat \ {0}
<1>1. IsFiniteSet({e \in Events : id[e] # 0})
  BY ChainAssumption, FS_Subset, Zenon
<1>2. Cardinality({e \in Events : id[e] # 0}) \in Nat
  BY <1>1, FS_CardinalityType, Zenon
<1> QED BY <1>2 DEF Serial

-----------------------------------------------------------------------------
(* Rows. *)

(* Rows of the chain keep their type. *)
LEMMA RowsTyped ==
    ASSUME TypeInv, [Next]_vars PROVE \A i \in DOMAIN log' : RowType(log'[i])
<1>1. CASE log' = log
  BY <1>1, Zenon DEF TypeInv, TypeOK, RowType
<1>2. ASSUME NEW t \in Tasks, Appends(t) PROVE \A i \in DOMAIN log' : RowType(log'[i])
  <2>1. RowType(row[t])
    BY <1>2, Zenon DEF Appends, TypeInv, TypeOK
  <2>2. /\ DOMAIN log' = 1 .. Len(log) + 1 /\ DOMAIN log = 1 .. Len(log)
        /\ \A i \in 1 .. Len(log) : log'[i] = log[i]
        /\ log'[Len(log) + 1] = row[t] /\ Len(log) \in Nat
    BY <1>2, Appended, Zenon DEF TypeInv
  <2>3. \A i \in DOMAIN log : RowType(log[i])
    BY Zenon DEF TypeInv, TypeOK
  <2>4. \A i \in DOMAIN log' : (i \in DOMAIN log /\ log'[i] = log[i]) \/ log'[i] = row[t]
    BY <2>2
  <2> QED BY <2>1, <2>3, <2>4, Zenon
<1> QED BY <1>1, <1>2, LogStep, Zenon DEF TypeInv

(* So do rows being appended. *)
LEMMA PendingTyped ==
    ASSUME TypeInv, [Next]_vars, NEW t \in Tasks, pc'[t] = "append" PROVE RowType(row'[t])
<1>1. CASE ReadHead(t)
  <2>1. /\ row'[t].event = EventOf(t)' /\ row'[t].by = WriterOf[t]
        /\ row'[t].seq = Len(log) + 1 /\ Len(log) \in Nat
    BY <1>1, ReadHeadStep, HeadContinues, Zenon DEF TypeInv
  <2>2. EventOf(t)' = EventOf(t) /\ EventOf(t) \in Events
    BY <1>1, EventType, Zenon DEF ReadHead, EventOf
  <2> QED BY <2>1, <2>2, ChainAssumption DEF RowType
<1>2. CASE ~ReadHead(t)
  BY <1>2, OtherStep, Zenon DEF TypeInv, TypeOK
<1> QED BY <1>1, <1>2, Zenon

-----------------------------------------------------------------------------
(* The rest of the state, by what a step writes. *)

DispatchPlaces == {"idle", "enter", "append", "defer", "done", "unaudited"}

JanitorPlaces == {"idle", "enter", "append", "delete", "mark"}

(* Where tasks can be. *)
LEMMA PlacesAre ==
    ASSUME TypeInv, NEW t \in Tasks, NEW v,
           t \in Events => v \in DispatchPlaces, t \in Janitors => v \in JanitorPlaces,
           pc' = [pc EXCEPT ![t] = v]
    PROVE  /\ \A e \in Events : pc'[e] \in DispatchPlaces
           /\ \A j \in Janitors : pc'[j] \in JanitorPlaces
           /\ \A u \in Tasks : pc'[u] = IF u = t THEN v ELSE pc[u]
<1>1. \A u \in Tasks : pc'[u] = IF u = t THEN v ELSE pc[u]
  BY Zenon DEF TypeInv, IndInv, Shape
<1>2. /\ \A e \in Events : pc[e] \in DispatchPlaces
      /\ \A j \in Janitors : pc[j] \in JanitorPlaces
  BY Zenon DEF TypeInv, TypeOK, DispatchPlaces, JanitorPlaces
<1> QED BY <1>1, <1>2 DEF Tasks

(* What TypeOK says of the state that the rows do not. *)
Frame ==
    /\ outbox \subseteq Events /\ due \subseteq outbox /\ id \in [Events -> Nat]
    /\ lock \in [Writers -> Tasks \cup {None}]
    /\ \A e \in Events : pc[e] \in DispatchPlaces
    /\ \A j \in Janitors : pc[j] \in JanitorPlaces
    /\ batch \in [Janitors -> Seq(Events)]
    /\ faults \in 0 .. MaxFaults /\ crashes \in 0 .. MaxCrashes
    /\ \A j \in Janitors : BatchOK(j)

(* The type invariant gives the frame. *)
LEMMA TypeFrame == TypeInv => Frame
BY Zenon DEF TypeInv, TypeOK, Frame, DispatchPlaces, JanitorPlaces

(* A fault is counted within its bound. *)
LEMMA FaultType ==
    ASSUME Frame, NEW k, Fault(k) PROVE faults' \in 0 .. MaxFaults /\ faults' = faults + 1
BY ChainAssumption DEF Frame, Fault

(* Steps of the chain. *)
LEMMA ChainFrame ==
    ASSUME TypeInv, NEW t \in Tasks, Chain(t) PROVE Frame'
<1>1. Frame
  BY TypeFrame, Zenon
<1>2. UNCHANGED <<outbox, id, due, batch, crashes>>
  BY Zenon DEF Chain, ReadHead, AppendRow, Collide, AppendFault, LostAck
<1>3. PICK v : /\ pc' = [pc EXCEPT ![t] = v] /\ pc[t] # "idle" /\ v # "idle"
               /\ t \in Events => v \in DispatchPlaces
               /\ t \in Janitors => v \in JanitorPlaces
  BY ChainAssumption, Zenon DEF Chain, ReadHead, AppendRow, Collide, AppendFault, LostAck, Leave,
     AfterWrite, AfterFault, DispatchPlaces, JanitorPlaces
<1>4. lock' \in [Writers -> Tasks \cup {None}]
  BY <1>1, Zenon DEF Frame, Chain, ReadHead, AppendRow, Collide, AppendFault, LostAck, Leave
<1>5. faults' \in 0 .. MaxFaults
  BY <1>1, FaultType, Zenon DEF Chain, ReadHead, AppendRow, Collide, AppendFault, LostAck, Frame
<1>6. /\ \A e \in Events : pc'[e] \in DispatchPlaces
      /\ \A j \in Janitors : pc'[j] \in JanitorPlaces
      /\ \A u \in Tasks : pc'[u] = IF u = t THEN v ELSE pc[u]
  BY <1>3, PlacesAre, Zenon
<1>7. \A j \in Janitors : BatchOK(j)'
  BY <1>1, <1>2, <1>3, <1>6, Zenon DEF Frame, BatchOK, Tasks
<1> QED BY <1>1, <1>2, <1>4, <1>5, <1>6, <1>7, Zenon DEF Frame, DispatchPlaces, JanitorPlaces, Tasks

(* Steps of audit.write. *)
LEMMA DispatchFrame ==
    ASSUME TypeInv, NEW e \in Events, Dispatch(e) \/ BackoffElapses(e) PROVE Frame'
<1>1. Frame
  BY TypeFrame, Zenon
<1>2. UNCHANGED <<batch, lock, crashes>>
  BY Zenon DEF Dispatch, Act, Defer, DeferFault, BackoffElapses
<1>3. PICK v \in DispatchPlaces : pc' = [pc EXCEPT ![e] = v]
  <2>1. CASE BackoffElapses(e)
    <3>1. pc' = [pc EXCEPT ![e] = pc[e]]
      BY <2>1, Zenon DEF BackoffElapses, TypeInv, IndInv, Shape, Tasks
    <3> QED BY <1>1, <3>1, Zenon DEF Frame
  <2>2. CASE Dispatch(e)
    BY <2>2, Zenon DEF Dispatch, Act, Defer, DeferFault, DispatchPlaces
  <2> QED BY <2>1, <2>2, Zenon
<1>4. /\ \A f \in Events : pc'[f] \in DispatchPlaces
      /\ \A j \in Janitors : pc'[j] \in JanitorPlaces
      /\ \A u \in Tasks : pc'[u] = IF u = e THEN v ELSE pc[u]
  BY <1>3, PlacesAre, ChainAssumption, Zenon DEF Tasks
<1>5. outbox' \subseteq Events /\ due' \subseteq outbox'
  BY <1>1, Zenon DEF Frame, Dispatch, Act, Defer, DeferFault, BackoffElapses, Deferred
<1>6. id' \in [Events -> Nat]
  BY <1>1, SerialType, Zenon DEF TypeInv, Frame, Dispatch, Act, Defer, DeferFault, BackoffElapses
<1>7. faults' \in 0 .. MaxFaults
  BY <1>1, FaultType, Zenon DEF Dispatch, Act, Defer, DeferFault, BackoffElapses, Frame
<1>8. \A j \in Janitors : BatchOK(j)'
  BY <1>1, <1>2, <1>4, ChainAssumption, Zenon DEF Frame, BatchOK, Tasks
<1> QED BY <1>1, <1>2, <1>4, <1>5, <1>6, <1>7, <1>8, Zenon
     DEF Frame, DispatchPlaces, JanitorPlaces, Tasks

(* What a step of a janitor does to its batch. *)
LEMMA DrainBatchStep ==
    ASSUME TypeInv, NEW j \in Janitors, Drain(j)
    PROVE  /\ UNCHANGED <<log, id, lock, row, crashes>>
           /\ \E v \in JanitorPlaces \ {"append", "delete", "mark"}, rows \in Seq(Events) :
                 /\ pc' = [pc EXCEPT ![j] = v] /\ batch' = [batch EXCEPT ![j] = rows]
                 /\ IsInjective(rows) /\ (v = "idle" <=> rows = <<>>)
                 /\ \/ Sweep(j) /\ Range(rows) \subseteq outbox /\ batch[j] = <<>>
                    \/ SettleFault(j) /\ rows = <<>>
                    \/ /\ Delete(j) \/ MarkFailed(j)
                       /\ Range(batch[j]) = {EventOf(j)} \cup Range(rows)
                       /\ EventOf(j) \notin Range(rows)
<1>1. Frame
  BY TypeFrame, Zenon
<1>2. UNCHANGED <<log, id, lock, row, crashes>>
  BY Zenon DEF Drain, Sweep, Delete, MarkFailed, SettleFault
<1>3. CASE Sweep(j)
  <2>1. PICK rows \in Drains : batch' = [batch EXCEPT ![j] = rows]
    BY <1>3, Zenon DEF Sweep
  <2>2. /\ rows \in Seq(Events) /\ rows # <<>> /\ IsInjective(rows)
        /\ Range(rows) \subseteq outbox
    BY <2>1, DrainsAre, Zenon DEF TypeInv
  <2>3. pc' = [pc EXCEPT ![j] = "enter"] /\ batch[j] = <<>>
    BY <1>1, <1>3, Zenon DEF Sweep, Frame, BatchOK
  <2> QED BY <1>2, <1>3, <2>1, <2>2, <2>3, Zenon DEF JanitorPlaces
<1>4. CASE SettleFault(j)
  BY <1>2, <1>4, EmptyBatch, Zenon DEF SettleFault, JanitorPlaces
<1>5. CASE Delete(j) \/ MarkFailed(j)
  <2>1. batch[j] \in Seq(Events) /\ batch[j] # <<>> /\ IsInjective(batch[j])
    BY <1>1, <1>5, Zenon DEF Delete, MarkFailed, Frame, BatchOK
  <2>2. EventOf(j) = Head(batch[j])
    BY ChainAssumption, Zenon DEF EventOf
  <2>3. /\ Tail(batch[j]) \in Seq(Events)
        /\ Tail(batch[j]) = <<>> <=> ~(Len(batch[j]) > 1)
        /\ Range(batch[j]) = {Head(batch[j])} \cup Range(Tail(batch[j]))
        /\ IsInjective(Tail(batch[j])) /\ Head(batch[j]) \notin Range(Tail(batch[j]))
    BY <2>1, TailOf, Zenon
  <2>4. /\ batch' = [batch EXCEPT ![j] = Tail(batch[j])]
        /\ pc' = [pc EXCEPT ![j] = IF Len(batch[j]) > 1 THEN "enter" ELSE "idle"]
    BY <1>1, <1>5, Zenon DEF Delete, MarkFailed, NextRow, Frame
  <2>5. CASE Len(batch[j]) > 1
    <3>1. pc' = [pc EXCEPT ![j] = "enter"] /\ "enter" \in JanitorPlaces \ {"append", "delete", "mark"}
      BY <2>4, <2>5, Zenon DEF JanitorPlaces
    <3> QED BY <1>2, <1>5, <2>2, <2>3, <2>4, <2>5, <3>1, Zenon
  <2>6. CASE ~(Len(batch[j]) > 1)
    <3>1. pc' = [pc EXCEPT ![j] = "idle"] /\ "idle" \in JanitorPlaces \ {"append", "delete", "mark"}
      BY <2>4, <2>6, Zenon DEF JanitorPlaces
    <3> QED BY <1>2, <1>5, <2>2, <2>3, <2>4, <2>6, <3>1, Zenon
  <2> QED BY <2>5, <2>6, Zenon
<1> QED BY <1>3, <1>4, <1>5, Zenon DEF Drain

(* Steps of a drain. *)
LEMMA DrainFrame ==
    ASSUME TypeInv, NEW j \in Janitors, Drain(j) PROVE Frame'
<1>1. Frame
  BY TypeFrame, Zenon
<1>2. UNCHANGED <<log, id, lock, row, crashes>>
  BY Zenon DEF Drain, Sweep, Delete, MarkFailed, SettleFault
<1>3. PICK v \in JanitorPlaces, rows \in Seq(Events) :
         /\ pc' = [pc EXCEPT ![j] = v] /\ batch' = [batch EXCEPT ![j] = rows]
         /\ IsInjective(rows) /\ (v = "idle" <=> rows = <<>>)
  BY DrainBatchStep, Zenon
<1>4. /\ \A f \in Events : pc'[f] \in DispatchPlaces
      /\ \A k \in Janitors : pc'[k] \in JanitorPlaces
      /\ \A u \in Tasks : pc'[u] = IF u = j THEN v ELSE pc[u]
  BY <1>3, PlacesAre, ChainAssumption, Zenon DEF Tasks
<1>5. outbox' \subseteq Events /\ due' \subseteq outbox'
  BY <1>1, Zenon DEF Frame, Drain, Sweep, Delete, MarkFailed, SettleFault
<1>6. faults' \in 0 .. MaxFaults
  BY <1>1, FaultType, Zenon DEF Drain, Sweep, Delete, MarkFailed, SettleFault, Frame
<1>7. batch' \in [Janitors -> Seq(Events)]
  BY <1>1, <1>3, Zenon DEF Frame
<1>8. \A k \in Janitors : BatchOK(k)'
  BY <1>1, <1>3, <1>4, Zenon DEF Frame, BatchOK, Tasks
<1> QED BY <1>1, <1>2, <1>4, <1>5, <1>6, <1>7, <1>8, Zenon
     DEF Frame, DispatchPlaces, JanitorPlaces, Tasks

(* A lost task. *)
LEMMA CrashFrame ==
    ASSUME TypeInv, NEW t \in Tasks, Crash(t) PROVE Frame'
<1>1. Frame
  BY TypeFrame, Zenon
<1>2. UNCHANGED <<outbox, id, due, faults>>
  BY Zenon DEF Crash
<1>3. PICK v : /\ pc' = [pc EXCEPT ![t] = v]
               /\ t \in Events => v \in DispatchPlaces
               /\ t \in Janitors => v = "idle"
  BY ChainAssumption, Zenon DEF Crash, DispatchPlaces
<1>4. /\ \A f \in Events : pc'[f] \in DispatchPlaces
      /\ \A j \in Janitors : pc'[j] \in JanitorPlaces
      /\ \A u \in Tasks : pc'[u] = IF u = t THEN v ELSE pc[u]
  BY <1>3, PlacesAre DEF JanitorPlaces
<1>5. crashes' \in 0 .. MaxCrashes
  BY <1>1, ChainAssumption DEF Crash, Frame
<1>6. lock' \in [Writers -> Tasks \cup {None}]
  BY <1>1, Zenon DEF Crash, Frame
<1>7. batch' \in [Janitors -> Seq(Events)]
      /\ \A j \in Janitors : batch'[j] = IF j = t THEN <<>> ELSE batch[j]
  BY <1>1, EmptyBatch, Zenon DEF Crash, Frame
<1>8. \A j \in Janitors : BatchOK(j)'
  BY <1>1, <1>3, <1>4, <1>7, EmptyBatch, Zenon DEF Frame, BatchOK, Tasks
<1> QED BY <1>1, <1>2, <1>4, <1>5, <1>6, <1>7, <1>8, Zenon
     DEF Frame, DispatchPlaces, JanitorPlaces, Tasks

(* Every step. *)
LEMMA TypeStep == TypeInv /\ [Next]_vars /\ IndInv' => TypeInv'
<1> SUFFICES ASSUME TypeInv, [Next]_vars, IndInv' PROVE TypeInv'
  BY Zenon
<1>1. Frame'
  <2>1. CASE UNCHANGED vars
    BY <2>1, TypeFrame, Zenon DEF vars, Frame, DispatchPlaces, JanitorPlaces, BatchOK
  <2> QED BY <2>1, ChainFrame, CrashFrame, DispatchFrame, DrainFrame, Zenon DEF Next
<1>2. TypeOK'
  BY <1>1, RowsTyped, PendingTyped, Zenon DEF Frame, TypeOK, DispatchPlaces, JanitorPlaces, RowType, Tasks
<1> QED BY <1>1, <1>2, Zenon DEF TypeInv, Frame

(* And the start. *)
LEMMA TypeInit == Init => TypeInv
<1> SUFFICES ASSUME Init PROVE TypeInv
  BY Zenon
<1>1. IndInv
  BY InitInv, Zenon
<1>2. TypeOK
  BY EmptyBatch, ChainAssumption DEF Init, TypeOK, Tasks
<1>3. \A j \in Janitors : BatchOK(j)
  BY EmptyBatch, Zenon DEF Init, BatchOK, Tasks
<1> QED BY <1>1, <1>2, <1>3, Zenon DEF TypeInv

(* The drains' own invariant: a janitor holds a batch exactly while it     *)
(* drains, and each row of it once.                                        *)
THEOREM TypeInvariance == Spec => []TypeInv
BY TypeInit, TypeStep, Invariance, PTL DEF Spec

(* Whatever faults and crashes audit.write and the janitors meet, every    *)
(* variable keeps its type: rows are of events and writers that exist, and *)
(* seq, ids and counters stay in their ranges.                             *)
THEOREM TypeCorrect == Spec => []TypeOK
<1>1. TypeInv => TypeOK
  BY Zenon DEF TypeInv
<1> QED BY <1>1, TypeInvariance, PTL

-----------------------------------------------------------------------------
(* Repeats.                                                                *)

(* Failed statements and lost tasks so far. *)
Failed == faults + crashes

(* Janitors whose drain has still to settle the row of event e. *)
Holders(e) == {j \in Janitors : e \in Range(batch[j])}

(* Those that have chained it and not yet deleted the row. *)
Owing(e) == {j \in Janitors : batch[j] # <<>> /\ pc[j] = "delete" /\ Head(batch[j]) = e}

Waiting(e) == Holders(e) \ Owing(e)

Repeats(e) ==
    /\ id[e] = 0 => /\ e \notin outbox /\ Holders(e) = {}
                    /\ pc[e] = "done" => Copies(e) <= Failed + 1
                    /\ pc[e] # "done" => Copies(e) <= Failed
    /\ id[e] # 0 => pc[e] = "done"
    /\ id[e] # 0 /\ e \in outbox => Copies(e) <= Failed + Cardinality(Owing(e))
    /\ id[e] # 0 /\ e \notin outbox =>
          Copies(e) + Cardinality(Waiting(e)) <= Failed + Cardinality(Janitors)

RepeatsInv == TypeInv /\ \A e \in Events : Repeats(e)

-----------------------------------------------------------------------------
(* Counting. *)

(* A finite set with and without an element. *)
LEMMA CountWithout ==
    ASSUME NEW S, IsFiniteSet(S), NEW x
    PROVE  /\ Cardinality(S \ {x}) \in Nat /\ Cardinality(S) \in Nat
           /\ x \in S => Cardinality(S) = Cardinality(S \ {x}) + 1
           /\ x \notin S => Cardinality(S) = Cardinality(S \ {x})
<1>1. Cardinality(S) \in Nat /\ IsFiniteSet(S \ {x}) /\ Cardinality(S \ {x}) \in Nat
  BY FS_CardinalityType, FS_RemoveElement, FS_Subset, Zenon
<1>2. CASE x \in S
  BY <1>1, <1>2, FS_RemoveElement
<1>3. CASE x \notin S
  <2>1. S \ {x} = S
    BY <1>3, Zenon
  <2> QED BY <1>1, <1>3, <2>1, Zenon
<1> QED BY <1>1, <1>2, <1>3, Zenon

(* Two groups of janitors that share none. *)
LEMMA CountJanitors ==
    ASSUME NEW O \in SUBSET Janitors, NEW W \in SUBSET Janitors, O \cap W = {}
    PROVE  /\ IsFiniteSet(O) /\ IsFiniteSet(W)
           /\ Cardinality(O) \in Nat /\ Cardinality(W) \in Nat
           /\ Cardinality(Janitors) \in Nat \ {0}
           /\ Cardinality(O) + Cardinality(W) <= Cardinality(Janitors)
<1>1. IsFiniteSet(Janitors) /\ Cardinality(Janitors) \in Nat \ {0}
  BY ChainAssumption, FS_CardinalityType, FS_EmptySet, Zenon
<1>2. /\ IsFiniteSet(O) /\ IsFiniteSet(W)
      /\ Cardinality(O) \in Nat /\ Cardinality(W) \in Nat
  BY <1>1, FS_Subset, FS_CardinalityType, Zenon
<1>3. Cardinality(O \cup W) = Cardinality(O) + Cardinality(W) - Cardinality(O \cap W)
  BY <1>2, FS_Union, Zenon
<1>4. Cardinality(O \cap W) = 0
  BY FS_EmptySet, Zenon
<1>5. Cardinality(O \cup W) <= Cardinality(Janitors)
  <2>1. O \cup W \in SUBSET Janitors
    BY Zenon
  <2> QED BY <1>1, <2>1, FS_Subset, Zenon
<1> QED BY <1>1, <1>2, <1>3, <1>4, <1>5

(* The janitors that wait for an event and those that have chained it. *)
LEMMA Groups ==
    ASSUME NEW e
    PROVE  /\ Owing(e) \in SUBSET Janitors /\ Waiting(e) \in SUBSET Janitors
           /\ Owing(e) \cap Waiting(e) = {}
BY Zenon DEF Owing, Waiting, Holders

(* The copies of an event are finitely many. *)
LEMMA CopiesType == ASSUME NEW S, log \in Seq(S), NEW e PROVE Copies(e) \in Nat
<1>1. IsFiniteSet(1..Len(log))
  BY FS_Interval
<1>2. {i \in DOMAIN log : log[i].event = e} \in SUBSET (1..Len(log))
  OBVIOUS
<1>3. IsFiniteSet({i \in DOMAIN log : log[i].event = e})
  BY <1>1, <1>2, FS_Subset, Zenon
<1> QED BY <1>3, FS_CardinalityType, Zenon DEF Copies

(* An append adds one copy, of its own event. *)
LEMMA CopiesAppend ==
    ASSUME IndInv, NEW t, Appends(t), NEW e
    PROVE  /\ row[t].event = e => Copies(e)' = Copies(e) + 1
           /\ row[t].event # e => Copies(e)' = Copies(e)
<1>1. /\ DOMAIN log' = 1 .. Len(log) + 1 /\ DOMAIN log = 1 .. Len(log)
      /\ \A i \in 1 .. Len(log) : log'[i] = log[i]
      /\ log'[Len(log) + 1] = row[t] /\ Len(log) \in Nat
  BY Appended, Zenon
<1> DEFINE A == {i \in DOMAIN log : log[i].event = e}
           B == {i \in DOMAIN log' : log'[i].event = e}
<1>2. IsFiniteSet(A)
  <2>1. IsFiniteSet(1..Len(log))
    BY <1>1, FS_Interval
  <2>2. A \in SUBSET (1..Len(log))
    BY <1>1, Zenon
  <2> QED BY <2>1, <2>2, FS_Subset, Zenon
<1>3. Len(log) + 1 \notin A
  BY <1>1
<1>4. row[t].event = e => B = A \cup {Len(log) + 1}
  BY <1>1
<1>5. row[t].event # e => B = A
  BY <1>1
<1>6. Copies(e) = Cardinality(A) /\ Copies(e)' = Cardinality(B)
  BY Zenon DEF Copies
<1>7. Cardinality(A \cup {Len(log) + 1}) = Cardinality(A) + 1
  <2> HIDE DEF A
  <2> QED BY <1>2, <1>3, FS_AddElement, Zenon
<1> QED BY <1>4, <1>5, <1>6, <1>7, Zenon

(* Copies are naturals before and after a step. *)
LEMMA CopiesNat ==
    ASSUME IndInv, NEW e PROVE Copies(e) \in Nat
BY CopiesType, Zenon DEF IndInv, Shape

(* Failures before and after a step. *)
LEMMA FailedAre == Failed = faults + crashes /\ Failed' = faults' + crashes'
BY Zenon DEF Failed

-----------------------------------------------------------------------------
(* Steps. *)

(* The janitors' drains are as they were. *)
LEMMA DrainsSame ==
    ASSUME batch' = batch, \A k \in Janitors : pc'[k] = "delete" <=> pc[k] = "delete", NEW e
    PROVE  Owing(e)' = Owing(e) /\ Waiting(e)' = Waiting(e) /\ Holders(e)' = Holders(e)
BY Zenon DEF Owing, Waiting, Holders

(* A step of one janitor. *)
LEMMA OthersSame ==
    ASSUME NEW j \in Janitors, NEW e,
           \A k \in Janitors \ {j} : pc'[k] = pc[k] /\ batch'[k] = batch[k]
    PROVE  /\ Owing(e)' \ {j} = Owing(e) \ {j} /\ Waiting(e)' \ {j} = Waiting(e) \ {j}
           /\ Holders(e)' \ {j} = Holders(e) \ {j}
BY Zenon DEF Owing, Waiting, Holders

(* Numbers of a step: copies, failures and groups. *)
LEMMA CountersType ==
    ASSUME TypeOK, TypeOK'
    PROVE  /\ faults \in Nat /\ crashes \in Nat /\ faults' \in Nat /\ crashes' \in Nat
           /\ Failed \in Nat /\ Failed' \in Nat
<1>1. /\ faults \in 0..MaxFaults /\ crashes \in 0..MaxCrashes
      /\ faults' \in 0..MaxFaults /\ crashes' \in 0..MaxCrashes
  BY Zenon DEF TypeOK
<1>2. MaxFaults \in Nat /\ MaxCrashes \in Nat
  BY ChainAssumption, Zenon
<1>3. faults \in Nat /\ crashes \in Nat /\ faults' \in Nat /\ crashes' \in Nat
  BY <1>1, <1>2
<1>4. \A a, b \in Nat : a + b \in Nat
  OBVIOUS
<1> QED BY <1>3, <1>4, FailedAre, Zenon

(* What the bound is made of is a natural. *)
LEMMA Counted ==
    ASSUME RepeatsInv, TypeInv', NEW e
    PROVE  /\ Copies(e) \in Nat /\ Failed \in Nat /\ Failed' \in Nat
           /\ Cardinality(Janitors) \in Nat \ {0}
<1>1. Copies(e) \in Nat
  BY CopiesNat, Zenon DEF RepeatsInv, TypeInv
<1>2. Cardinality(Janitors) \in Nat \ {0}
  BY ChainAssumption, FS_CardinalityType, FS_EmptySet, Zenon
<1> QED BY <1>1, <1>2, CountersType, Zenon DEF RepeatsInv, TypeInv

(* An event that a step leaves alone. *)
LEMMA QuietRepeats ==
    ASSUME RepeatsInv, TypeInv', NEW e \in Events, Copies(e)' = Copies(e), id'[e] = id[e],
           e \in outbox' <=> e \in outbox, pc[e] = "done" => pc'[e] = "done",
           Failed <= Failed', Owing(e)' = Owing(e), Waiting(e)' = Waiting(e),
           Holders(e)' = Holders(e)
    PROVE  Repeats(e)'
<1>1. Copies(e) \in Nat /\ Failed \in Nat /\ Failed' \in Nat
  BY Counted, Zenon
<1>2. /\ Cardinality(Owing(e)) \in Nat /\ Cardinality(Waiting(e)) \in Nat
      /\ Cardinality(Janitors) \in Nat
  BY CountJanitors, Groups, Zenon
<1>3. Repeats(e)
  BY Zenon DEF RepeatsInv
<1>4. /\ Cardinality(Owing(e))' = Cardinality(Owing(e))
      /\ Cardinality(Waiting(e))' = Cardinality(Waiting(e))
  BY Zenon
<1> QED BY <1>1, <1>2, <1>3, <1>4 DEF Repeats

(* How the groups count when one janitor moves. *)
LEMMA Tally ==
    ASSUME NEW j \in Janitors, NEW e,
           \A k \in Janitors \ {j} : pc'[k] = pc[k] /\ batch'[k] = batch[k]
    PROVE  \E o, w \in Nat :
              /\ Cardinality(Owing(e)) = IF j \in Owing(e) THEN o + 1 ELSE o
              /\ Cardinality(Waiting(e)) = IF j \in Waiting(e) THEN w + 1 ELSE w
              /\ Cardinality(Owing(e)') = IF j \in Owing(e)' THEN o + 1 ELSE o
              /\ Cardinality(Waiting(e)') = IF j \in Waiting(e)' THEN w + 1 ELSE w
              /\ o + w + 1 <= Cardinality(Janitors)
<1> DEFINE o == Cardinality(Owing(e) \ {j})  w == Cardinality(Waiting(e) \ {j})
<1>1. /\ Owing(e)' \ {j} = Owing(e) \ {j} /\ Waiting(e)' \ {j} = Waiting(e) \ {j}
  BY OthersSame, Zenon
<1>2. /\ Owing(e) \in SUBSET Janitors /\ Waiting(e) \in SUBSET Janitors
      /\ Owing(e)' \in SUBSET Janitors /\ Waiting(e)' \in SUBSET Janitors
      /\ Owing(e) \cap Waiting(e) = {}
  BY Zenon DEF Owing, Waiting, Holders
<1>3. \A S \in SUBSET Janitors : IsFiniteSet(S)
  BY ChainAssumption, FS_Subset, Zenon
<1>4. /\ o \in Nat /\ w \in Nat
      /\ Cardinality(Owing(e)) = IF j \in Owing(e) THEN o + 1 ELSE o
      /\ Cardinality(Waiting(e)) = IF j \in Waiting(e) THEN w + 1 ELSE w
  BY <1>2, <1>3, CountWithout, Zenon
<1>5. /\ Cardinality(Owing(e)') = IF j \in Owing(e)' THEN o + 1 ELSE o
      /\ Cardinality(Waiting(e)') = IF j \in Waiting(e)' THEN w + 1 ELSE w
  <2>1. \A S \in SUBSET Janitors :
           /\ j \in S => Cardinality(S) = Cardinality(S \ {j}) + 1
           /\ j \notin S => Cardinality(S) = Cardinality(S \ {j})
    BY <1>3, CountWithout, Zenon
  <2> QED BY <1>1, <1>2, <2>1, Zenon
<1>6. o + w + 1 <= Cardinality(Janitors)
  <2> DEFINE O == Owing(e) \ {j}  V == Waiting(e) \ {j}  W == V \cup {j}
  <2>1. O \in SUBSET Janitors /\ W \in SUBSET Janitors /\ O \cap W = {} /\ j \notin V
    BY <1>2, Zenon
  <2>2. IsFiniteSet(V)
    BY <1>2, <1>3, Zenon
  <2>3. Cardinality(W) = w + 1
    <3> HIDE DEF V
    <3> QED BY <2>1, <2>2, FS_AddElement, Zenon DEF V
  <2> HIDE DEF W, O
  <2>4. Cardinality(O) + Cardinality(W) <= Cardinality(Janitors)
    BY <2>1, CountJanitors, Zenon
  <2> QED BY <1>4, <2>3, <2>4 DEF O
<1> HIDE DEF o, w
<1> QED BY <1>4, <1>5, <1>6, Zenon


-----------------------------------------------------------------------------

(* A step of the chain that appends nothing, of a dispatch that defers nothing, *)
(* and of the clock. *)
LEMMA QuietStep ==
    ASSUME RepeatsInv, TypeInv', UNCHANGED <<log, batch, outbox, id, crashes>>,
           faults' \in {faults, faults + 1},
           NEW t \in Tasks, pc' = [pc EXCEPT ![t] = pc'[t]],
           t \in Events => pc[t] # "done", t \in Janitors => pc[t] # "delete" /\ pc'[t] # "delete"
    PROVE  RepeatsInv'
<1>1. \A u \in Tasks : u # t => pc'[u] = pc[u]
  BY Zenon DEF RepeatsInv, TypeInv, IndInv, Shape
<1>2. ASSUME NEW e \in Events PROVE Repeats(e)'
  <2>1. Copies(e)' = Copies(e)
    BY Zenon DEF Copies
  <2>2. pc[e] = "done" => pc'[e] = "done"
    BY <1>1, Zenon DEF Tasks
  <2>3. \A k \in Janitors : pc'[k] = "delete" <=> pc[k] = "delete"
    BY <1>1, Zenon DEF Tasks
  <2>4. Owing(e)' = Owing(e) /\ Waiting(e)' = Waiting(e) /\ Holders(e)' = Holders(e)
    BY <2>3, DrainsSame, Zenon
  <2>5. Failed <= Failed'
    <3>1. faults \in Nat /\ crashes \in Nat /\ faults' \in Nat
      BY CountersType, Zenon DEF RepeatsInv, TypeInv
    <3>2. \A a, b, c \in Nat : c \in {a, a + 1} => a + b <= c + b
      OBVIOUS
    <3> QED BY <3>1, <3>2, FailedAre, Zenon
  <2> QED BY <2>1, <2>2, <2>4, <2>5, QuietRepeats, Zenon
<1> QED BY <1>2, Zenon DEF RepeatsInv

(* An append by a dispatch. *)
LEMMA DispatchAppends ==
    ASSUME RepeatsInv, TypeInv', NEW t \in Events, AppendRow(t) \/ LostAck(t)
    PROVE  RepeatsInv'
<1>1. UNCHANGED <<batch, outbox, id, crashes>> /\ t \in Tasks /\ t \notin Janitors
  BY ChainAssumption, Zenon DEF AppendRow, LostAck, Tasks
<1>2. \A u \in Tasks : u # t => pc'[u] = pc[u]
  BY Zenon DEF RepeatsInv, TypeInv, IndInv, Shape, AppendRow, LostAck, Leave
<1>3. Appends(t) /\ row[t].event = t
  BY <1>1, Zenon DEF AppendRow, LostAck, Appends, Leave, AfterWrite, AfterFault, Fault, RepeatsInv,
     TypeInv, IndInv, Shape, Pending, EventOf
<1>4. \/ pc'[t] = "done" /\ Failed' = Failed
      \/ pc'[t] = "defer" /\ Failed' = Failed + 1
  <2>1. \/ pc'[t] = "done" /\ faults' = faults
        \/ pc'[t] = "defer" /\ faults' = faults + 1
    <3>1. CASE AppendRow(t)
      <4>1. pc'[t] = "done"
        BY <1>1, <3>1, Zenon DEF RepeatsInv, TypeInv, IndInv, Shape, AppendRow, Leave, AfterWrite
      <4>2. faults' = faults
        BY <3>1, Zenon DEF AppendRow
      <4> QED BY <4>1, <4>2, Zenon
    <3>2. CASE LostAck(t)
      BY <1>1, <3>2, Zenon DEF RepeatsInv, TypeInv, IndInv, Shape, LostAck, Leave, AfterFault, Fault
    <3> QED BY <3>1, <3>2, Zenon
  <2>2. faults \in Nat /\ crashes \in Nat
    BY CountersType, Zenon DEF RepeatsInv, TypeInv
  <2> QED BY <1>1, <2>1, <2>2, FailedAre
<1>5. \A e : Owing(e)' = Owing(e) /\ Waiting(e)' = Waiting(e) /\ Holders(e)' = Holders(e)
  <2>1. \A k \in Janitors : pc'[k] = "delete" <=> pc[k] = "delete"
    BY <1>1, <1>2, Zenon DEF Tasks
  <2> QED BY <1>1, <2>1, DrainsSame, Zenon
<1>6. Repeats(t)'
  <2>1. pc[t] = "append"
    BY Zenon DEF AppendRow, LostAck
  <2>2. id[t] = 0 /\ t \notin outbox /\ Holders(t) = {} /\ Copies(t) <= Failed
    BY <2>1, Zenon DEF RepeatsInv, Repeats
  <2>3. Copies(t)' = Copies(t) + 1
    BY <1>3, CopiesAppend, Zenon DEF RepeatsInv, TypeInv
  <2>4. Copies(t) \in Nat /\ Failed \in Nat
    BY Counted, Zenon
  <2> QED BY <1>1, <1>4, <1>5, <2>2, <2>3, <2>4 DEF Repeats
<1>7. ASSUME NEW e \in Events, e # t PROVE Repeats(e)'
  <2>1. Copies(e)' = Copies(e)
    BY <1>3, <1>7, CopiesAppend, Zenon DEF RepeatsInv, TypeInv
  <2>2. pc'[e] = pc[e]
    BY <1>2, <1>7, Zenon DEF Tasks
  <2>3. Failed <= Failed'
    BY <1>4, Counted
  <2> QED BY <1>1, <1>5, <2>1, <2>2, <2>3, QuietRepeats, Zenon
<1> QED BY <1>6, <1>7, Zenon DEF RepeatsInv

(* A task's own event gets its row in the outbox. *)
LEMMA DeferRepeats ==
    ASSUME RepeatsInv, TypeInv', NEW t \in Events, Defer(t) PROVE RepeatsInv'
<1>1. UNCHANGED <<log, batch, faults, crashes>> /\ t \in Tasks /\ t \notin Janitors
  BY ChainAssumption, Zenon DEF Defer, Tasks
<1>2. /\ \A u \in Tasks : u # t => pc'[u] = pc[u]
      /\ pc'[t] = "done" /\ pc[t] = "defer"
  BY <1>1, Zenon DEF RepeatsInv, TypeInv, IndInv, Shape, Defer
<1>3. /\ outbox' = outbox \cup {t}
      /\ \A e \in Events : e # t => id'[e] = id[e]
      /\ id'[t] # 0
  BY SerialType DEF Defer, RepeatsInv, TypeInv, TypeOK
<1>4. \A e : Owing(e)' = Owing(e) /\ Waiting(e)' = Waiting(e) /\ Holders(e)' = Holders(e)
  <2>1. \A k \in Janitors : pc'[k] = "delete" <=> pc[k] = "delete"
    BY <1>1, <1>2, Zenon DEF Tasks
  <2> QED BY <1>1, <2>1, DrainsSame, Zenon
<1>5. \A e : Copies(e)' = Copies(e)
  BY <1>1, Zenon DEF Copies
<1>6. Failed' = Failed
  BY <1>1, Zenon DEF Failed
<1>7. Repeats(t)'
  <2>1. Copies(t) <= Failed
    BY <1>2, Zenon DEF RepeatsInv, Repeats
  <2>2. Copies(t) \in Nat /\ Failed \in Nat /\ Cardinality(Owing(t)) \in Nat
    BY Counted, CountJanitors, Groups, Zenon
  <2>3. Copies(t)' <= Failed' + Cardinality(Owing(t))'
    BY <1>4, <1>5, <1>6, <2>1, <2>2
  <2> QED BY <1>2, <1>3, <2>3, Zenon DEF Repeats
<1>8. ASSUME NEW e \in Events, e # t PROVE Repeats(e)'
  <2>1. pc'[e] = pc[e]
    BY <1>2, <1>8, Zenon DEF Tasks
  <2>2. Failed <= Failed'
    BY <1>6, Counted
  <2>3. id'[e] = id[e] /\ (e \in outbox' <=> e \in outbox)
    BY <1>3, <1>8, Zenon
  <2> QED BY <1>4, <1>5, <2>1, <2>2, <2>3, QuietRepeats, Zenon
<1> QED BY <1>7, <1>8, Zenon DEF RepeatsInv

-----------------------------------------------------------------------------
(* Steps of a janitor. *)

(* The other tasks stand still. *)
LEMMA JanitorMoves ==
    ASSUME TypeInv, NEW j \in Janitors, Chain(j) \/ Crash(j) \/ Drain(j)
    PROVE  /\ \A e \in Events : pc'[e] = pc[e]
           /\ \A k \in Janitors \ {j} : pc'[k] = pc[k] /\ batch'[k] = batch[k]
           /\ id' = id
<1>1. j \in Tasks /\ j \notin Events
  BY ChainAssumption, Zenon DEF Tasks
<1>2. \E v : pc' = [pc EXCEPT ![j] = v]
  BY Zenon DEF Chain, ReadHead, AppendRow, Collide, AppendFault, LostAck, Leave, Crash, Drain,
     Sweep, Delete, MarkFailed, SettleFault, NextRow
<1>3. \A u \in Tasks : u # j => pc'[u] = pc[u]
  BY <1>2, Zenon DEF TypeInv, IndInv, Shape
<1>4. \A k \in Janitors \ {j} : batch'[k] = batch[k]
  <2>1. \/ batch' = batch \/ \E v : batch' = [batch EXCEPT ![j] = v]
        \/ batch' = [k \in Janitors |-> IF k = j THEN <<>> ELSE batch[k]]
    BY Zenon DEF Chain, ReadHead, AppendRow, Collide, AppendFault, LostAck, Crash, Drain,
       Sweep, Delete, MarkFailed, SettleFault, NextRow
  <2> QED BY <2>1, Zenon DEF TypeInv, IndInv, Shape
<1>5. id' = id
  BY Zenon DEF Chain, ReadHead, AppendRow, Collide, AppendFault, LostAck, Crash, Drain,
     Sweep, Delete, MarkFailed, SettleFault
<1> QED BY <1>1, <1>3, <1>4, <1>5, Zenon DEF Tasks

(* A janitor chains the event at the head of its drain. *)
LEMMA JanitorAppends ==
    ASSUME RepeatsInv, TypeInv', NEW j \in Janitors, AppendRow(j) PROVE RepeatsInv'
<1>1. UNCHANGED <<batch, outbox, id, faults, crashes>> /\ j \in Tasks /\ j \notin Events
  BY ChainAssumption, Zenon DEF AppendRow, Tasks
<1>2. /\ \A e \in Events : pc'[e] = pc[e]
      /\ \A k \in Janitors \ {j} : pc'[k] = pc[k] /\ batch'[k] = batch[k]
  BY JanitorMoves, Zenon DEF RepeatsInv, Chain
<1>3. pc[j] = "append" /\ pc'[j] = "delete"
  BY <1>1, Zenon DEF RepeatsInv, TypeInv, IndInv, Shape, AppendRow, Leave, AfterWrite
<1>4. Appends(j) /\ row[j].event = Head(batch[j])
  BY <1>1, Zenon DEF AppendRow, Appends, Leave, AfterWrite, RepeatsInv, TypeInv, IndInv, Shape,
     Pending, EventOf
<1>5. batch[j] \in Seq(Events) /\ batch[j] # <<>>
  BY <1>3, Zenon DEF RepeatsInv, TypeInv, TypeOK, BatchOK
<1>6. Head(batch[j]) \in Range(batch[j])
  BY <1>5, TailOf
<1>7. ASSUME NEW e \in Events PROVE Repeats(e)'
  <2>1. /\ Failed' = Failed /\ Copies(e) \in Nat /\ Failed \in Nat
        /\ Cardinality(Janitors) \in Nat
    BY <1>1, Counted, Zenon DEF Failed
  <2>2. PICK o, w \in Nat :
              /\ Cardinality(Owing(e)) = IF j \in Owing(e) THEN o + 1 ELSE o
              /\ Cardinality(Waiting(e)) = IF j \in Waiting(e) THEN w + 1 ELSE w
              /\ Cardinality(Owing(e)') = IF j \in Owing(e)' THEN o + 1 ELSE o
              /\ Cardinality(Waiting(e)') = IF j \in Waiting(e)' THEN w + 1 ELSE w
              /\ o + w + 1 <= Cardinality(Janitors)
    BY <1>2, Tally, Zenon
  <2>3. Holders(e)' = Holders(e)
    BY <1>1, Zenon DEF Holders
  <2>4. j \notin Owing(e)
    BY <1>3, Zenon DEF Owing
  <2>5. Repeats(e)
    BY Zenon DEF RepeatsInv
  <2>6. CASE Head(batch[j]) = e
    <3>1. j \in Waiting(e) /\ j \in Owing(e)' /\ j \notin Waiting(e)'
      BY <1>1, <1>3, <1>5, <1>6, <2>4, <2>6, Zenon DEF Owing, Waiting, Holders
    <3>2. Copies(e)' = Copies(e) + 1
      BY <1>4, <2>6, CopiesAppend, Zenon DEF RepeatsInv, TypeInv
    <3>3. id[e] # 0
      BY <2>5, <3>1, Zenon DEF Repeats, Waiting
    <3>4. e \in outbox => Copies(e) + 1 <= Failed + (o + 1)
      BY <2>1, <2>2, <2>4, <2>5, <3>3 DEF Repeats
    <3>5. e \notin outbox => (Copies(e) + 1) + w <= Failed + Cardinality(Janitors)
      BY <2>1, <2>2, <2>5, <3>1, <3>3 DEF Repeats
    <3> QED BY <1>1, <1>2, <2>1, <2>2, <2>5, <3>1, <3>2, <3>3, <3>4, <3>5, Zenon DEF Repeats
  <2>7. CASE Head(batch[j]) # e
    <3>1. Copies(e)' = Copies(e)
      BY <1>4, <2>7, CopiesAppend, Zenon DEF RepeatsInv, TypeInv
    <3>2. Owing(e)' = Owing(e) /\ Waiting(e)' = Waiting(e)
      <4>1. j \notin Owing(e)'
        BY <1>1, <2>7, Zenon DEF Owing
      <4>2. Owing(e)' \ {j} = Owing(e) \ {j}
        BY <1>2, OthersSame, Zenon
      <4>3. Owing(e)' = Owing(e)
        BY <2>4, <4>1, <4>2
      <4> QED BY <2>3, <4>3, Zenon DEF Waiting
    <3> QED BY <1>1, <1>2, <2>1, <2>3, <3>1, <3>2, QuietRepeats
  <2> QED BY <2>6, <2>7, Zenon
<1> QED BY <1>7, Zenon DEF RepeatsInv

(* Its append is stored and the answer lost: a copy more and a failure more. *)
LEMMA JanitorLosesAck ==
    ASSUME RepeatsInv, TypeInv', NEW j \in Janitors, LostAck(j) PROVE RepeatsInv'
<1>1. UNCHANGED <<batch, outbox, id>> /\ j \in Tasks /\ j \notin Events
  BY ChainAssumption, Zenon DEF LostAck, Tasks
<1>2. /\ \A e \in Events : pc'[e] = pc[e]
      /\ \A k \in Janitors \ {j} : pc'[k] = pc[k] /\ batch'[k] = batch[k]
  BY JanitorMoves, Zenon DEF RepeatsInv, Chain
<1>3. pc[j] = "append" /\ pc'[j] = "mark"
  BY <1>1, Zenon DEF RepeatsInv, TypeInv, IndInv, Shape, LostAck, Leave, AfterFault
<1>4. Appends(j)
  BY <1>1, Zenon DEF LostAck, Appends, Leave, AfterFault, RepeatsInv, TypeInv, IndInv, Shape
<1>5. Failed' = Failed + 1
  <2>1. /\ faults' = faults + 1 /\ crashes' = crashes
        /\ faults \in Nat /\ crashes \in Nat
    BY CountersType, Zenon DEF LostAck, Fault, RepeatsInv, TypeInv
  <2> QED BY <2>1, FailedAre
<1>6. ASSUME NEW e \in Events PROVE Repeats(e)'
  <2>1. Owing(e)' = Owing(e) /\ Waiting(e)' = Waiting(e) /\ Holders(e)' = Holders(e)
    BY <1>1, <1>2, <1>3, DrainsSame, Zenon
  <2>2. Copies(e)' = Copies(e) \/ Copies(e)' = Copies(e) + 1
    BY <1>4, CopiesAppend, Zenon DEF RepeatsInv, TypeInv
  <2>3. Copies(e) \in Nat /\ Failed \in Nat /\ Cardinality(Janitors) \in Nat
    BY Counted, Zenon
  <2>4. Cardinality(Owing(e)) \in Nat /\ Cardinality(Waiting(e)) \in Nat
    BY CountJanitors, Groups, Zenon
  <2>5. /\ Cardinality(Owing(e))' = Cardinality(Owing(e))
        /\ Cardinality(Waiting(e))' = Cardinality(Waiting(e))
    BY <2>1, Zenon
  <2>6. Repeats(e)
    BY Zenon DEF RepeatsInv
  <2> QED BY <1>1, <1>2, <1>5, <2>1, <2>2, <2>3, <2>4, <2>5, <2>6 DEF Repeats
<1> QED BY <1>6, Zenon DEF RepeatsInv

(* A janitor that goes on to another row, or gives up its drain. *)
LEMMA MovesOn ==
    ASSUME RepeatsInv, TypeInv', NEW j \in Janitors, NEW e \in Events,
           \A k \in Janitors \ {j} : pc'[k] = pc[k] /\ batch'[k] = batch[k],
           log' = log, id' = id, pc'[e] = pc[e], e \in outbox' => e \in outbox,
           Failed' = Failed \/ Failed' = Failed + 1, j \notin Owing(e)',
           j \in Owing(e) => Failed' = Failed + 1 \/ e \notin outbox',
           j \in Holders(e)' => e \in outbox' \/ (e \notin outbox /\ j \in Waiting(e))
    PROVE  Repeats(e)'
<1>1. /\ Copies(e) \in Nat /\ Failed \in Nat /\ Cardinality(Janitors) \in Nat
      /\ Copies(e)' = Copies(e)
  BY Counted, Zenon DEF Copies
<1>2. PICK o, w \in Nat :
            /\ Cardinality(Owing(e)) = IF j \in Owing(e) THEN o + 1 ELSE o
            /\ Cardinality(Waiting(e)) = IF j \in Waiting(e) THEN w + 1 ELSE w
            /\ Cardinality(Owing(e)') = IF j \in Owing(e)' THEN o + 1 ELSE o
            /\ Cardinality(Waiting(e)') = IF j \in Waiting(e)' THEN w + 1 ELSE w
            /\ o + w + 1 <= Cardinality(Janitors)
  BY Tally, Zenon
<1>3. Repeats(e)
  BY Zenon DEF RepeatsInv
<1>4. CASE id[e] = 0
  <2>1. e \notin outbox /\ Holders(e) = {} /\ e \notin outbox'
    BY <1>3, <1>4, Zenon DEF Repeats
  <2>2. Holders(e)' = {}
    <3>1. Holders(e)' \ {j} = Holders(e) \ {j}
      BY OthersSame, Zenon
    <3>2. j \notin Holders(e)'
      BY <2>1, Zenon DEF Waiting
    <3> QED BY <2>1, <3>1, <3>2, Zenon
  <2> QED BY <1>1, <1>3, <1>4, <2>1, <2>2 DEF Repeats
<1>5. CASE id[e] # 0 /\ e \in outbox'
  <2>1. Copies(e) <= Failed + Cardinality(Owing(e))
    BY <1>3, <1>5, Zenon DEF Repeats
  <2>2. Copies(e) <= Failed' + Cardinality(Owing(e)')
    BY <1>1, <1>2, <1>5, <2>1
  <2> QED BY <1>1, <1>3, <1>5, <2>2, Zenon DEF Repeats
<1>6. CASE id[e] # 0 /\ e \notin outbox' /\ e \in outbox
  <2>1. Copies(e) <= Failed + Cardinality(Owing(e))
    BY <1>3, <1>6, Zenon DEF Repeats
  <2>2. j \notin Waiting(e)'
    BY <1>6, Zenon DEF Waiting
  <2>3. Copies(e) + Cardinality(Waiting(e)') <= Failed' + Cardinality(Janitors)
    BY <1>1, <1>2, <2>1, <2>2
  <2> QED BY <1>1, <1>3, <1>6, <2>3, Zenon DEF Repeats
<1>7. CASE id[e] # 0 /\ e \notin outbox' /\ e \notin outbox
  <2>1. Copies(e) + Cardinality(Waiting(e)) <= Failed + Cardinality(Janitors)
    BY <1>3, <1>7, Zenon DEF Repeats
  <2>2. j \in Waiting(e)' => j \in Waiting(e)
    BY <1>7, Zenon DEF Waiting
  <2>3. Copies(e) + Cardinality(Waiting(e)') <= Failed' + Cardinality(Janitors)
    BY <1>1, <1>2, <2>1, <2>2
  <2> QED BY <1>1, <1>3, <1>7, <2>3, Zenon DEF Repeats
<1> QED BY <1>4, <1>5, <1>6, <1>7, Zenon

(* Sweeps, settlements and abandoned drains. *)
LEMMA DrainRepeats ==
    ASSUME RepeatsInv, TypeInv', NEW j \in Janitors, Drain(j) PROVE RepeatsInv'
<1>1. /\ \A e \in Events : pc'[e] = pc[e]
      /\ \A k \in Janitors \ {j} : pc'[k] = pc[k] /\ batch'[k] = batch[k]
      /\ id' = id
  BY JanitorMoves, Zenon DEF RepeatsInv
<1>2. /\ UNCHANGED <<log, id, lock, row, crashes>>
      /\ \E v \in JanitorPlaces \ {"append", "delete", "mark"}, rows \in Seq(Events) :
            /\ pc' = [pc EXCEPT ![j] = v] /\ batch' = [batch EXCEPT ![j] = rows]
            /\ IsInjective(rows) /\ (v = "idle" <=> rows = <<>>)
            /\ \/ Sweep(j) /\ Range(rows) \subseteq outbox /\ batch[j] = <<>>
               \/ SettleFault(j) /\ rows = <<>>
               \/ /\ Delete(j) \/ MarkFailed(j)
                  /\ Range(batch[j]) = {EventOf(j)} \cup Range(rows)
                  /\ EventOf(j) \notin Range(rows)
  BY DrainBatchStep, Zenon DEF RepeatsInv
<1>3. PICK v \in JanitorPlaces \ {"append", "delete", "mark"}, rows \in Seq(Events) :
            /\ pc' = [pc EXCEPT ![j] = v] /\ batch' = [batch EXCEPT ![j] = rows]
            /\ IsInjective(rows) /\ (v = "idle" <=> rows = <<>>)
            /\ \/ Sweep(j) /\ Range(rows) \subseteq outbox /\ batch[j] = <<>>
               \/ SettleFault(j) /\ rows = <<>>
               \/ /\ Delete(j) \/ MarkFailed(j)
                  /\ Range(batch[j]) = {EventOf(j)} \cup Range(rows)
                  /\ EventOf(j) \notin Range(rows)
  BY <1>2, Zenon
<1>4. pc'[j] = v /\ v # "delete" /\ batch'[j] = rows /\ EventOf(j) = Head(batch[j])
  <2>1. v # "delete"
    BY Zenon
  <2>2. j \in Tasks /\ j \notin Events
    BY ChainAssumption, Zenon DEF Tasks
  <2>3. pc'[j] = v /\ batch'[j] = rows
    BY <1>3, <2>2, Zenon DEF RepeatsInv, TypeInv, IndInv, Shape
  <2> QED BY <2>1, <2>2, <2>3, Zenon DEF EventOf
<1>5. \A e : j \notin Owing(e)' /\ (j \in Holders(e)' <=> e \in Range(rows))
             /\ (j \in Holders(e) <=> e \in Range(batch[j]))
  BY <1>4, Zenon DEF Owing, Holders
<1>6. \/ faults' = faults /\ Failed' = Failed
      \/ SettleFault(j) /\ Failed' = Failed + 1
  <2>1. \/ faults' = faults
        \/ SettleFault(j) /\ faults' = faults + 1
    BY Zenon DEF Drain, Sweep, Delete, MarkFailed, SettleFault, Fault
  <2>2. faults \in Nat /\ crashes \in Nat
    BY CountersType, Zenon DEF RepeatsInv, TypeInv
  <2> QED BY <1>2, <2>1, <2>2, FailedAre
<1>7. ASSUME NEW e \in Events PROVE Repeats(e)'
  <2>1. CASE Sweep(j) /\ Range(rows) \subseteq outbox /\ batch[j] = <<>>
    <3>1. outbox' = outbox /\ j \notin Owing(e)
      BY <2>1, Zenon DEF Sweep, Owing
    <3>2. j \in Holders(e)' => e \in outbox'
      BY <1>5, <2>1, <3>1, Zenon
    <3> QED BY <1>1, <1>2, <1>5, <1>6, <3>1, <3>2, MovesOn, Zenon
  <2>2. CASE SettleFault(j) /\ rows = <<>>
    <3>1. outbox' = outbox /\ j \notin Holders(e)'
      BY <1>5, <2>2, EmptyBatch, Zenon DEF SettleFault
    <3>2. Failed' = Failed + 1
      <4>1. /\ faults' = faults + 1 /\ faults \in Nat /\ crashes \in Nat
            /\ crashes' = crashes
        BY <2>2, CountersType, Zenon DEF RepeatsInv, TypeInv, SettleFault, Fault
      <4> QED BY <4>1, FailedAre
    <3> QED BY <1>1, <1>2, <1>5, <3>1, <3>2, MovesOn, Zenon
  <2>3. CASE /\ Delete(j)
             /\ Range(batch[j]) = {EventOf(j)} \cup Range(rows)
             /\ EventOf(j) \notin Range(rows)
    <3>1. outbox' = outbox \ {EventOf(j)} /\ pc[j] = "delete"
      BY <2>3, Zenon DEF Delete
    <3>2. j \in Owing(e) => e \notin outbox'
      BY <1>4, <3>1, Zenon DEF Owing
    <3>3. ASSUME j \in Holders(e)' PROVE e \in outbox' \/ (e \notin outbox /\ j \in Waiting(e))
      <4>1. e # EventOf(j) /\ j \in Holders(e)
        BY <1>5, <2>3, <3>3, Zenon
      <4>2. j \notin Owing(e)
        BY <1>4, <4>1, Zenon DEF Owing
      <4> QED BY <3>1, <4>1, <4>2, Zenon DEF Waiting
    <3> QED BY <1>1, <1>2, <1>5, <1>6, <3>1, <3>2, <3>3, MovesOn, Zenon
  <2>4. CASE /\ MarkFailed(j)
             /\ Range(batch[j]) = {EventOf(j)} \cup Range(rows)
             /\ EventOf(j) \notin Range(rows)
    <3>1. outbox' = outbox /\ j \notin Owing(e)
      BY <2>4, Zenon DEF MarkFailed, Owing
    <3>2. j \in Holders(e)' => e \in outbox' \/ (e \notin outbox /\ j \in Waiting(e))
      BY <1>5, <2>4, <3>1, Zenon DEF Waiting
    <3> QED BY <1>1, <1>2, <1>5, <1>6, <3>1, <3>2, MovesOn, Zenon
  <2> QED BY <1>3, <2>1, <2>2, <2>3, <2>4, Zenon
<1> QED BY <1>7, Zenon DEF RepeatsInv

(* A lost janitor gives up its drain; a lost dispatch chains nothing more. *)
LEMMA CrashRepeats ==
    ASSUME RepeatsInv, TypeInv', NEW t \in Tasks, Crash(t) PROVE RepeatsInv'
<1>1. UNCHANGED <<log, outbox, id, due, faults>>
  BY Zenon DEF Crash
<1>2. Failed' = Failed + 1
  <2>1. /\ crashes' = crashes + 1 /\ faults \in Nat /\ crashes \in Nat
    BY CountersType, Zenon DEF RepeatsInv, TypeInv, Crash
  <2> QED BY <1>1, <2>1, FailedAre
<1>3. ASSUME t \in Janitors, NEW e \in Events PROVE Repeats(e)'
  <2>1. /\ pc'[e] = pc[e]
        /\ \A k \in Janitors \ {t} : pc'[k] = pc[k] /\ batch'[k] = batch[k]
    BY <1>3, JanitorMoves, Zenon DEF RepeatsInv
  <2>2. batch'[t] = <<>>
    BY <1>3, Zenon DEF Crash
  <2>3. t \notin Owing(e)' /\ t \notin Holders(e)'
    BY <2>2, EmptyBatch, Zenon DEF Owing, Holders
  <2> QED BY <1>1, <1>2, <1>3, <2>1, <2>3, MovesOn, Zenon
<1>4. ASSUME t \notin Janitors, NEW e \in Events PROVE Repeats(e)'
  <2>1. t \in Events /\ pc[t] # "done" /\ \A u \in Tasks : u # t => pc'[u] = pc[u]
    BY <1>4, Zenon DEF Tasks, Crash, RepeatsInv, TypeInv, IndInv, Shape
  <2>2. batch' = batch
    BY <1>4 DEF Crash, RepeatsInv, TypeInv, IndInv, Shape
  <2>3. \A k \in Janitors : pc'[k] = "delete" <=> pc[k] = "delete"
    BY <1>4, <2>1, Zenon DEF Tasks
  <2>4. Owing(e)' = Owing(e) /\ Waiting(e)' = Waiting(e) /\ Holders(e)' = Holders(e)
    BY <2>2, <2>3, DrainsSame, Zenon
  <2>5. Copies(e)' = Copies(e)
    BY <1>1, Zenon DEF Copies
  <2>6. Failed <= Failed'
    BY <1>2, Counted
  <2>7. pc[e] = "done" => pc'[e] = "done"
    BY <2>1, Zenon DEF Tasks
  <2> QED BY <1>1, <2>4, <2>5, <2>6, <2>7, QuietRepeats, Zenon
<1> QED BY <1>3, <1>4, Zenon DEF RepeatsInv

(* Every step. *)
LEMMA RepeatsStep ==
    ASSUME RepeatsInv, [Next]_vars, TypeInv' PROVE RepeatsInv'
<1>1. ASSUME NEW t \in Tasks, Chain(t) PROVE RepeatsInv'
  <2>1. CASE AppendRow(t) \/ LostAck(t)
    BY <2>1, DispatchAppends, JanitorAppends, JanitorLosesAck, Zenon DEF Tasks
  <2>2. CASE ReadHead(t) \/ Collide(t) \/ AppendFault(t)
    <3>1. /\ UNCHANGED <<log, batch, outbox, id, crashes>>
          /\ faults' \in {faults, faults + 1}
          /\ pc[t] # "done" /\ pc[t] # "delete"
      BY <2>2, Zenon DEF ReadHead, Collide, AppendFault, Fault
    <3>2. \E v : pc' = [pc EXCEPT ![t] = v] /\ v # "delete"
      BY <2>2 DEF ReadHead, Collide, AppendFault, Leave, AfterFault
    <3>3. pc' = [pc EXCEPT ![t] = pc'[t]] /\ pc'[t] # "delete"
      BY <3>2, Zenon DEF RepeatsInv, TypeInv, IndInv, Shape
    <3> QED BY <3>1, <3>3, QuietStep, Zenon
  <2> QED BY <1>1, <2>1, <2>2, Zenon DEF Chain
<1>2. ASSUME NEW e \in Events, Dispatch(e) \/ BackoffElapses(e) PROVE RepeatsInv'
  <2>1. CASE Act(e) \/ DeferFault(e)
    <3>1. /\ UNCHANGED <<log, batch, outbox, id, crashes>>
          /\ faults' \in {faults, faults + 1} /\ pc[e] # "done"
          /\ e \in Tasks /\ e \notin Janitors
      BY <2>1, ChainAssumption, Zenon DEF Act, DeferFault, Fault, Tasks
    <3>2. \E v : pc' = [pc EXCEPT ![e] = v]
      BY <2>1, Zenon DEF Act, DeferFault
    <3>3. pc' = [pc EXCEPT ![e] = pc'[e]]
      BY <3>1, <3>2, Zenon DEF RepeatsInv, TypeInv, IndInv, Shape
    <3> QED BY <3>1, <3>3, QuietStep, Zenon
  <2>2. CASE Defer(e)
    BY <2>2, DeferRepeats, Zenon
  <2>3. CASE BackoffElapses(e)
    <3>1. UNCHANGED <<log, batch, outbox, id, pc, faults, crashes>>
      BY <2>3, Zenon DEF BackoffElapses
    <3> QED BY <3>1, Zenon DEF RepeatsInv, Repeats, Copies, Owing, Waiting, Holders, Failed
  <2> QED BY <1>2, <2>1, <2>2, <2>3, Zenon DEF Dispatch
<1>3. CASE UNCHANGED vars
  BY <1>3, Zenon DEF vars, RepeatsInv, Repeats, Copies, Owing, Waiting, Holders, Failed
<1> QED BY <1>1, <1>2, <1>3, CrashRepeats, DrainRepeats, Zenon DEF Next

(* And the start. *)
LEMMA RepeatsInit == Init => RepeatsInv
<1> SUFFICES ASSUME Init, NEW e \in Events PROVE Repeats(e)
  BY TypeInit, Zenon DEF RepeatsInv
<1>1. id[e] = 0 /\ e \notin outbox /\ pc[e] = "idle" /\ Holders(e) = {}
  BY EmptyBatch, Zenon DEF Init, Holders, Tasks
<1>2. Copies(e) = 0 /\ Failed = 0
  <2>1. {i \in DOMAIN log : log[i].event = e} = {}
    BY DEF Init
  <2> QED BY <2>1, FS_EmptySet DEF Copies, Init, Failed
<1> QED BY <1>1, <1>2 DEF Repeats

(* The bookkeeping behind RepeatsBounded: while an event's outbox row      *)
(* stands, each copy above the failures so far belongs to a janitor that   *)
(* has chained it and not yet deleted the row; once the row is gone, the   *)
(* janitors still holding it in a batch are the copies yet to come.        *)
THEOREM RepeatsInvariance == Spec => []RepeatsInv
<1>1. RepeatsInv /\ [Next]_vars /\ TypeInv' => RepeatsInv'
  BY RepeatsStep, Zenon
<1> QED BY <1>1, RepeatsInit, TypeInvariance, PTL DEF Spec

(* AuditOutboxJanitor delivers at least once, and an event is chained more *)
(* than once only by another janitor that had read its outbox row or after *)
(* a failed statement or a lost task.                                      *)
THEOREM RepeatsBoundedHolds == Spec => []RepeatsBounded
<1>1. RepeatsInv => RepeatsBounded
  <2> SUFFICES ASSUME RepeatsInv, NEW e \in Events
               PROVE  Copies(e) <= Cardinality(Janitors) + faults + crashes
    BY Zenon DEF RepeatsBounded
  <2>1. /\ Copies(e) \in Nat /\ faults \in Nat /\ crashes \in Nat /\ Failed = faults + crashes
    <3>1. Copies(e) \in Nat
      BY CopiesNat, Zenon DEF RepeatsInv, TypeInv
    <3>2. faults \in Nat /\ crashes \in Nat
      BY ChainAssumption DEF RepeatsInv, TypeInv, TypeOK
    <3> QED BY <3>1, <3>2, Zenon DEF Failed
  <2>2. /\ Cardinality(Janitors) \in Nat \ {0}
        /\ Cardinality(Owing(e)) \in Nat /\ Cardinality(Waiting(e)) \in Nat
        /\ Cardinality(Owing(e)) + Cardinality(Waiting(e)) <= Cardinality(Janitors)
    BY CountJanitors, Groups, Zenon
  <2>3. Repeats(e)
    BY Zenon DEF RepeatsInv
  <2>4. Failed \in Nat
    BY <2>1
  <2>5. Copies(e) <= Failed + Cardinality(Janitors)
    BY <2>1, <2>2, <2>3, <2>4 DEF Repeats
  <2> QED BY <2>1, <2>2, <2>5
<1> QED BY <1>1, RepeatsInvariance, PTL
=============================================================================
