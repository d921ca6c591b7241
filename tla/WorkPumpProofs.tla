--------------------------- MODULE WorkPumpProofs ---------------------------
(***************************************************************************)
(* Proofs about WorkPump, for any number of claims, requests, lapses,      *)
(* faults, crashes and manual moves, on either lane.                       *)
(***************************************************************************)
EXTENDS WorkPump, TLAPS

(* A body that has read its item and still runs. *)
Running(b) == b.pc \notin Ended \union {"queued"}

BodyShape(b) ==
    /\ b = [pc |-> b.pc, attempts |-> b.attempts, result |-> b.result,
            to |-> b.to, failing |-> b.failing]
    /\ b.attempts \in Nat

(* What a body is about to write: a retry is within the attempts, a settle *)
(* is an end state.                                                        *)
BodySound(b) ==
    /\ b.pc = "join" => b.to \in {"done", "escalated", "degraded"}
    /\ b.pc = "settle" => b.to \in {"done", "awaiting_human"}
    /\ b.pc = "record" /\ b.to = "pending" => b.attempts < MaxAttempts

ItemShape(i) ==
    /\ i = [status |-> i.status, lease |-> i.lease,
            attempts |-> i.attempts, result |-> i.result]
    /\ i.attempts \in Nat

SpentShape(s) ==
    /\ s = [lapses |-> s.lapses, faults |-> s.faults, crashes |-> s.crashes,
            moves |-> s.moves, requeues |-> s.requeues]
    /\ s.lapses \in Nat
    /\ s.moves \in Nat
    /\ s.requeues \in Nat

Shape ==
    /\ claims \in Nat
    /\ ItemShape(item)
    /\ lapsed \in BOOLEAN
    /\ SpentShape(spent)
    /\ body = [c \in Claims |-> body[c]]
    /\ \A c \in Claims : BodyShape(body[c]) /\ BodySound(body[c])

(* The body whose token the row carries has the row's attempts. *)
Copied ==
    \A c \in Claims :
        item.lease = c /\ Running(body[c]) => body[c].attempts = item.attempts

(* The attempts the item has left, and the claim it has coming although it *)
(* has none left: because its lease ran out, or because it was put back by *)
(* hand.                                                                   *)
Left(i) == IF i.attempts < MaxAttempts THEN MaxAttempts - i.attempts ELSE 0
Owed(i, l) ==
    IF \/ i.status = "in_flight" /\ l
       \/ i.status = "pending" /\ ~(i.attempts < MaxAttempts)
    THEN 1 ELSE 0

Allowed(s) == MaxAttempts * (1 + s.requeues) + s.lapses + s.moves

Budget == claims + Left(item) + Owed(item, lapsed) <= Allowed(spent)

IndInv == Shape /\ OnlyNewestHolds /\ Copied /\ Budget

-----------------------------------------------------------------------------
(* What a step of body c does: it changes only itself, and either leaves   *)
(* the row alone or, holding the row's token, writes an end state, the     *)
(* parked one or a retry within the attempts.                              *)
Silent(c) ==
    /\ UNCHANGED <<item, lapsed>>
    /\ Running(body'[c]) =>
          \/ Running(body[c]) /\ body'[c].attempts = body[c].attempts
          \/ item.lease = c /\ body'[c].attempts = item.attempts

Writes(c) ==
    /\ item.lease = c
    /\ Running(body[c])
    /\ ItemShape(item')
    /\ item'.attempts = body[c].attempts
    /\ item'.lease \in {NoLease, c}
    /\ item'.status # "in_flight"
    /\ item'.status = "pending" => body[c].attempts < MaxAttempts
    /\ lapsed' \in BOOLEAN
    /\ body'[c].attempts = body[c].attempts

Effect(c) ==
    /\ body' = [body EXCEPT ![c] = body'[c]]
    /\ BodyShape(body'[c])
    /\ BodySound(body'[c])
    /\ UNCHANGED claims
    /\ SpentShape(spent')
    /\ Allowed(spent') = Allowed(spent)
    /\ Silent(c) \/ Writes(c)

(* Goto keeps the body's copy, or drops it where the body ends. *)
LEMMA GotoEffect ==
    ASSUME Shape, NEW c \in Claims, NEW pc, Goto(c, pc)
    PROVE  /\ body' = [body EXCEPT ![c] = body'[c]]
           /\ BodyShape(body'[c])
           /\ body'[c].pc = pc
           /\ pc \notin Ended => /\ body'[c].attempts = body[c].attempts
                                 /\ body'[c].to = body[c].to
<1>1. body'[c] = IF pc \in Ended THEN Fresh(pc) ELSE [body[c] EXCEPT !.pc = pc]
  BY Zenon DEF Goto, Shape
<1>2. body' = [body EXCEPT ![c] = body'[c]]
  BY <1>1, Zenon DEF Goto, Shape
<1>3. BodyShape(body[c])
  BY Zenon DEF Shape
<1>. HIDE DEF Shape, Goto
<1>4. CASE pc \in Ended
  BY <1>1, <1>2, <1>4 DEF Fresh, BodyShape
<1>5. CASE pc \notin Ended
  BY <1>1, <1>2, <1>3, <1>5, Zenon DEF BodyShape
<1>. QED BY <1>4, <1>5, Zenon

(* A fenced write that changes the row, or is refused. *)
LEMMA WriteEffect ==
    ASSUME Shape, NEW c \in Claims, Running(body[c]),
           NEW status, status # "in_flight",
           status = "pending" => body[c].attempts < MaxAttempts,
           NEW lease \in {NoLease, c}, NEW result,
           Write(c, status, lease, result),
           body'[c].attempts = body[c].attempts
    PROVE  Silent(c) \/ Writes(c)
<1>1. CASE item.lease = c
  <2>1. body[c].attempts \in Nat
    BY Zenon DEF Shape, BodyShape
  <2>2. item' = [status |-> status, lease |-> lease,
                 attempts |-> body[c].attempts, result |-> result]
    BY <1>1, Zenon DEF Write
  <2>3. lapsed' \in BOOLEAN
    BY <1>1, Zenon DEF Write
  <2>. QED BY <1>1, <2>1, <2>2, <2>3, Zenon DEF Writes, ItemShape
<1>2. CASE item.lease # c
  BY <1>2, Zenon DEF Write, Silent
<1>. QED BY <1>1, <1>2, Zenon

(* Every step of a body has that effect: the steps that only move on ... *)
LEMMA QuietSteps ==
    ASSUME Shape, NEW c \in Claims,
           \/ Start(c) \/ Route(c) \/ Park(c) \/ Trigger(c) \/ After(c)
    PROVE  Effect(c)
<1>0. /\ BodyShape(body[c])
      /\ BodySound(body[c])
      /\ SpentShape(spent)
      /\ body = [d \in Claims |-> body[d]]
  BY Zenon DEF Shape
<1>1. CASE Start(c)
  <2>1. PICK pc \in {"cancel", "route"} : Goto(c, pc)
    BY <1>1, Zenon DEF Start
  <2>. QED BY <1>0, <1>1, <2>1, GotoEffect, Zenon
           DEF Start, Effect, Silent, Running, BodySound, Ended
<1>2. CASE Route(c)
  <2>1. PICK pc \in {"park", "cancel", "execute", "trigger"} : Goto(c, pc)
    BY <1>2, Zenon DEF Route
  <2>. QED BY <1>0, <1>2, <2>1, GotoEffect, Zenon
           DEF Route, Effect, Silent, Running, BodySound, Ended
<1>3. CASE Park(c)
  <2>1. body' = [body EXCEPT ![c].pc = "settle", ![c].to = "awaiting_human"]
    BY <1>3, Zenon DEF Park
  <2>2. body'[c] = [body[c] EXCEPT !.pc = "settle", !.to = "awaiting_human"]
    BY <1>0, <2>1, Zenon
  <2>3. body' = [body EXCEPT ![c] = body'[c]]
    BY <1>0, <2>1, <2>2, ZenonT(60)
  <2>4. /\ BodyShape(body'[c])
        /\ BodySound(body'[c])
        /\ body'[c].attempts = body[c].attempts
    BY <1>0, <2>2, ZenonT(60) DEF BodyShape, BodySound
  <2>. QED BY <1>0, <1>3, <2>3, <2>4, Zenon DEF Park, Effect, Silent, Running, Ended
<1>4. CASE Trigger(c)
  <2>1. CASE Goto(c, "park")
    BY <1>0, <1>4, <2>1, GotoEffect
       DEF Trigger, Effect, Silent, Running, BodySound, Ended
  <2>2. CASE body' = [body EXCEPT ![c].pc = "settle", ![c].result = c,
                                  ![c].to = "done"]
    <3>1. body'[c] = [body[c] EXCEPT !.pc = "settle", !.result = c, !.to = "done"]
      BY <1>0, <2>2, Zenon
    <3>2. body' = [body EXCEPT ![c] = body'[c]]
      BY <1>0, <2>2, <3>1, ZenonT(60)
    <3>3. /\ BodyShape(body'[c])
          /\ BodySound(body'[c])
          /\ body'[c].attempts = body[c].attempts
      BY <1>0, <3>1, ZenonT(60) DEF BodyShape, BodySound
    <3>. QED BY <1>0, <1>4, <3>2, <3>3, Zenon DEF Trigger, Effect, Silent, Running, Ended
  <2>. QED BY <1>4, <2>1, <2>2, Zenon DEF Trigger
<1>5. CASE After(c)
  <2>1. Goto(c, "gone")
    BY <1>5, Zenon DEF After
  <2>. QED BY <1>0, <1>5, <2>1, GotoEffect
           DEF After, Effect, Silent, Running, BodySound, Ended
<1>. QED BY <1>1, <1>2, <1>3, <1>4, <1>5, Zenon

(* ... the steps that read the row or decide what to write ... *)
LEMMA DecidingSteps ==
    ASSUME Shape, NEW c \in Claims,
           Load(c) \/ Execute(c) \/ Join(c) \/ CancelWins(c) \/ Judge(c)
    PROVE  Effect(c)
<1>0. /\ BodyShape(body[c])
      /\ BodySound(body[c])
      /\ SpentShape(spent)
      /\ ItemShape(item)
      /\ body = [d \in Claims |-> body[d]]
  BY Zenon DEF Shape
<1>1. CASE Load(c)
  <2>1. CASE item.lease # c
    BY <1>0, <1>1, <2>1, GotoEffect
       DEF Load, Effect, Silent, Running, BodySound, Ended
  <2>2. CASE item.lease = c
    <3>1. PICK pc \in {"park", "start"} :
             body' = [body EXCEPT ![c].pc = pc, ![c].attempts = item.attempts,
                                  ![c].result = item.result]
      BY <1>1, <2>2, ZenonT(60) DEF Load
    <3>2. body'[c] = [body[c] EXCEPT !.pc = pc, !.attempts = item.attempts,
                                     !.result = item.result]
      BY <1>0, <3>1, Zenon
    <3>3. body' = [body EXCEPT ![c] = body'[c]]
      BY <1>0, <3>1, <3>2, ZenonT(60)
    <3>4. /\ BodyShape(body'[c])
          /\ BodySound(body'[c])
          /\ body'[c].attempts = item.attempts
      BY <1>0, <3>2, ZenonT(60) DEF BodyShape, BodySound, ItemShape
    <3>. QED BY <1>0, <1>1, <2>2, <3>3, <3>4, Zenon DEF Load, Effect, Silent
  <2>. QED BY <2>1, <2>2, Zenon
<1>2. CASE Execute(c)
  <2>1. PICK outcome \in Outcomes :
           body' = [body EXCEPT ![c].pc = "join", ![c].result = c,
                                ![c].to = outcome]
    BY <1>2, ZenonT(60) DEF Execute
  <2>2. outcome \in {"done", "escalated", "degraded"}
    BY WorkPumpAssumption, Zenon
  <2>3. body'[c] = [body[c] EXCEPT !.pc = "join", !.result = c, !.to = outcome]
    BY <1>0, <2>1, Zenon
  <2>4. body' = [body EXCEPT ![c] = body'[c]]
    BY <1>0, <2>1, <2>3, ZenonT(60)
  <2>5. /\ BodyShape(body'[c])
        /\ BodySound(body'[c])
        /\ body'[c].attempts = body[c].attempts
    BY <1>0, <2>2, <2>3, ZenonT(60) DEF BodyShape, BodySound
  <2>. QED BY <1>0, <1>2, <2>4, <2>5, ZenonT(60) DEF Execute, Effect, Silent, Running, Ended
<1>3. CASE Join(c)
  <2>1. body[c].to \in {"done", "escalated", "degraded"}
    BY <1>0, <1>3, Zenon DEF Join, BodySound
  <2>2. PICK pc, to :
           /\ body'[c] = [body[c] EXCEPT !.pc = pc, !.to = to]
           /\ pc \in {"cancel", "park"} \/
                 (pc = "settle" /\ to \in {"done", "awaiting_human"})
           /\ body' = [body EXCEPT ![c] = body'[c]]
    <3>1. CASE cancel
      <4>1. body' = [body EXCEPT ![c].pc = "cancel"]
        BY <1>0, <1>3, <3>1, Zenon DEF Join
      <4>2. body'[c] = [body[c] EXCEPT !.pc = "cancel", !.to = body[c].to]
        BY <1>0, <4>1, ZenonT(60) DEF BodyShape
      <4>. QED BY <1>0, <4>1, <4>2, ZenonT(60)
    <3>2. CASE ~cancel /\ body[c].to = "done"
      <4>1. body' = [body EXCEPT ![c].pc = "settle"]
        BY <1>0, <1>3, <3>2, ZenonT(60) DEF Join
      <4>2. body'[c] = [body[c] EXCEPT !.pc = "settle", !.to = "done"]
        BY <1>0, <3>2, <4>1, ZenonT(60) DEF BodyShape
      <4>. QED BY <1>0, <4>1, <4>2, ZenonT(60)
    <3>3. CASE ~cancel /\ body[c].to = "escalated"
      <4>1. body' = [body EXCEPT ![c].pc = "settle", ![c].to = "awaiting_human"]
        BY <1>0, <1>3, <3>3, ZenonT(60) DEF Join
      <4>2. body'[c] = [body[c] EXCEPT !.pc = "settle", !.to = "awaiting_human"]
        BY <1>0, <4>1, Zenon
      <4>. QED BY <1>0, <4>1, <4>2, ZenonT(60)
    <3>4. CASE ~cancel /\ body[c].to = "degraded"
      <4>1. body' = [body EXCEPT ![c].pc = "park"]
        BY <1>0, <1>3, <3>4, ZenonT(60) DEF Join
      <4>2. body'[c] = [body[c] EXCEPT !.pc = "park", !.to = body[c].to]
        BY <1>0, <4>1, ZenonT(60) DEF BodyShape
      <4>. QED BY <1>0, <4>1, <4>2, ZenonT(60)
    <3>. QED BY <2>1, <3>1, <3>2, <3>3, <3>4, ZenonT(60)
  <2>3. /\ BodyShape(body'[c])
        /\ BodySound(body'[c])
        /\ body'[c].attempts = body[c].attempts
    BY <1>0, <2>2, ZenonT(60) DEF BodyShape, BodySound
  <2>. QED BY <1>0, <1>3, <2>2, <2>3, ZenonT(60) DEF Join, Effect, Silent, Running, Ended
<1>4. CASE CancelWins(c)
  <2>1. PICK pc \in {"cancel", "judge"} :
           body' = [body EXCEPT ![c].pc = pc, ![c].failing = TRUE]
    BY <1>4, ZenonT(60) DEF CancelWins
  <2>2. body'[c] = [body[c] EXCEPT !.pc = pc, !.failing = TRUE]
    BY <1>0, <2>1, Zenon
  <2>3. body' = [body EXCEPT ![c] = body'[c]]
    BY <1>0, <2>1, <2>2, ZenonT(60)
  <2>4. /\ BodyShape(body'[c])
        /\ BodySound(body'[c])
        /\ body'[c].attempts = body[c].attempts
    BY <1>0, <2>2, ZenonT(60) DEF BodyShape, BodySound
  <2>. QED BY <1>0, <1>4, <2>3, <2>4, Zenon DEF CancelWins, Effect, Silent, Running, Ended
<1>5. CASE Judge(c)
  <2>1. CASE item.status \in SETTLED_STATUSES
    BY <1>0, <1>5, <2>1, GotoEffect
       DEF Judge, Effect, Silent, Running, BodySound, Ended
  <2>2. CASE item.status \notin SETTLED_STATUSES
    <3>1. PICK to \in {"pending", "failed"} :
             /\ body' = [body EXCEPT ![c].pc = "record", ![c].to = to]
             /\ to = "pending" => body[c].attempts < MaxAttempts
      BY <1>5, <2>2, Zenon DEF Judge
    <3>2. body'[c] = [body[c] EXCEPT !.pc = "record", !.to = to]
      BY <1>0, <3>1, Zenon
    <3>3. body' = [body EXCEPT ![c] = body'[c]]
      BY <1>0, <3>1, <3>2, ZenonT(60)
    <3>4. /\ BodyShape(body'[c])
          /\ BodySound(body'[c])
          /\ body'[c].attempts = body[c].attempts
      BY <1>0, <3>1, <3>2, ZenonT(60) DEF BodyShape, BodySound
    <3>. QED BY <1>0, <1>5, <3>3, <3>4, Zenon DEF Judge, Effect, Silent, Running, Ended
  <2>. QED BY <2>1, <2>2, Zenon
<1>. QED BY <1>1, <1>2, <1>3, <1>4, <1>5, Zenon

(* ... the steps that write ... *)
LEMMA WritingSteps ==
    ASSUME Shape, NEW c \in Claims, Settle(c) \/ Cancel(c) \/ Record(c)
    PROVE  Effect(c)
<1>0. /\ BodyShape(body[c])
      /\ BodySound(body[c])
      /\ SpentShape(spent)
      /\ body = [d \in Claims |-> body[d]]
  BY Zenon DEF Shape
<1>1. CASE Settle(c)
  <2>1. /\ body[c].to \in {"done", "awaiting_human"}
        /\ Running(body[c])
        /\ Goto(c, "after")
        /\ Write(c, body[c].to, c, body[c].result)
    BY <1>0, <1>1, Zenon DEF Settle, BodySound, Running, Ended
  <2>2. /\ body' = [body EXCEPT ![c] = body'[c]]
        /\ BodyShape(body'[c])
        /\ BodySound(body'[c])
        /\ body'[c].attempts = body[c].attempts
    BY <2>1, GotoEffect DEF Ended, BodySound
  <2>3. Silent(c) \/ Writes(c)
    BY <2>1, <2>2, WriteEffect, Zenon
  <2>. QED BY <1>0, <1>1, <2>2, <2>3, Zenon DEF Settle, Effect
<1>2. CASE Cancel(c)
  <2>1. /\ body' = [body EXCEPT ![c].pc = "after", ![c].to = "cancelled"]
        /\ Write(c, "cancelled", NoLease, body[c].result)
        /\ Running(body[c])
    BY <1>2, Zenon DEF Cancel, Running, Ended
  <2>2. body'[c] = [body[c] EXCEPT !.pc = "after", !.to = "cancelled"]
    BY <1>0, <2>1, Zenon
  <2>3. body' = [body EXCEPT ![c] = body'[c]]
    BY <1>0, <2>1, <2>2, ZenonT(60)
  <2>4. /\ BodyShape(body'[c])
        /\ BodySound(body'[c])
        /\ body'[c].attempts = body[c].attempts
    BY <1>0, <2>2, ZenonT(60) DEF BodyShape, BodySound
  <2>5. Silent(c) \/ Writes(c)
    BY <2>1, <2>4, WriteEffect, ZenonT(60)
  <2>. QED BY <1>0, <1>2, <2>3, <2>4, <2>5, Zenon DEF Cancel, Effect
<1>3. CASE Record(c)
  <2>1. /\ Running(body[c])
        /\ Goto(c, "after")
    BY <1>3, Zenon DEF Record, Running, Ended
  <2>2. /\ body' = [body EXCEPT ![c] = body'[c]]
        /\ BodyShape(body'[c])
        /\ BodySound(body'[c])
        /\ body'[c].attempts = body[c].attempts
    BY <2>1, GotoEffect DEF Ended, BodySound
  <2>3. Silent(c) \/ Writes(c)
    <3>1. CASE body[c].to = "pending"
      <4>1. Write(c, "pending", NoLease, body[c].result)
        BY <1>3, <3>1, Zenon DEF Record
      <4>2. body[c].attempts < MaxAttempts
        BY <1>0, <1>3, <3>1, Zenon DEF Record, BodySound
      <4>. QED BY <2>1, <2>2, <4>1, <4>2, WriteEffect, Zenon
    <3>2. CASE body[c].to # "pending"
      <4>1. Write(c, "failed", c, c)
        BY <1>3, <3>2, Zenon DEF Record
      <4>. QED BY <2>1, <2>2, <4>1, WriteEffect, Zenon
    <3>. QED BY <3>1, <3>2, Zenon
  <2>. QED BY <1>0, <1>3, <2>2, <2>3, Zenon DEF Record, Effect
<1>. QED BY <1>1, <1>2, <1>3, Zenon

(* ... and what goes wrong in it. *)
LEMMA BrokenSteps ==
    ASSUME Shape, NEW c \in Claims, Fault(c) \/ Crash(c) \/ Redeliver(c)
    PROVE  Effect(c)
<1>0. /\ BodyShape(body[c])
      /\ SpentShape(spent)
      /\ body = [d \in Claims |-> body[d]]
  BY Zenon DEF Shape
<1>1. CASE Fault(c)
  <2>1. PICK pc \in {"gone", "failed"} :
           Goto(c, pc) /\ (pc = "failed" => body[c].pc # "queued")
    <3>1. FaultKind(body[c]) # "uncaught" => body[c].pc # "queued"
      BY Zenon DEF FaultKind
    <3>. QED BY <1>1, <3>1, Zenon DEF Fault
  <2>2. body[c].pc \notin Ended
    BY <1>1, Zenon DEF Fault
  <2>3. SpentShape(spent') /\ Allowed(spent') = Allowed(spent)
    BY <1>0, <1>1, Zenon DEF Fault, SpentShape, Allowed
  <2>. QED BY <1>0, <1>1, <2>1, <2>2, <2>3, GotoEffect, Zenon
           DEF Fault, Effect, Silent, Running, BodySound, Ended
<1>2. CASE Crash(c)
  <2>1. Goto(c, "dead")
    BY <1>2, Zenon DEF Crash
  <2>2. SpentShape(spent') /\ Allowed(spent') = Allowed(spent)
    BY <1>0, <1>2, Zenon DEF Crash, SpentShape, Allowed
  <2>. QED BY <1>0, <1>2, <2>1, <2>2, GotoEffect
           DEF Crash, Effect, Silent, Running, BodySound, Ended
<1>3. CASE Redeliver(c)
  <2>1. body' = [body EXCEPT ![c] = Fresh("queued")]
    BY <1>3, Zenon DEF Redeliver
  <2>2. body'[c] = Fresh("queued")
    BY <1>0, <2>1, Zenon
  <2>3. /\ BodyShape(body'[c])
        /\ BodySound(body'[c])
        /\ ~Running(body'[c])
    BY <2>2 DEF Fresh, BodyShape, BodySound, Running
  <2>4. body' = [body EXCEPT ![c] = body'[c]]
    BY <2>1, <2>2, ZenonT(60)
  <2>. QED BY <1>0, <1>3, <2>3, <2>4, Zenon DEF Redeliver, Effect, Silent
<1>. QED BY <1>1, <1>2, <1>3, Zenon

-----------------------------------------------------------------------------
(* A body's effect keeps the invariant. *)
LEMMA EffectKeeps ==
    ASSUME IndInv, NEW c \in Claims, Effect(c)
    PROVE  IndInv'
<1>0. /\ claims \in Nat
      /\ MaxAttempts \in Nat
      /\ body = [d \in Claims |-> body[d]]
      /\ item.attempts \in Nat
      /\ c \in Nat \ {0}
  BY WorkPumpAssumption DEF IndInv, Shape, ItemShape, Claims
<1>1. \A d \in Claims : d # c => body'[d] = body[d]
  BY <1>0, Zenon DEF Effect
<1>2. body' = [d \in Claims |-> body'[d]]
  BY <1>0, Zenon DEF Effect
<1>3. \A d \in Claims : BodyShape(body[d])' /\ BodySound(body[d])'
  BY <1>1, Zenon DEF Effect, IndInv, Shape, BodyShape, BodySound
<1>4. CASE Silent(c)
  <2>1. Shape'
    BY <1>0, <1>2, <1>3, <1>4, Zenon
       DEF Shape, IndInv, Effect, Silent, ItemShape, SpentShape
  <2>2. OnlyNewestHolds' /\ Budget'
    BY <1>4, Zenon DEF OnlyNewestHolds, Budget, IndInv, Effect, Silent, Left, Owed
  <2>3. Copied'
    BY <1>1, <1>4, Zenon DEF Copied, IndInv, Silent, Running
  <2>. QED BY <2>1, <2>2, <2>3, Zenon DEF IndInv
<1>5. CASE Writes(c)
  <2>0. body[c].attempts = item.attempts /\ item'.attempts = item.attempts
    BY <1>5, Zenon DEF Writes, IndInv, Copied
  <2>1. Shape'
    BY <1>0, <1>2, <1>3, <1>5, Zenon
       DEF Shape, IndInv, Effect, Writes, ItemShape, SpentShape
  <2>2. OnlyNewestHolds'
    BY <1>0, <1>5, Zenon DEF OnlyNewestHolds, IndInv, Effect, Writes
  <2>3. Copied'
    <3>1. SUFFICES ASSUME NEW d \in Claims, item'.lease = d
                   PROVE  body'[d].attempts = item'.attempts
      BY Zenon DEF Copied, Running
    <3>2. d = c
      BY <1>5, <3>1 DEF Writes, NoLease, Claims
    <3>. QED BY <1>5, <2>0, <3>2, Zenon DEF Writes
  <2>4. Left(item') = Left(item) /\ Owed(item', lapsed') = 0
    BY <1>5, <2>0, Zenon DEF Left, Owed, Writes
  <2>5. claims + Left(item) + 0 <= Allowed(spent)
    <3>1. /\ Left(item) \in Nat /\ Owed(item, lapsed) \in Nat
      BY <1>0 DEF Left, Owed
    <3>2. Allowed(spent) \in Nat
      BY <1>0 DEF Allowed, IndInv, Shape, SpentShape
    <3>. QED BY <1>0, <3>1, <3>2 DEF IndInv, Budget
  <2>6. Budget'
    BY <2>4, <2>5, Zenon DEF Budget, Effect
  <2>. QED BY <2>1, <2>2, <2>3, <2>6, Zenon DEF IndInv
<1>. QED BY <1>4, <1>5, Zenon DEF Effect

-----------------------------------------------------------------------------
(* The invariant holds at the start ... *)
LEMMA InitInv == Init => IndInv
<1>. SUFFICES ASSUME Init PROVE IndInv
  BY Zenon
<1>1. /\ claims = 0 /\ lapsed = FALSE
      /\ MaxAttempts \in Nat
      /\ item = [status |-> "pending", lease |-> NoLease, attempts |-> 0,
                 result |-> NoResult]
      /\ spent = [lapses |-> 0, faults |-> 0, crashes |-> 0, moves |-> 0,
                  requeues |-> 0]
  BY WorkPumpAssumption, Zenon DEF Init
<1>2. \A c \in Claims : body[c] = Fresh("unborn")
  BY Zenon DEF Init
<1>3. \A c \in Claims : /\ BodyShape(body[c])
                        /\ BodySound(body[c])
                        /\ ~Running(body[c])
  BY <1>2 DEF Fresh, BodyShape, BodySound, Running, Ended
<1>4. Shape
  <2>1. body = [c \in Claims |-> body[c]]
    BY <1>2, Zenon DEF Init
  <2>2. ItemShape(item) /\ SpentShape(spent)
    BY <1>1, Zenon DEF ItemShape, SpentShape
  <2>. QED BY <1>1, <1>3, <2>1, <2>2, ZenonT(60) DEF Shape
<1>5. OnlyNewestHolds /\ Copied
  BY <1>1, <1>3, Zenon DEF OnlyNewestHolds, Copied
<1>6. Budget
  <2>1. Left(item) + Owed(item, lapsed) <= MaxAttempts
    BY <1>1, WorkPumpAssumption DEF Left, Owed
  <2>2. Allowed(spent) = MaxAttempts
    BY <1>1 DEF Allowed
  <2>3. Left(item) \in Nat /\ Owed(item, lapsed) \in Nat
    BY <1>1 DEF Left, Owed
  <2>. QED BY <1>1, <2>1, <2>2, <2>3 DEF Budget
<1>. QED BY <1>4, <1>5, <1>6, Zenon DEF IndInv

(* ... a claim uses up an attempt, or the claim that was owed ... *)
LEMMA ClaimKeeps ==
    ASSUME IndInv, Claim
    PROVE  IndInv'
<1>0. /\ claims \in Nat /\ claims + 1 \in Claims
      /\ MaxAttempts \in Nat
      /\ item.attempts \in Nat
      /\ body = [d \in Claims |-> body[d]]
      /\ ItemShape(item)
      /\ lapsed \in BOOLEAN
      /\ SpentShape(spent)
      /\ Allowed(spent) \in Nat
  <2>1. Shape /\ MaxAttempts \in Nat /\ MaxClaims \in Nat
    BY WorkPumpAssumption, Zenon DEF IndInv
  <2>2. claims + 1 \in Claims
    BY <2>1 DEF Shape, Claim, Claims
  <2>3. Allowed(spent) \in Nat
    BY <2>1 DEF Shape, SpentShape, Allowed
  <2>. QED BY <2>1, <2>2, <2>3, Zenon DEF Shape, ItemShape
<1>1. item' = [status |-> "in_flight", lease |-> claims + 1,
               attempts |-> item.attempts + 1, result |-> item.result]
  BY <1>0, ZenonT(60) DEF Claim, ItemShape
<1>2. /\ body'[claims + 1] = Fresh("queued")
      /\ \A d \in Claims : d # claims + 1 => body'[d] = body[d]
      /\ body' = [d \in Claims |-> body'[d]]
  BY <1>0, Zenon DEF Claim
<1>3. /\ BodyShape(Fresh("queued"))
      /\ BodySound(Fresh("queued"))
      /\ ~Running(Fresh("queued"))
  BY Zenon DEF Fresh, BodyShape, BodySound, Running
<1>4. \A d \in Claims : BodyShape(body'[d]) /\ BodySound(body'[d])
  BY <1>2, <1>3, Zenon DEF IndInv, Shape
<1>5. claims' = claims + 1 /\ lapsed' = FALSE /\ spent' = spent
  BY Zenon DEF Claim
<1>6. ItemShape(item')
  BY <1>0, <1>1 DEF ItemShape
<1>7. Shape'
  <2>1. claims' \in Nat
    BY <1>0, <1>5
  <2>2. lapsed' \in BOOLEAN
    BY <1>5, ZenonT(60)
  <2>3. SpentShape(spent')
    BY <1>0, <1>5, Zenon
  <2>. QED BY <1>2, <1>4, <1>6, <2>1, <2>2, <2>3, Zenon
           DEF Shape, BodyShape, BodySound, ItemShape, SpentShape
<1>8. OnlyNewestHolds' /\ Copied'
  BY <1>1, <1>2, <1>3, <1>5, Zenon DEF OnlyNewestHolds, Copied, Running
<1>9. Budget'
  <2>1. item.attempts < MaxAttempts \/ Owed(item, lapsed) = 1
    BY Zenon DEF Claim, Owed
  <2>2. Owed(item', lapsed') = 0
    BY <1>1, <1>5, Zenon DEF Owed
  <2>3. Left(item) \in Nat /\ Owed(item, lapsed) \in Nat
    BY <1>0 DEF Left, Owed
  <2>4. 1 + Left(item') <= Left(item) + Owed(item, lapsed)
    <3>1. Left(item') = IF item.attempts + 1 < MaxAttempts
                        THEN MaxAttempts - (item.attempts + 1) ELSE 0
      BY <1>1, Zenon DEF Left
    <3>2. CASE item.attempts < MaxAttempts
      BY <1>0, <2>3, <3>1, <3>2 DEF Left
    <3>3. CASE ~(item.attempts < MaxAttempts)
      BY <1>0, <2>1, <2>3, <3>1, <3>3 DEF Left
    <3>. QED BY <3>2, <3>3, Zenon
  <2>5. Left(item') \in Nat
    BY <1>0, <1>1 DEF Left
  <2>6. claims + 1 + Left(item') + 0 <= Allowed(spent)
    BY <1>0, <2>3, <2>4, <2>5 DEF IndInv, Budget
  <2>. QED BY <1>5, <2>2, <2>6, Zenon DEF Budget
<1>. QED BY <1>7, <1>8, <1>9, Zenon DEF IndInv

(* The steps that touch neither the row nor a body nor a count. *)
LEMMA IdleKeeps ==
    ASSUME IndInv, UNCHANGED <<item, lapsed, claims, body, spent>>
    PROVE  IndInv'
BY Zenon DEF IndInv, Shape, BodyShape, BodySound, ItemShape, SpentShape,
       OnlyNewestHolds, Copied, Running, Budget, Left, Owed, Allowed

(* A step that leaves the bodies alone and keeps the row's lease with its  *)
(* attempts, or clears it, needs only to stay within the budget ...        *)
LEMMA RowChange ==
    ASSUME IndInv, body' = body, claims' = claims,
           ItemShape(item'), lapsed' \in BOOLEAN, SpentShape(spent'),
           \/ item'.lease = NoLease
           \/ item'.lease = item.lease /\ item'.attempts = item.attempts,
           claims + Left(item') + Owed(item', lapsed') <= Allowed(spent')
    PROVE  IndInv'
<1>1. Shape'
  BY Zenon DEF IndInv, Shape, BodyShape, BodySound, ItemShape, SpentShape
<1>2. OnlyNewestHolds'
  BY Zenon DEF IndInv, OnlyNewestHolds
<1>3. Copied'
  BY DEF IndInv, Copied, Running, NoLease, Claims
<1>4. Budget'
  BY Zenon DEF Budget
<1>. QED BY <1>1, <1>2, <1>3, <1>4, Zenon DEF IndInv

(* ... and the others that touch the row: the requeue resets the attempts, *)
(* the lapse and the manual move add a claim to come.                      *)
LEMMA OthersKeep ==
    ASSUME IndInv,
           \/ Lapse \/ MutateStatus
           \/ \E r \in Requests : RequeueWrite(r) \/ ParkExpired(r)
    PROVE  IndInv'
<1>0. /\ claims \in Nat
      /\ MaxAttempts \in Nat
      /\ item.attempts \in Nat
      /\ ItemShape(item)
      /\ lapsed \in BOOLEAN
      /\ SpentShape(spent)
      /\ Allowed(spent) \in Nat
      /\ Left(item) \in Nat
      /\ Owed(item, lapsed) \in {0, 1}
  <2>1. Shape /\ MaxAttempts \in Nat
    BY WorkPumpAssumption, Zenon DEF IndInv
  <2>2. Allowed(spent) \in Nat
    BY <2>1 DEF Shape, SpentShape, Allowed
  <2>3. Left(item) \in Nat /\ Owed(item, lapsed) \in {0, 1}
    BY <2>1 DEF Shape, ItemShape, Left, Owed
  <2>. QED BY <2>1, <2>2, <2>3, Zenon DEF Shape, ItemShape
<1>1. claims + Left(item) + Owed(item, lapsed) <= Allowed(spent)
  BY Zenon DEF IndInv, Budget
<1>2. body' = body /\ claims' = claims
  BY Zenon DEF Lapse, MutateStatus, RequeueWrite, ParkExpired
<1>4. CASE Lapse
  <2>1. item' = item /\ lapsed' = TRUE /\ lapsed = FALSE
    BY <1>0, <1>4, Zenon DEF Lapse
  <2>2. SpentShape(spent')
    BY <1>0, <1>4 DEF Lapse, SpentShape
  <2>3. CASE item.status = "in_flight"
    <3>1. Allowed(spent') = Allowed(spent) + 1
      BY <1>0, <1>4, <2>3 DEF Lapse, SpentShape, Allowed
    <3>2. Owed(item, lapsed) = 0 /\ Owed(item', lapsed') = 1
      BY <2>1, <2>3, Zenon DEF Owed
    <3>3. claims + Left(item') + Owed(item', lapsed') <= Allowed(spent')
      BY <1>0, <1>1, <2>1, <3>1, <3>2
    <3>. QED BY <1>0, <1>2, <2>1, <2>2, <3>3, RowChange, Zenon
  <2>4. CASE item.status # "in_flight"
    <3>1. Allowed(spent') = Allowed(spent)
      BY <1>0, <1>4, <2>4, Zenon DEF Lapse, SpentShape, Allowed
    <3>2. Owed(item', lapsed') = Owed(item, lapsed)
      BY <2>1, <2>4, Zenon DEF Owed
    <3>3. claims + Left(item') + Owed(item', lapsed') <= Allowed(spent')
      BY <1>0, <1>1, <2>1, <3>1, <3>2, Zenon
    <3>. QED BY <1>0, <1>2, <2>1, <2>2, <3>3, RowChange, Zenon
  <2>. QED BY <2>3, <2>4, Zenon
<1>5. CASE MutateStatus
  <2>1. PICK status : item' = [item EXCEPT !.status = status]
    BY <1>5, Zenon DEF MutateStatus
  <2>2. /\ item'.lease = item.lease
        /\ item'.attempts = item.attempts
        /\ ItemShape(item')
        /\ lapsed' = lapsed
    BY <1>0, <1>5, <2>1, Zenon DEF ItemShape, MutateStatus
  <2>3. SpentShape(spent') /\ Allowed(spent') = Allowed(spent) + 1
    BY <1>0, <1>5 DEF MutateStatus, SpentShape, Allowed
  <2>4. Left(item') = Left(item) /\ Owed(item', lapsed') \in {0, 1}
    BY <2>2, Zenon DEF Left, Owed
  <2>5. claims + Left(item') + Owed(item', lapsed') <= Allowed(spent')
    BY <1>0, <1>1, <2>3, <2>4
  <2>. QED BY <1>0, <1>2, <2>2, <2>3, <2>5, RowChange, Zenon
<1>6. ASSUME NEW r \in Requests, RequeueWrite(r)
      PROVE  IndInv'
  <2>1. /\ item' = [status |-> "pending", lease |-> NoLease, attempts |-> 0,
                    result |-> req[r].result]
        /\ lapsed' = FALSE
    BY <1>6, Zenon DEF RequeueWrite
  <2>2. ItemShape(item') /\ item'.lease = NoLease
    BY <2>1, Zenon DEF ItemShape
  <2>3. Left(item') + Owed(item', lapsed') = MaxAttempts
    BY <1>0, <2>1, WorkPumpAssumption DEF Left, Owed
  <2>4. SpentShape(spent') /\ Allowed(spent') = Allowed(spent) + MaxAttempts
    BY <1>0, <1>6 DEF RequeueWrite, SpentShape, Allowed
  <2>5. Left(item') \in Nat /\ Owed(item', lapsed') \in Nat
    BY <1>0, <2>1 DEF Left, Owed
  <2>6. claims + Left(item') + Owed(item', lapsed') <= Allowed(spent')
    BY <1>0, <1>1, <2>3, <2>4, <2>5
  <2>. QED BY <1>2, <2>1, <2>2, <2>4, <2>6, RowChange, ZenonT(60)
<1>7. ASSUME NEW r \in Requests, ParkExpired(r)
      PROVE  IndInv'
  <2>1. spent' = spent
    BY <1>7, Zenon DEF ParkExpired
  <2>2. CASE item.status = "awaiting_human"
    <3>1. /\ item' = [item EXCEPT !.status = "cancelled", !.lease = NoLease,
                                  !.result = NoResult]
          /\ lapsed' = FALSE
      BY <1>7, <2>2, Zenon DEF ParkExpired
    <3>2. /\ ItemShape(item')
          /\ item'.lease = NoLease
          /\ item'.attempts = item.attempts
          /\ item'.status = "cancelled"
      BY <1>0, <3>1, ZenonT(60) DEF ItemShape
    <3>3. Left(item') = Left(item) /\ Owed(item', lapsed') = 0
      BY <3>1, <3>2 DEF Left, Owed
    <3>4. claims + Left(item') + Owed(item', lapsed') <= Allowed(spent')
      BY <1>0, <1>1, <2>1, <3>3
    <3>. QED BY <1>0, <1>2, <2>1, <3>1, <3>2, <3>4, RowChange, ZenonT(60)
  <2>3. CASE item.status # "awaiting_human"
    <3>1. item' = item /\ lapsed' = lapsed
      BY <1>7, <2>3, Zenon DEF ParkExpired
    <3>. QED BY <2>1, <3>1, <1>2, IdleKeeps, Zenon
  <2>. QED BY <2>2, <2>3, Zenon
<1>. QED BY <1>4, <1>5, <1>6, <1>7, Zenon

(* Which of these a step of Next is. *)
LEMMA Steps ==
    ASSUME Shape, [Next]_vars
    PROVE  \/ \E c \in Claims : Effect(c)
           \/ Claim
           \/ Lapse \/ MutateStatus
           \/ \E r \in Requests : RequeueWrite(r) \/ ParkExpired(r)
           \/ UNCHANGED <<item, lapsed, claims, body, spent>>
<1>1. ASSUME NEW c \in Claims, BodyStep(c) \/ Fault(c) \/ Crash(c) \/ Redeliver(c)
      PROVE  Effect(c)
  BY <1>1, QuietSteps, DecidingSteps, WritingSteps, BrokenSteps, Zenon DEF BodyStep
<1>2. ASSUME NEW r \in Requests, Answer(r) \/ RequeueRead(r)
      PROVE  UNCHANGED <<item, lapsed, claims, body, spent>>
  BY <1>2, Zenon DEF Answer, RequeueRead
<1>3. RequestCancel \/ UNCHANGED vars => UNCHANGED <<item, lapsed, claims, body, spent>>
  BY Zenon DEF RequestCancel, vars
<1>. QED BY <1>1, <1>2, <1>3, Zenon DEF Next

LEMMA NextInv == IndInv /\ [Next]_vars => IndInv'
BY Steps, EffectKeeps, ClaimKeeps, OthersKeep, IdleKeeps, Zenon DEF IndInv

(* IndInv holds in every reachable state. *)
THEOREM Invariance == Spec => []IndInv
BY InitInv, NextInv, PTL DEF Spec

-----------------------------------------------------------------------------
(* The row carries the token of the newest claim or none                   *)
(* (update_work_item_if_leased compares the tuple minted at the claim).    *)
THEOREM OnlyNewestHoldsAlways == Spec => []OnlyNewestHolds
BY Invariance, PTL DEF IndInv

(* The retry budget of _record_failure and claim_work_item: the item is    *)
(* claimed at most max_attempts times per human requeue, and once more for *)
(* each lease that ran out and each move by hand.                          *)
THEOREM ClaimsBoundedAlways == Spec => []ClaimsBounded
<1>1. IndInv => ClaimsBounded
  <2>. SUFFICES ASSUME IndInv PROVE ClaimsBounded
    BY Zenon
  <2>1. Shape /\ MaxAttempts \in Nat
    BY WorkPumpAssumption, Zenon DEF IndInv
  <2>2. Left(item) \in Nat /\ Owed(item, lapsed) \in Nat
    BY <2>1 DEF Shape, ItemShape, Left, Owed
  <2>3. Allowed(spent) \in Nat /\ claims \in Nat
    BY <2>1 DEF Shape, SpentShape, Allowed
  <2>4. claims <= Allowed(spent)
    BY <2>2, <2>3 DEF IndInv, Budget
  <2>. QED BY <2>4, Zenon DEF ClaimsBounded, Allowed
<1>. QED BY <1>1, Invariance, PTL

(* Single writer (lease_token.write): a body whose item was claimed again  *)
(* changes nothing of the record, on either lane, crashed, run again or    *)
(* merely late.                                                            *)
THEOREM SupersededIsMuteAlways == Spec => SupersededIsMute
<1>1. IndInv /\ [Next]_vars =>
        [\A c \in Claims : c < claims /\ body'[c] # body[c] => item' = item]_vars
  <2>. SUFFICES ASSUME IndInv, [Next]_vars,
                       NEW c \in Claims, c < claims, body'[c] # body[c]
                PROVE  item' = item
    BY Zenon
  <2>0. /\ body = [d \in Claims |-> body[d]]
        /\ claims \in Nat /\ c \in Nat \ {0}
        /\ Shape
    BY DEF IndInv, Shape, Claims
  <2>1. ASSUME NEW d \in Claims, Effect(d)
        PROVE  item' = item
    <3>1. d = c
      BY <2>0, <2>1, Zenon DEF Effect
    <3>2. ~Writes(d)
      BY <2>0, <3>1 DEF Writes, IndInv, OnlyNewestHolds, NoLease
    <3>. QED BY <2>1, <3>2, Zenon DEF Effect, Silent
  <2>2. ~Claim
    BY <2>0 DEF Claim
  <2>3. body' # body
    BY Zenon
  <2>. QED BY <2>0, <2>1, <2>2, <2>3, Steps, ZenonT(60)
           DEF Lapse, MutateStatus, RequeueWrite, ParkExpired
<1>. QED BY <1>1, Invariance, PTL DEF Spec, SupersededIsMute
-----------------------------------------------------------------------------
(* Type correctness, from IndInv and the types of what IndInv leaves open: *)
(* the results, the targets, the requests and the notice.                  *)
Results == Claims \union {NoResult}
Targets == Status \union {"escalated", "degraded"}

ReqOK(q) == q = [pc |-> q.pc, result |-> q.result] /\ q.result \in Results

ItemTypes ==
    /\ item.status \in Status
    /\ item.lease \in Claims \union {NoLease}
    /\ item.result \in Results

BodyTypes ==
    \A c \in Claims :
        /\ body[c].result \in Results
        /\ body[c].to \in Targets
        /\ body[c].pc = "unborn" <=> c > claims

OtherTypes ==
    /\ claims \in 0..MaxClaims
    /\ cancel \in BOOLEAN
    /\ req = [r \in Requests |-> req[r]]
    /\ \A r \in Requests : ReqOK(req[r])
    /\ told \in ((0..MaxClaims) \X (Terminal \union {"none"}))

TypeInv == ItemTypes /\ BodyTypes /\ OtherTypes

(* One body moves, to well-typed copies. *)
\* A body the engine has just been given.
LEMMA FreshIs ==
    \A l : Fresh(l).pc = l /\ Fresh(l).result = NoResult /\ Fresh(l).to = "in_flight"
BY Zenon DEF Fresh

LEMMA BodyMoves ==
    ASSUME Shape, BodyTypes, NEW c \in Claims, UNCHANGED claims,
           body' = [body EXCEPT ![c] = body'[c]],
           body[c].pc # "unborn", body'[c].pc # "unborn",
           body'[c].result \in Results, body'[c].to \in Targets
    PROVE  BodyTypes'
<1>1. \A d \in Claims : d # c => body'[d] = body[d]
  BY Zenon DEF Shape
<1>. QED BY <1>1, Zenon DEF BodyTypes

LEMMA GotoMoves ==
    ASSUME Shape, BodyTypes, NEW c \in Claims, UNCHANGED claims,
           NEW pc, Goto(c, pc), body[c].pc # "unborn", pc # "unborn"
    PROVE  BodyTypes'
<1>0. BodyShape(body[c]) /\ body[c].result \in Results /\ body[c].to \in Targets
  BY Zenon DEF Shape, BodyTypes
<1>1. body'[c] = IF pc \in Ended THEN Fresh(pc) ELSE [body[c] EXCEPT !.pc = pc]
  BY Zenon DEF Goto, Shape
<1>2. body' = [body EXCEPT ![c] = body'[c]]
  BY <1>1, Zenon DEF Goto, Shape
<1>3. CASE pc \in Ended
  <2>1. body'[c].pc # "unborn" /\ body'[c].result \in Results /\ body'[c].to \in Targets
    BY <1>1, <1>3 DEF Fresh, Results, Targets, Status
  <2>. QED BY <1>2, <2>1, BodyMoves, Zenon
<1>4. CASE pc \notin Ended
  <2>1. body'[c].pc # "unborn" /\ body'[c].result \in Results /\ body'[c].to \in Targets
    BY <1>0, <1>1, <1>4, Zenon DEF BodyShape
  <2>. QED BY <1>2, <2>1, BodyMoves, Zenon
<1>. QED BY <1>3, <1>4, Zenon

(* A fenced write of a well-typed row. *)
LEMMA WriteTypes ==
    ASSUME ItemTypes, NEW c \in Claims, NEW status \in Status,
           NEW lease \in Claims \union {NoLease}, NEW result \in Results,
           Write(c, status, lease, result)
    PROVE  ItemTypes'
BY DEF Write, ItemTypes

(* A request is opened, or none is left to open. *)
LEMMA FileTypes ==
    ASSUME OtherTypes, File
    PROVE  /\ req' = [r \in Requests |-> req'[r]]
           /\ \A r \in Requests : ReqOK(req'[r])
<1>1. CASE req' = req
  BY <1>1, Zenon DEF OtherTypes
<1>2. ASSUME NEW r \in Requests, req' = [req EXCEPT ![r].pc = "open"]
      PROVE  /\ req' = [q \in Requests |-> req'[q]]
             /\ \A q \in Requests : ReqOK(req'[q])
  BY <1>2 DEF OtherTypes, ReqOK
<1>. QED BY <1>1, <1>2, Zenon DEF File

(* A step that leaves the row, or the requests and the notice, as they are. *)
LEMMA ItemSame == ASSUME ItemTypes, UNCHANGED item PROVE ItemTypes'
BY Zenon DEF ItemTypes

LEMMA OtherSame ==
    ASSUME OtherTypes, UNCHANGED <<claims, cancel, req, told>>
    PROVE  OtherTypes'
BY Zenon DEF OtherTypes, ReqOK

(* The steps that only move a body on. *)
LEMMA MoveTypes ==
    ASSUME Shape, TypeInv, NEW c \in Claims,
           \/ Start(c) \/ Route(c) \/ After(c) \/ Fault(c) \/ Crash(c)
    PROVE  TypeInv'
<1>0. ItemTypes /\ BodyTypes /\ OtherTypes
  BY Zenon DEF TypeInv
<1>1. /\ UNCHANGED <<item, claims, cancel, req>>
      /\ body[c].pc # "unborn"
  BY Zenon DEF Start, Route, After, Fault, Crash, Ended
<1>2. PICK pc \in {"cancel", "route", "park", "execute", "trigger", "gone",
                   "failed", "dead"} : Goto(c, pc)
  BY Zenon DEF Start, Route, After, Fault, Crash
<1>3. BodyTypes'
  BY <1>0, <1>1, <1>2, GotoMoves, Zenon
<1>4. OtherTypes'
  <2>1. CASE UNCHANGED told
    BY <1>0, <1>1, <2>1, OtherSame, Zenon
  <2>2. CASE told' = <<c, body[c].to>> /\ body[c].to \in Terminal
    <3>1. c \in 0..MaxClaims
      BY DEF Claims
    <3>2. told' \in ((0..MaxClaims) \X (Terminal \union {"none"}))
      BY <2>2, <3>1, Zenon
    <3>. QED BY <1>0, <1>1, <3>2, Zenon DEF OtherTypes, ReqOK
  <2>. QED BY <2>1, <2>2, Zenon DEF Start, Route, After, Fault, Crash
<1>. QED BY <1>0, <1>1, <1>3, <1>4, ItemSame, Zenon DEF TypeInv

(* The steps that change a body's copy. *)
LEMMA CopyTypes ==
    ASSUME Shape, TypeInv, NEW c \in Claims,
           \/ Load(c) \/ Execute(c) \/ Join(c) \/ Trigger(c) \/ Park(c)
           \/ CancelWins(c) \/ Judge(c) \/ Redeliver(c)
    PROVE  TypeInv'
<1>0. /\ ItemTypes /\ BodyTypes /\ OtherTypes
      /\ BodyShape(body[c]) /\ BodySound(body[c])
      /\ body[c].result \in Results /\ body[c].to \in Targets
      /\ item.result \in Results
      /\ c \in Results
      /\ {"done", "awaiting_human", "pending", "failed", "escalated", "degraded",
          "in_flight"} \subseteq Targets
      /\ NoResult \in Results
  BY Zenon DEF TypeInv, Shape, BodyTypes, ItemTypes, Results, Targets, Status,
         SETTLED_STATUSES, Terminal
<1>1. /\ UNCHANGED <<item, claims, cancel, told>>
      /\ body[c].pc # "unborn"
  BY Zenon DEF Load, Execute, Join, Trigger, Park, CancelWins, Judge, Redeliver
<1>2. body' = [body EXCEPT ![c] = body'[c]]
  BY QuietSteps, DecidingSteps, BrokenSteps, Zenon DEF Effect
<1>3. BodyTypes'
  <2>1. CASE Load(c)
    <3>1. CASE item.lease # c
      BY <1>0, <1>1, <2>1, <3>1, GotoMoves, Zenon DEF Load
    <3>2. CASE item.lease = c
      <4>1. PICK pc \in {"park", "start"} :
               body' = [body EXCEPT ![c].pc = pc, ![c].attempts = item.attempts,
                                    ![c].result = item.result]
        BY <2>1, <3>2, ZenonT(60) DEF Load
      <4>2. body'[c] = [body[c] EXCEPT !.pc = pc, !.attempts = item.attempts,
                                       !.result = item.result]
        BY <4>1, Zenon DEF Shape
      <4>3. body'[c].pc = pc /\ body'[c].result = item.result /\ body'[c].to = body[c].to
        BY <1>0, <4>2, Zenon DEF BodyShape
      <4>. QED BY <1>0, <1>1, <1>2, <4>3, BodyMoves, Zenon
    <3>. QED BY <3>1, <3>2, Zenon
  <2>2. CASE Execute(c)
    <3>1. PICK outcome \in Outcomes :
             body' = [body EXCEPT ![c].pc = "join", ![c].result = c,
                                  ![c].to = outcome]
      BY <2>2, ZenonT(60) DEF Execute
    <3>2. body'[c] = [body[c] EXCEPT !.pc = "join", !.result = c, !.to = outcome]
      BY <3>1, Zenon DEF Shape
    <3>3. body'[c].pc = "join" /\ body'[c].result = c /\ body'[c].to = outcome
      BY <1>0, <3>2, Zenon DEF BodyShape
    <3>4. outcome \in Targets
      BY <1>0, WorkPumpAssumption, Zenon
    <3>. QED BY <1>0, <1>1, <1>2, <3>3, <3>4, BodyMoves, Zenon
  <2>3. CASE Join(c)
    <3>1. body[c].to \in {"done", "escalated", "degraded"}
      BY <1>0, <2>3, Zenon DEF Join, BodySound
    <3>2. body'[c] = IF cancel THEN [body[c] EXCEPT !.pc = "cancel"]
                     ELSE IF body[c].to = "done" THEN [body[c] EXCEPT !.pc = "settle"]
                     ELSE IF body[c].to = "escalated"
                          THEN [body[c] EXCEPT !.pc = "settle", !.to = "awaiting_human"]
                     ELSE [body[c] EXCEPT !.pc = "park"]
      BY <2>3, <3>1, Zenon DEF Join, Shape
    <3>3. /\ body'[c].pc \in {"cancel", "settle", "park"}
          /\ body'[c].result = body[c].result
          /\ body'[c].to \in {body[c].to, "awaiting_human"}
      BY <1>0, <3>2, Zenon DEF BodyShape
    <3>. QED BY <1>0, <1>1, <1>2, <3>3, BodyMoves, Zenon
  <2>4. CASE Trigger(c)
    <3>1. CASE Goto(c, "park")
      BY <1>0, <1>1, <3>1, GotoMoves, Zenon
    <3>2. CASE body' = [body EXCEPT ![c].pc = "settle", ![c].result = c,
                                    ![c].to = "done"]
      <4>1. body'[c] = [body[c] EXCEPT !.pc = "settle", !.result = c, !.to = "done"]
        BY <3>2, Zenon DEF Shape
      <4>2. body'[c].pc = "settle" /\ body'[c].result = c /\ body'[c].to = "done"
        BY <1>0, <4>1, Zenon DEF BodyShape
      <4>. QED BY <1>0, <1>1, <1>2, <4>2, BodyMoves, Zenon
    <3>. QED BY <2>4, <3>1, <3>2, Zenon DEF Trigger
  <2>5. CASE Park(c)
    <3>1. body'[c] = [body[c] EXCEPT !.pc = "settle", !.to = "awaiting_human"]
      BY <2>5, Zenon DEF Park, Shape
    <3>2. /\ body'[c].pc = "settle" /\ body'[c].result = body[c].result
          /\ body'[c].to = "awaiting_human"
      BY <1>0, <3>1, Zenon DEF BodyShape
    <3>. QED BY <1>0, <1>1, <1>2, <3>2, BodyMoves, Zenon
  <2>6. CASE CancelWins(c)
    <3>1. PICK pc \in {"cancel", "judge"} :
             body'[c] = [body[c] EXCEPT !.pc = pc, !.failing = TRUE]
      BY <2>6, ZenonT(60) DEF CancelWins, Shape
    <3>2. body'[c].pc = pc /\ body'[c].result = body[c].result /\ body'[c].to = body[c].to
      BY <1>0, <3>1, Zenon DEF BodyShape
    <3>. QED BY <1>0, <1>1, <1>2, <3>2, BodyMoves, Zenon
  <2>7. CASE Judge(c)
    <3>1. CASE Goto(c, "gone")
      BY <1>0, <1>1, <3>1, GotoMoves, Zenon
    <3>2. ASSUME NEW to \in {"pending", "failed"},
                 body' = [body EXCEPT ![c].pc = "record", ![c].to = to]
          PROVE  BodyTypes'
      <4>1. body'[c] = [body[c] EXCEPT !.pc = "record", !.to = to]
        BY <3>2, Zenon DEF Shape
      <4>2. body'[c].pc = "record" /\ body'[c].result = body[c].result /\ body'[c].to = to
        BY <1>0, <4>1, Zenon DEF BodyShape
      <4>. QED BY <1>0, <1>1, <1>2, <4>2, BodyMoves, Zenon
    <3>. QED BY <2>7, <3>1, <3>2, Zenon DEF Judge
  <2>8. CASE Redeliver(c)
    <3>1. body'[c] = Fresh("queued")
      BY <2>8, Zenon DEF Redeliver, Shape
    <3>2. body'[c].pc = "queued" /\ body'[c].result = NoResult /\ body'[c].to = "in_flight"
      BY <3>1, FreshIs, Zenon
    <3>. QED BY <1>0, <1>1, <1>2, <3>2, BodyMoves, Zenon
  <2>. QED BY <2>1, <2>2, <2>3, <2>4, <2>5, <2>6, <2>7, <2>8, Zenon
<1>4. OtherTypes'
  <2>1. CASE UNCHANGED req
    BY <1>0, <1>1, <2>1, OtherSame, Zenon
  <2>2. CASE File
    BY <1>0, <1>1, <2>2, FileTypes, Zenon DEF OtherTypes
  <2>. QED BY <2>1, <2>2, Zenon
           DEF Load, Execute, Join, Trigger, Park, CancelWins, Judge, Redeliver
<1>. QED BY <1>0, <1>1, <1>3, <1>4, ItemSame, Zenon DEF TypeInv

(* The steps that write the row. *)
LEMMA SettleTypes ==
    ASSUME Shape, TypeInv, NEW c \in Claims, Settle(c) \/ Cancel(c) \/ Record(c)
    PROVE  TypeInv'
<1>0. /\ ItemTypes /\ BodyTypes /\ OtherTypes
      /\ BodyShape(body[c]) /\ BodySound(body[c])
      /\ body[c].result \in Results
      /\ c \in Results /\ c \in Claims \union {NoLease}
      /\ {"done", "awaiting_human", "pending", "failed", "cancelled"} \subseteq Status
      /\ "cancelled" \in Targets
  BY Zenon DEF TypeInv, Shape, BodyTypes, Results, Targets, Status, SETTLED_STATUSES, Terminal
<1>1. UNCHANGED <<claims, cancel, req, told>> /\ body[c].pc # "unborn"
  BY Zenon DEF Settle, Cancel, Record
<1>2. ItemTypes'
  <2>1. CASE Settle(c)
    <3>1. body[c].to \in {"done", "awaiting_human"}
      BY <1>0, <2>1, Zenon DEF Settle, BodySound
    <3>. QED BY <1>0, <2>1, <3>1, WriteTypes, Zenon DEF Settle
  <2>2. CASE Cancel(c)
    BY <1>0, <2>2, WriteTypes, Zenon DEF Cancel
  <2>3. CASE Record(c)
    BY <1>0, <2>3, WriteTypes, Zenon DEF Record
  <2>. QED BY <2>1, <2>2, <2>3, Zenon
<1>3. BodyTypes'
  <2>1. CASE Goto(c, "after")
    BY <1>0, <1>1, <2>1, GotoMoves, Zenon
  <2>2. CASE Cancel(c)
    <3>1. body' = [body EXCEPT ![c] = body'[c]]
      BY <2>2, WritingSteps, Zenon DEF Effect
    <3>2. body'[c] = [body[c] EXCEPT !.pc = "after", !.to = "cancelled"]
      BY <2>2, Zenon DEF Cancel, Shape
    <3>3. /\ body'[c].pc = "after" /\ body'[c].result = body[c].result
          /\ body'[c].to = "cancelled"
      BY <1>0, <3>2, Zenon DEF BodyShape
    <3>. QED BY <1>0, <1>1, <3>1, <3>3, BodyMoves, Zenon
  <2>. QED BY <2>1, <2>2, Zenon DEF Settle, Record
<1>. QED BY <1>0, <1>1, <1>2, <1>3, OtherSame, Zenon DEF TypeInv

(* The claim, the lapse and everyone else. *)
LEMMA OutsideTypes ==
    ASSUME Shape, TypeInv,
           \/ Claim \/ Lapse \/ RequestCancel \/ MutateStatus \/ UNCHANGED vars
           \/ \E r \in Requests :
                 Answer(r) \/ RequeueRead(r) \/ RequeueWrite(r) \/ ParkExpired(r)
    PROVE  TypeInv'
<1>0. /\ ItemTypes /\ BodyTypes /\ OtherTypes
      /\ ItemShape(item)
      /\ item.status \in Status
      /\ NoResult \in Results /\ NoLease \in Claims \union {NoLease}
      /\ {"pending", "in_flight", "cancelled"} \subseteq Status
  BY Zenon DEF TypeInv, Shape, ItemTypes, Results, Status, SETTLED_STATUSES, Terminal
<1>1. CASE Claim
  <2>1. claims + 1 \in Claims /\ claims \in Nat /\ MaxClaims \in Nat
    BY <1>0, <1>1, WorkPumpAssumption DEF Claim, Claims, OtherTypes
  <2>2. item' = [status |-> "in_flight", lease |-> claims + 1,
                 attempts |-> item.attempts + 1, result |-> item.result]
    BY <1>0, <1>1, ZenonT(60) DEF Claim, ItemShape
  <2>3. ItemTypes'
    BY <1>0, <2>1, <2>2, Zenon DEF ItemTypes
  <2>4. claims' \in 0..MaxClaims /\ claims' = claims + 1
    BY <1>1, <2>1 DEF Claim
  <2>5. OtherTypes'
    BY <1>0, <1>1, <2>4, Zenon DEF Claim, OtherTypes, ReqOK
  <2>6. /\ body'[claims + 1] = Fresh("queued")
        /\ \A d \in Claims : d # claims + 1 => body'[d] = body[d]
    BY <1>1, <2>1, Zenon DEF Claim, Shape
  <2>7. /\ Fresh("queued").result \in Results /\ Fresh("queued").to \in Targets
        /\ Fresh("queued").pc # "unborn"
    BY Zenon DEF Fresh, Results, Targets, Status
  <2>8. BodyTypes'
    <3>1. SUFFICES ASSUME NEW d \in Claims
                   PROVE  /\ body'[d].result \in Results
                          /\ body'[d].to \in Targets
                          /\ body'[d].pc = "unborn" <=> d > claims'
      BY Zenon DEF BodyTypes
    <3>2. CASE d = claims + 1
      BY <2>1, <2>4, <2>6, <2>7, <3>2
    <3>3. CASE d # claims + 1
      <4>1. d > claims' <=> d > claims
        BY <2>1, <2>4, <3>3 DEF Claims
      <4>. QED BY <1>0, <2>6, <3>3, <4>1, Zenon DEF BodyTypes
    <3>. QED BY <3>2, <3>3, Zenon
  <2>. QED BY <2>3, <2>5, <2>8, Zenon DEF TypeInv
<1>2. CASE Lapse \/ RequestCancel \/ UNCHANGED vars
  <2>1. UNCHANGED <<item, body, claims, req, told>> /\ cancel' \in BOOLEAN
    BY <1>0, <1>2, ZenonT(60) DEF Lapse, RequestCancel, vars, OtherTypes
  <2>. QED BY <1>0, <2>1, Zenon DEF TypeInv, ItemTypes, BodyTypes, OtherTypes, ReqOK
<1>3. CASE MutateStatus
  <2>1. PICK status \in MANUAL_STATUS_TRANSITIONS[item.status] :
           item' = [item EXCEPT !.status = status]
    BY <1>3, Zenon DEF MutateStatus
  <2>2. status \in Status
    BY <1>0, <2>1 DEF MANUAL_STATUS_TRANSITIONS, Status, SETTLED_STATUSES, Terminal
  <2>3. ItemTypes'
    BY <1>0, <2>1, <2>2, Zenon DEF ItemTypes, ItemShape
  <2>4. BodyTypes' /\ OtherTypes'
    BY <1>0, <1>3, OtherSame, Zenon DEF MutateStatus, BodyTypes
  <2>. QED BY <2>3, <2>4, Zenon DEF TypeInv
<1>4. ASSUME NEW r \in Requests,
             Answer(r) \/ RequeueRead(r) \/ RequeueWrite(r) \/ ParkExpired(r)
      PROVE  TypeInv'
  <2>0. ReqOK(req[r])
    BY <1>0, Zenon DEF OtherTypes
  <2>1. UNCHANGED <<body, claims, cancel, told>>
    BY <1>4, Zenon DEF Answer, RequeueRead, RequeueWrite, ParkExpired
  <2>2. ItemTypes'
    <3>1. CASE RequeueWrite(r)
      BY <1>0, <2>0, <3>1, Zenon DEF RequeueWrite, ItemTypes, ReqOK
    <3>2. CASE ParkExpired(r)
      <4>1. CASE item.status = "awaiting_human"
        BY <1>0, <3>2, <4>1, ZenonT(60) DEF ParkExpired, ItemTypes, ItemShape
      <4>2. CASE item.status # "awaiting_human"
        BY <1>0, <3>2, <4>2, ItemSame, Zenon DEF ParkExpired
      <4>. QED BY <4>1, <4>2, Zenon
    <3>3. CASE UNCHANGED item
      BY <1>0, <3>3, ItemSame, Zenon
    <3>. QED BY <1>4, <3>1, <3>2, <3>3, Zenon DEF Answer, RequeueRead
  <2>3. PICK p \in {"answered", "expired", "requeue", "closed"}, res \in Results :
           req' = [req EXCEPT ![r] = [pc |-> p, result |-> res]]
    <3>0. \A p : [req EXCEPT ![r].pc = p]
                   = [req EXCEPT ![r] = [pc |-> p, result |-> req[r].result]]
      <4>. TAKE p
      <4>1. [req[r] EXCEPT !.pc = p] = [pc |-> p, result |-> req[r].result]
        BY <2>0 DEF ReqOK
      <4>. QED BY <4>1, ZenonT(60)
    <3>1. CASE Answer(r) \/ ParkExpired(r)
      <4>1. PICK p \in {"answered", "expired", "closed"} : req' = [req EXCEPT ![r].pc = p]
        BY <3>1, Zenon DEF Answer, ParkExpired
      <4>. QED BY <2>0, <3>0, <4>1, ZenonT(60) DEF ReqOK
    <3>2. CASE RequeueRead(r)
      <4>1. CASE item.status \in {"awaiting_human", "blocked"}
        <5>1. req' = [req EXCEPT ![r] = [pc |-> "requeue", result |-> item.result]]
          BY <3>2, <4>1, Zenon DEF RequeueRead
        <5>. QED BY <1>0, <5>1, ZenonT(60) DEF ItemTypes
      <4>2. CASE item.status \notin {"awaiting_human", "blocked"}
        <5>1. req' = [req EXCEPT ![r].pc = "closed"]
          BY <3>2, <4>2, Zenon DEF RequeueRead
        <5>. QED BY <2>0, <3>0, <5>1, ZenonT(60) DEF ReqOK
      <4>. QED BY <4>1, <4>2, Zenon
    <3>3. CASE RequeueWrite(r)
      BY <1>0, <3>3, ZenonT(60) DEF RequeueWrite
    <3>. QED BY <1>4, <3>1, <3>2, <3>3, Zenon
  <2>4. /\ req' = [q \in Requests |-> req'[q]]
        /\ \A q \in Requests : ReqOK(req'[q])
    BY <1>0, <2>3, Zenon DEF OtherTypes, ReqOK
  <2>. QED BY <1>0, <2>1, <2>2, <2>4, Zenon DEF TypeInv, BodyTypes, OtherTypes
<1>. QED BY <1>1, <1>2, <1>3, <1>4, Zenon

LEMMA NextTypes == IndInv /\ TypeInv /\ [Next]_vars => TypeInv'
<1>. SUFFICES ASSUME Shape, TypeInv, [Next]_vars PROVE TypeInv'
  BY Zenon DEF IndInv
<1>1. ASSUME NEW c \in Claims, BodyStep(c) \/ Fault(c) \/ Crash(c) \/ Redeliver(c)
      PROVE  TypeInv'
  BY <1>1, MoveTypes, CopyTypes, SettleTypes, Zenon DEF BodyStep
<1>. QED BY <1>1, OutsideTypes, Zenon DEF Next

(* Every variable keeps its type, a body exists from its claim on, and one *)
(* that settles its item does so as done or as parked (_settle, _park).    *)
THEOREM TypeCorrect == Spec => []TypeOK
<1>1. Init => TypeInv
  <2>. SUFFICES ASSUME Init PROVE TypeInv
    BY Zenon
  <2>1. ItemTypes
    BY Zenon DEF Init, ItemTypes, Results, Status
  <2>2. \A c \in Claims : body[c] = Fresh("unborn") /\ c > claims
    BY DEF Init, Claims
  <2>3. /\ Fresh("unborn").result \in Results /\ Fresh("unborn").to \in Targets
        /\ Fresh("unborn").pc = "unborn"
    BY Zenon DEF Fresh, Results, Targets, Status
  <2>4. BodyTypes
    BY <2>2, <2>3, Zenon DEF BodyTypes
  <2>5. /\ claims \in 0..MaxClaims /\ cancel \in BOOLEAN
        /\ told \in ((0..MaxClaims) \X (Terminal \union {"none"}))
    <3>1. 0 \in 0..MaxClaims
      BY WorkPumpAssumption
    <3>2. claims = 0 /\ cancel = FALSE /\ told = <<0, "none">>
      BY Zenon DEF Init
    <3>. QED BY <3>1, <3>2, ZenonT(60)
  <2>6. /\ req = [r \in Requests |-> req[r]]
        /\ \A r \in Requests : ReqOK(req[r])
    BY Zenon DEF Init, ReqOK, Results
  <2>. QED BY <2>1, <2>4, <2>5, <2>6, Zenon DEF TypeInv, OtherTypes
<1>2. IndInv /\ TypeInv => TypeOK
  <2>. SUFFICES ASSUME IndInv, TypeInv PROVE TypeOK
    BY Zenon
  <2>0. Shape /\ ItemTypes /\ BodyTypes /\ OtherTypes
    BY Zenon DEF IndInv, TypeInv
  <2>1. item \in [status : Status, lease : Claims \union {NoLease},
                  attempts : Nat, result : Claims \union {NoResult}]
    BY <2>0, Zenon DEF Shape, ItemShape, ItemTypes, Results
  <2>2. lapsed \in BOOLEAN /\ DOMAIN body = Claims
    BY <2>0, Zenon DEF Shape
  <2>3. \A c \in Claims :
           /\ body[c].attempts \in Nat
           /\ body[c].result \in Claims \union {NoResult}
           /\ body[c].to \in Status \union {"escalated", "degraded"}
           /\ body[c].pc = "settle" => body[c].to \in {"done", "awaiting_human"}
           /\ body[c].pc = "unborn" <=> c > claims
    BY <2>0, Zenon DEF Shape, BodyShape, BodySound, BodyTypes, Results, Targets
  <2>. QED BY <2>0, <2>1, <2>2, <2>3, Zenon DEF TypeOK, OtherTypes, ReqOK, Results
<1>. QED BY <1>1, <1>2, NextTypes, Invariance, PTL DEF Spec
-----------------------------------------------------------------------------
(* A result that is about to be settled as done is the settling claim's    *)
(* own: the step that ran, or the workflow that was triggered, put it      *)
(* there.                                                                  *)
OwnResult(b, c) ==
    b.pc = "join" \/ (b.pc = "settle" /\ b.to = "done") => b.result = c

DoneInv == DoneIsNewest /\ \A c \in Claims : OwnResult(body[c], c)

LEMMA OwnGoto ==
    ASSUME Shape, NEW c \in Claims, NEW pc, Goto(c, pc), pc \notin {"join", "settle"}
    PROVE  OwnResult(body'[c], c)
BY GotoEffect, Zenon DEF OwnResult

(* Each step of body c keeps its result its own. *)
LEMMA OwnStep ==
    ASSUME Shape, NEW c \in Claims, OwnResult(body[c], c),
           BodyStep(c) \/ Fault(c) \/ Crash(c) \/ Redeliver(c)
    PROVE  OwnResult(body'[c], c)
<1>0. BodyShape(body[c]) /\ body = [d \in Claims |-> body[d]]
  BY Zenon DEF Shape
<1>1. CASE \/ Start(c) \/ Route(c) \/ After(c) \/ Settle(c) \/ Record(c)
           \/ Fault(c) \/ Crash(c)
  <2>1. PICK pc \in {"cancel", "route", "park", "execute", "trigger", "gone",
                     "failed", "dead", "after"} : Goto(c, pc)
    BY <1>1, Zenon DEF Start, Route, After, Settle, Record, Fault, Crash
  <2>. QED BY <2>1, OwnGoto, Zenon
<1>2. CASE Load(c)
  <2>1. CASE item.lease # c
    BY <1>2, <2>1, OwnGoto, Zenon DEF Load
  <2>2. CASE item.lease = c
    <3>1. PICK pc \in {"park", "start"} :
             body' = [body EXCEPT ![c].pc = pc, ![c].attempts = item.attempts,
                                  ![c].result = item.result]
      BY <1>2, <2>2, ZenonT(60) DEF Load
    <3>2. body'[c].pc = pc
      BY <1>0, <3>1, Zenon DEF BodyShape
    <3>. QED BY <3>2, Zenon DEF OwnResult
  <2>. QED BY <2>1, <2>2, Zenon
<1>3. CASE Execute(c)
  <2>1. PICK outcome \in Outcomes :
           body' = [body EXCEPT ![c].pc = "join", ![c].result = c,
                                ![c].to = outcome]
    BY <1>3, ZenonT(60) DEF Execute
  <2>2. body'[c].result = c
    BY <1>0, <2>1, Zenon DEF BodyShape
  <2>. QED BY <2>2, Zenon DEF OwnResult
<1>4. CASE Join(c)
  <2>1. body[c].result = c
    BY <1>4, Zenon DEF Join, OwnResult
  <2>2. body[c].to \in {"done", "escalated", "degraded"}
    BY <1>4, Zenon DEF Join, Shape, BodySound
  <2>3. body'[c].result = body[c].result
    <3>1. CASE cancel
      BY <1>0, <1>4, <3>1, Zenon DEF Join, BodyShape
    <3>2. CASE ~cancel /\ body[c].to = "done"
      BY <1>0, <1>4, <3>2, Zenon DEF Join, BodyShape
    <3>3. CASE ~cancel /\ body[c].to = "escalated"
      BY <1>0, <1>4, <3>3, Zenon DEF Join, BodyShape
    <3>4. CASE ~cancel /\ body[c].to = "degraded"
      BY <1>0, <1>4, <3>4, Zenon DEF Join, BodyShape
    <3>. QED BY <2>2, <3>1, <3>2, <3>3, <3>4, Zenon
  <2>. QED BY <2>1, <2>3, Zenon DEF OwnResult
<1>5. CASE Trigger(c)
  <2>1. CASE Goto(c, "park")
    BY <2>1, OwnGoto, Zenon
  <2>2. CASE body' = [body EXCEPT ![c].pc = "settle", ![c].result = c,
                                  ![c].to = "done"]
    BY <1>0, <2>2, Zenon DEF OwnResult, BodyShape
  <2>. QED BY <1>5, <2>1, <2>2, Zenon DEF Trigger
<1>6. CASE Park(c)
  <2>1. body'[c].to = "awaiting_human" /\ body'[c].pc = "settle"
    BY <1>0, <1>6, Zenon DEF Park, BodyShape
  <2>. QED BY <2>1, Zenon DEF OwnResult
<1>7. CASE Cancel(c)
  <2>1. body'[c].pc = "after"
    BY <1>0, <1>7, Zenon DEF Cancel, BodyShape
  <2>. QED BY <2>1, Zenon DEF OwnResult
<1>8. CASE CancelWins(c)
  <2>1. body'[c].pc \in {"cancel", "judge"}
    BY <1>0, <1>8, Zenon DEF CancelWins, BodyShape
  <2>. QED BY <2>1, Zenon DEF OwnResult
<1>9. CASE Judge(c)
  <2>1. CASE item.status \in SETTLED_STATUSES
    BY <1>9, <2>1, OwnGoto, Zenon DEF Judge
  <2>2. CASE item.status \notin SETTLED_STATUSES
    <3>1. body'[c].pc = "record"
      BY <1>0, <1>9, <2>2, Zenon DEF Judge, BodyShape
    <3>. QED BY <3>1, Zenon DEF OwnResult
  <2>. QED BY <2>1, <2>2, Zenon
<1>10. CASE Redeliver(c)
  <2>1. body'[c] = Fresh("queued")
    BY <1>0, <1>10, Zenon DEF Redeliver
  <2>. QED BY <2>1, FreshIs, Zenon DEF OwnResult
<1>. QED BY <1>1, <1>2, <1>3, <1>4, <1>5, <1>6, <1>7, <1>8, <1>9, <1>10, Zenon DEF BodyStep

(* A body writes "done" only with its own result, under the newest token. *)
LEMMA DoneWrites ==
    ASSUME Shape, OnlyNewestHolds, DoneInv, NEW c \in Claims,
           BodyStep(c) \/ Fault(c) \/ Crash(c) \/ Redeliver(c)
    PROVE  /\ DoneIsNewest'
           /\ body' = [body EXCEPT ![c] = body'[c]]
<1>1. Effect(c)
  BY QuietSteps, DecidingSteps, WritingSteps, BrokenSteps, Zenon DEF BodyStep
<1>2. UNCHANGED claims /\ body' = [body EXCEPT ![c] = body'[c]]
  BY <1>1, Zenon DEF Effect
<1>3. spent'.moves = spent.moves
  BY Zenon DEF Shape, SpentShape, BodyStep, Load, Start, Route, Execute, Join, Trigger, Park,
         Settle, Cancel, After, CancelWins, Judge, Record, Fault, Crash, Redeliver
<1>4. CASE UNCHANGED item
  BY <1>2, <1>3, <1>4, Zenon DEF DoneInv, DoneIsNewest
<1>5. CASE Settle(c) /\ item.lease = c
  <2>1. item'.status = body[c].to /\ item'.result = body[c].result
    BY <1>5 DEF Settle, Write
  <2>2. c = claims
    BY <1>5 DEF OnlyNewestHolds, NoLease, Claims
  <2>3. body[c].to = "done" => body[c].result = c
    BY <1>5, Zenon DEF DoneInv, OwnResult, Settle
  <2>. QED BY <1>2, <2>1, <2>2, <2>3, Zenon DEF DoneIsNewest
<1>6. CASE (Cancel(c) \/ Record(c)) /\ item.lease = c
  <2>1. item'.status \in {"cancelled", "pending", "failed"}
    BY <1>6 DEF Cancel, Record, Write
  <2>2. item'.status # "done"
    BY <2>1, Zenon
  <2>. QED BY <1>2, <2>2, Zenon DEF DoneIsNewest
<1>7. UNCHANGED item \/ (item.lease = c /\ (Settle(c) \/ Cancel(c) \/ Record(c)))
  BY Zenon DEF BodyStep, Load, Start, Route, Execute, Join, Trigger, Park, Settle, Cancel,
         After, CancelWins, Judge, Record, Fault, Crash, Redeliver, Write
<1>. QED BY <1>2, <1>4, <1>5, <1>6, <1>7, Zenon

LEMMA NextDone == IndInv /\ DoneInv /\ [Next]_vars => DoneInv'
<1>. SUFFICES ASSUME IndInv, DoneInv, [Next]_vars PROVE DoneInv'
  BY Zenon
<1>0. Shape /\ OnlyNewestHolds /\ body = [d \in Claims |-> body[d]]
  BY Zenon DEF IndInv, Shape
<1>1. ASSUME NEW c \in Claims, BodyStep(c) \/ Fault(c) \/ Crash(c) \/ Redeliver(c)
      PROVE  DoneInv'
  <2>1. OwnResult(body'[c], c)
    BY <1>0, <1>1, OwnStep, Zenon DEF DoneInv
  <2>2. DoneIsNewest' /\ body' = [body EXCEPT ![c] = body'[c]]
    BY <1>0, <1>1, DoneWrites, Zenon
  <2>3. \A d \in Claims : d # c => body'[d] = body[d]
    BY <1>0, <2>2, Zenon
  <2>. QED BY <2>1, <2>2, <2>3, Zenon DEF DoneInv, OwnResult
<1>2. CASE Claim
  <2>1. claims + 1 \in Claims /\ item'.status = "in_flight"
    BY <1>0, <1>2, WorkPumpAssumption DEF Claim, Claims, Shape, ItemShape
  <2>2. \A d \in Claims : d # claims + 1 => body'[d] = body[d]
    BY <1>0, <1>2, Zenon DEF Claim
  <2>3. body'[claims + 1] = Fresh("queued")
    BY <1>0, <1>2, <2>1, Zenon DEF Claim
  <2>. QED BY <2>1, <2>2, <2>3, FreshIs DEF DoneInv, DoneIsNewest, OwnResult
<1>3. ASSUME UNCHANGED body, DoneIsNewest' PROVE DoneInv'
  BY <1>3, Zenon DEF DoneInv, OwnResult
<1>4. CASE MutateStatus
  <2>1. spent'.moves # 0
    BY <1>0, <1>4 DEF MutateStatus, Shape, SpentShape
  <2>. QED BY <1>3, <1>4, <2>1, Zenon DEF MutateStatus, DoneIsNewest
<1>5. ASSUME NEW r \in Requests, RequeueWrite(r) PROVE DoneInv'
  BY <1>3, <1>5, Zenon DEF RequeueWrite, DoneIsNewest
<1>6. ASSUME NEW r \in Requests, ParkExpired(r) PROVE DoneInv'
  <2>1. item' = item \/ item'.status = "cancelled"
    BY <1>0, <1>6, Zenon DEF ParkExpired, Shape, ItemShape
  <2>2. UNCHANGED <<claims, body, spent>>
    BY <1>6, Zenon DEF ParkExpired
  <2>. QED BY <1>3, <2>1, <2>2, Zenon DEF DoneIsNewest, DoneInv
<1>7. CASE Lapse
  <2>1. UNCHANGED <<item, claims, body>> /\ spent'.moves = spent.moves
    BY <1>0, <1>7, Zenon DEF Lapse, Shape, SpentShape
  <2>. QED BY <1>3, <2>1, Zenon DEF DoneIsNewest, DoneInv
<1>8. CASE UNCHANGED <<item, claims, body, spent>>
  BY <1>3, <1>8, Zenon DEF DoneIsNewest, DoneInv
<1>. QED BY <1>1, <1>2, <1>4, <1>5, <1>6, <1>7, <1>8, Zenon
         DEF Next, RequestCancel, Answer, RequeueRead, vars

(* An item that is done shows the result of its newest claim (fleet/pump.py *)
(* _settle, lease_token.write and WorkPump.requeue), whatever crashed, was  *)
(* run again, lapsed or was put back, as long as no operator moved it.      *)
THEOREM DoneIsNewestAlways == Spec => []DoneIsNewest
<1>1. Init => DoneInv
  <2>. SUFFICES ASSUME Init PROVE DoneInv
    BY Zenon
  <2>1. item.status = "pending"
    BY Zenon DEF Init
  <2>2. \A c \in Claims : body[c].pc = "unborn"
    BY FreshIs, Zenon DEF Init
  <2>. QED BY <2>1, <2>2, Zenon DEF DoneInv, DoneIsNewest, OwnResult
<1>2. DoneInv => DoneIsNewest
  BY Zenon DEF DoneInv
<1>. QED BY <1>1, <1>2, NextDone, Invariance, PTL DEF Spec
=============================================================================
