-------------------------- MODULE AgentTurnsProofs --------------------------
(***************************************************************************)
(* One turn at a time, one reply per message and the type invariant, for   *)
(* any number of chats, work items, messages and pumps, any cap on         *)
(* attempts and any number of lapses, crashes and failed store calls.      *)
(***************************************************************************)
EXTENDS AgentTurns, TLAPS

\* The part of the type invariant the argument needs.
TurnShape ==
    /\ turn = [token |-> turn.token, lane |-> turn.lane, live |-> turn.live]
    /\ turn.live \in BOOLEAN

Delivery ==
    [status : {"absent", "pending", "in_flight", "delivered", "failed"},
     attempts : Nat, due : BOOLEAN, live : BOOLEAN, owner : Pumps \union {"none"}]

Place ==
    [pc : {"top", "work", "again", "busy", "run", "complete", "fail", "refuse"},
     m : Nat, k : Nat, work : Works \union {"none"}]

Shape ==
    /\ TurnShape
    /\ hold = [h \in Takers |-> hold[h]]
    /\ row \in [Messages -> Delivery]
    /\ replied = [m \in Messages |-> replied[m]]
    /\ pump \in [Pumps -> Place]

\* A pump at work on a claim.
Active(u) == u.pc \in {"run", "complete", "fail", "refuse"}

\* A claim has the number of an attempt of its message, and no other pump has
\* the same claim.
ClaimsApart ==
    /\ \A p \in Pumps : Active(pump[p]) =>
          /\ pump[p].m \in Messages
          /\ pump[p].k \in 1..row[pump[p].m].attempts
    /\ \A p, q \in Pumps : Active(pump[p]) /\ Active(pump[q]) /\ p # q =>
          pump[p].m # pump[q].m \/ pump[p].k # pump[q].k

\* The turn lease names the newest claim of its message.
HeldIsNewest ==
    \A m \in Messages, k \in Nat : Held(ClaimToken(m, k)) => k = row[m].attempts

\* A body runs under the lease, unless the lease ran out under it.
RunsHeld == \A token \in Running \ overrun : Held(token)

IndInv == Shape /\ ClaimsApart /\ HeldIsNewest /\ RunsHeld /\ ReplyIsNewest

-----------------------------------------------------------------------------
(* Tokens.                                                                 *)

\* A taker's token is no claim's, and each names its own.
LEMMA TokensDiffer ==
    ASSUME NEW g, NEW h, NEW m \in Messages, NEW n \in Messages, NEW k, NEW l
    PROVE  /\ HoldToken(h) # ClaimToken(m, k)
           /\ HoldToken(g) = HoldToken(h) => g = h
           /\ ClaimToken(m, k) = ClaimToken(n, l) => m = n /\ k = l
BY DEF HoldToken, ClaimToken, Messages

\* Whose turn a running token is.
LEMMA RunningIs ==
    ASSUME NEW token \in Running
    PROVE  \/ \E h \in Takers : token = HoldToken(h) /\ hold[h] = "run"
           \/ \E p \in Pumps : token = MailToken(p) /\ pump[p].pc = "run"
BY Zenon DEF Running

LEMMA HoldRuns ==
    ASSUME IndInv, NEW h \in Takers, HoldToken(h) \in Running PROVE hold[h] = "run"
<1>1. \A p \in Pumps : pump[p].pc = "run" => MailToken(p) # HoldToken(h)
  BY TokensDiffer DEF IndInv, ClaimsApart, Active, MailToken
<1>2. \A g \in Takers : HoldToken(g) = HoldToken(h) => g = h
  BY Zenon DEF HoldToken
<1> QED BY <1>1, <1>2, RunningIs, Zenon

LEMMA MailRuns ==
    ASSUME IndInv, NEW p \in Pumps, Active(pump[p]), MailToken(p) \in Running
    PROVE  pump[p].pc = "run"
<1>1. \A h \in Takers : HoldToken(h) # MailToken(p)
  BY TokensDiffer DEF IndInv, ClaimsApart, MailToken
<1>2. \A q \in Pumps : pump[q].pc = "run" /\ MailToken(q) = MailToken(p) => q = p
  BY TokensDiffer DEF IndInv, ClaimsApart, Active, MailToken
<1> QED BY <1>1, <1>2, RunningIs, Zenon

\* With no live lease, every body that still runs has outrun its own.
LEMMA NoneHeld == ASSUME IndInv, ~turn.live PROVE Running \subseteq overrun
BY Zenon DEF IndInv, RunsHeld, Held

-----------------------------------------------------------------------------
(* A step that starts no turn.                                             *)

RowsKept ==
    /\ UNCHANGED replied
    /\ \A m \in Messages :
          /\ row'[m].attempts = row[m].attempts
          /\ row'[m].status = "delivered" <=> row[m].status = "delivered"

PumpsKept ==
    \A p \in Pumps :
        Active(pump'[p]) => /\ Active(pump[p])
                            /\ pump'[p].m = pump[p].m /\ pump'[p].k = pump[p].k
                            /\ pump'[p].pc = "run" => pump[p].pc = "run"

HoldsKept == \A h \in Takers : hold'[h] = "run" => hold[h] = "run"

\* The lease stays, or one under which nothing runs is given back.
TurnKept ==
    \/ UNCHANGED turn
    \/ ~turn'.live /\ (turn.live => turn.token \notin Running)

LEMMA RunningShrinks ==
    ASSUME PumpsKept, HoldsKept PROVE Running' \subseteq Running
BY DEF PumpsKept, HoldsKept, Active, Running, MailToken

LEMMA ClaimsKept ==
    ASSUME IndInv, PumpsKept,
           \A m \in Messages : row'[m].attempts = row[m].attempts
    PROVE  ClaimsApart'
BY DEF IndInv, ClaimsApart, PumpsKept

LEMMA TurnsKept ==
    ASSUME IndInv, PumpsKept, HoldsKept, TurnKept, UNCHANGED overrun
    PROVE  RunsHeld'
<1>1. Running' \subseteq Running
  BY RunningShrinks, Zenon
<1>2. CASE UNCHANGED turn
  BY <1>1, <1>2, Zenon DEF IndInv, RunsHeld, Held
<1>3. CASE turn.live => turn.token \notin Running
  BY <1>1, <1>3, Zenon DEF IndInv, RunsHeld, Held
<1> QED BY <1>2, <1>3, Zenon DEF TurnKept

LEMMA QuietKeeps ==
    ASSUME IndInv, Shape', RowsKept, PumpsKept, HoldsKept, TurnKept,
           UNCHANGED overrun
    PROVE  IndInv'
<1>1. ClaimsApart'
  BY ClaimsKept, Zenon DEF RowsKept
<1>2. HeldIsNewest'
  BY Zenon DEF IndInv, HeldIsNewest, Held, TurnKept, RowsKept
<1>3. RunsHeld'
  BY TurnsKept, Zenon
<1>4. ReplyIsNewest'
  BY Zenon DEF IndInv, ReplyIsNewest, RowsKept
<1> QED BY <1>1, <1>2, <1>3, <1>4, Zenon DEF IndInv

-----------------------------------------------------------------------------
(* The takers of hold.                                                     *)

LEMMA FreeShape ==
    ASSUME TurnShape, turn' = turn \/ turn' = Free PROVE TurnShape'
<1>1. CASE turn' = turn
  BY <1>1, Zenon DEF TurnShape
<1>2. CASE turn' = Free
  BY <1>2, Zenon DEF TurnShape, Free
<1> QED BY <1>1, <1>2, Zenon

LEMMA FreedKept ==
    ASSUME Shape, NEW h, pump' = Freed(h)
    PROVE  PumpsKept /\ pump' \in [Pumps -> Place]
<1>1. Top \in Place /\ ~Active(Top)
  BY Zenon DEF Top, At, Place, Active
<1> QED BY <1>1, Zenon DEF Shape, Freed, PumpsKept

LEMMA AcquireKeeps ==
    ASSUME IndInv, NEW h \in Takers, Acquire(h) PROVE IndInv'
<1>1. CASE turn' = [token |-> HoldToken(h), lane |-> Lane(h), live |-> TRUE]
           /\ ~turn.live
  <2>1. /\ \E x : hold' = [hold EXCEPT ![h] = x]
        /\ UNCHANGED <<row, replied, pump, overrun>>
    BY Zenon DEF Acquire
  <2>2. Shape'
    BY <1>1, <2>1, Zenon DEF IndInv, Shape, TurnShape
  <2>3. ClaimsApart' /\ ReplyIsNewest'
    BY <2>1, Zenon DEF IndInv, ClaimsApart, ReplyIsNewest
  <2>4. HeldIsNewest'
    BY <1>1, TokensDiffer DEF HeldIsNewest, Held
  <2>5. Running' \subseteq Running \union {HoldToken(h)}
    BY <2>1, Zenon DEF Running, MailToken, IndInv, Shape
  <2>6. RunsHeld'
    BY <1>1, <2>1, <2>5, NoneHeld, Zenon DEF RunsHeld, Held
  <2> QED BY <2>2, <2>3, <2>4, <2>6, Zenon DEF IndInv
<1>2. CASE /\ turn' = (IF turn.live THEN turn ELSE Free)
           /\ hold' = [hold EXCEPT ![h] = "wait"]
  <2>1. UNCHANGED <<row, replied, pump, overrun>>
    BY Zenon DEF Acquire
  <2>2. TurnKept
    BY <1>2, Zenon DEF TurnKept, Free
  <2>3. TurnShape'
    BY <1>2, FreeShape, Zenon DEF IndInv, Shape
  <2>4. Shape'
    BY <1>2, <2>1, <2>3, Zenon DEF IndInv, Shape
  <2> QED
    BY <1>2, <2>1, <2>2, <2>4, QuietKeeps, Zenon
    DEF IndInv, Shape, RowsKept, PumpsKept, HoldsKept
<1> QED BY <1>1, <1>2, Zenon DEF Acquire

LEMMA GiveUpKeeps ==
    ASSUME IndInv, NEW h \in Takers, GiveUp(h) PROVE IndInv'
<1>1. /\ hold' = [hold EXCEPT ![h] = "done"] /\ pump' = Freed(h)
      /\ UNCHANGED <<turn, row, replied, overrun>>
  BY Zenon DEF GiveUp
<1>2. Shape'
  BY <1>1, FreedKept, Zenon DEF IndInv, Shape, TurnShape
<1> QED
  BY <1>1, <1>2, FreedKept, QuietKeeps, Zenon
  DEF IndInv, Shape, RowsKept, HoldsKept, TurnKept

\* Release: the body has ended, so nothing runs under the token it gives back.
LEMMA ReleaseKeeps ==
    ASSUME IndInv, NEW h \in Takers, Release(h) PROVE IndInv'
<1>1. /\ hold[h] = "end" /\ hold' = [hold EXCEPT ![h] = "done"]
      /\ turn' = turn \/ (turn.token = HoldToken(h) /\ turn' = Free)
      /\ pump' = Freed(h)
      /\ UNCHANGED <<row, replied, overrun>>
  BY Zenon DEF Release, Released
<1>2. Shape'
  <2>1. TurnShape'
    BY <1>1, FreeShape, Zenon DEF IndInv, Shape
  <2> QED BY <1>1, <2>1, FreedKept, Zenon DEF IndInv, Shape
<1>3. TurnKept
  BY <1>1, HoldRuns DEF TurnKept, Free
<1> QED
  BY <1>1, <1>2, <1>3, FreedKept, QuietKeeps, Zenon
  DEF IndInv, Shape, RowsKept, HoldsKept

LEMMA TakerKeeps ==
    ASSUME IndInv, NEW h \in Takers,
           WaiterExpires(h) \/ BodyEnds(h) \/ BeatLost(h) \/ CrashTaker(h)
    PROVE  IndInv'
<1>1. /\ hold' = hold \/ \E x \in {"end", "dead"} : hold' = [hold EXCEPT ![h] = x]
      /\ UNCHANGED <<turn, row, replied, pump, overrun>>
  BY Zenon DEF WaiterExpires, BodyEnds, BeatLost, CrashTaker
<1>2. Shape' /\ HoldsKept
  BY <1>1, Zenon DEF IndInv, Shape, TurnShape, HoldsKept
<1> QED
  BY <1>1, <1>2, QuietKeeps, Zenon DEF RowsKept, PumpsKept, TurnKept

-----------------------------------------------------------------------------
(* Lapses, and the rows of the mailbox.                                    *)

\* Expire: the body that runs under the lapsed lease is the overrun one.
LEMMA ExpireKeeps == ASSUME IndInv, Expire PROVE IndInv'
<1>1. /\ turn' = [turn EXCEPT !.live = FALSE]
      /\ overrun' = overrun \union (Running \intersect {turn.token})
      /\ UNCHANGED <<hold, replied, pump>>
  BY Zenon DEF Expire
<1>2. row' = [m \in Messages |->
                 IF turn.token = ClaimToken(m, row[m].attempts)
                 THEN [row[m] EXCEPT !.live = FALSE] ELSE row[m]]
  BY Zenon DEF Expire
<1>3. Shape'
  <2>1. TurnShape'
    BY <1>1, ZenonT(60) DEF IndInv, Shape, TurnShape
  <2>2. \A m \in Messages : [row[m] EXCEPT !.live = FALSE] \in Delivery
    BY ZenonT(60) DEF IndInv, Shape, Delivery
  <2> QED BY <1>1, <1>2, <2>1, <2>2, Zenon DEF IndInv, Shape
<1>4. RowsKept /\ PumpsKept
  BY <1>1, <1>2, Zenon DEF IndInv, Shape, Delivery, RowsKept, PumpsKept
<1>5. ClaimsApart'
  BY <1>4, ClaimsKept, Zenon DEF RowsKept
<1>6. ~turn'.live
  BY <1>1, Zenon DEF IndInv, Shape, TurnShape
<1>7. HeldIsNewest'
  BY <1>6, Zenon DEF HeldIsNewest, Held
<1>8. RunsHeld'
  <2>1. Running' = Running
    BY <1>1, Zenon DEF Running, MailToken
  <2>2. Running \subseteq overrun'
    BY <1>1, Zenon DEF IndInv, RunsHeld, Held
  <2> QED BY <2>1, <2>2, Zenon DEF RunsHeld
<1>9. ReplyIsNewest'
  BY <1>4, Zenon DEF IndInv, ReplyIsNewest, RowsKept
<1> QED BY <1>3, <1>5, <1>7, <1>8, <1>9, Zenon DEF IndInv

LEMMA SweptKept ==
    ASSUME Shape, NEW m \in Messages
    PROVE  /\ Swept(m) \in Delivery
           /\ Swept(m).attempts = row[m].attempts
           /\ Swept(m).status = "delivered" <=> row[m].status = "delivered"
BY ZenonT(60) DEF Shape, Swept, Delivery

LEMMA MessageKeeps ==
    ASSUME IndInv, Send \/ \E m \in Messages : Due(m) PROVE IndInv'
<1>1. /\ UNCHANGED <<turn, hold, replied, pump, overrun>>
      /\ \E m \in Messages :
            \/ row[m].status = "absent" /\ row' = [row EXCEPT ![m].status = "pending"]
            \/ row' = [row EXCEPT ![m].due = TRUE]
  BY Zenon DEF Send, Due
<1>2. Shape'
  <2>1. \A m \in Messages : /\ [row[m] EXCEPT !.status = "pending"] \in Delivery
                            /\ [row[m] EXCEPT !.due = TRUE] \in Delivery
    BY ZenonT(60) DEF IndInv, Shape, Delivery
  <2> QED BY <1>1, <2>1, ZenonT(60) DEF IndInv, Shape, TurnShape
<1>3. RowsKept
  BY <1>1 DEF IndInv, Shape, Delivery, RowsKept
<1> QED
  BY <1>1, <1>2, <1>3, QuietKeeps, Zenon DEF PumpsKept, HoldsKept, TurnKept

-----------------------------------------------------------------------------
(* The pumps.                                                              *)

\* A pump that moves on without a new claim.
LEMMA MoveKept ==
    ASSUME Shape, NEW p \in Pumps, NEW u \in Place, pump' = [pump EXCEPT ![p] = u],
           Active(u) => /\ Active(pump[p]) /\ u.m = pump[p].m /\ u.k = pump[p].k
                        /\ u.pc # "run"
    PROVE  PumpsKept /\ pump' \in [Pumps -> Place]
BY Zenon DEF Shape, PumpsKept

LEMMA AtPlace ==
    ASSUME NEW pc \in {"top", "work", "again", "busy"}, NEW w \in Works
    PROVE  /\ At(pc) \in Place /\ ~Active(At(pc))
           /\ [At(pc) EXCEPT !.work = w] \in Place
           /\ ~Active([At(pc) EXCEPT !.work = w])
BY Zenon DEF At, Place, Active

\* TryMail: a claim needs a dead lease, and its number is new.
LEMMA ClaimKeeps ==
    ASSUME IndInv, NEW p \in Pumps, NEW m \in Messages, ~turn.live, DuePeer(m),
           row' = [n \in Messages |->
                      IF n = m
                      THEN [status |-> "in_flight", owner |-> p,
                            attempts |-> row[m].attempts + 1,
                            due |-> TRUE, live |-> TRUE]
                      ELSE Swept(n)],
           turn' = [token |-> ClaimToken(m, row[m].attempts + 1),
                    lane |-> "peer", live |-> TRUE],
           pump' = [pump EXCEPT ![p] =
                       [pc |-> "run", m |-> m, k |-> row[m].attempts + 1,
                        work |-> "none"]],
           UNCHANGED <<hold, replied, overrun>>
    PROVE  IndInv'
<1>1. row[m].attempts \in Nat /\ m \in Nat
  BY DEF IndInv, Shape, Delivery, Messages
<1>2. /\ row'[m].attempts = row[m].attempts + 1
      /\ row'[m].status = "in_flight"
      /\ row[m].status # "delivered"
      /\ \A n \in Messages \ {m} :
            /\ row'[n].attempts = row[n].attempts
            /\ row'[n].status = "delivered" <=> row[n].status = "delivered"
  BY SweptKept, Zenon DEF IndInv, DuePeer
<1>3. Shape'
  <2>1. TurnShape'
    BY Zenon DEF TurnShape
  <2>2. row' \in [Messages -> Delivery]
    <3>1. [status |-> "in_flight", owner |-> p, attempts |-> row[m].attempts + 1,
           due |-> TRUE, live |-> TRUE] \in Delivery
      BY <1>1 DEF Delivery
    <3> QED BY <3>1, SweptKept, Zenon DEF IndInv
  <2>3. pump' \in [Pumps -> Place]
    <3>1. [pc |-> "run", m |-> m, k |-> row[m].attempts + 1, work |-> "none"] \in Place
      BY <1>1 DEF Place
    <3> QED BY <3>1, Zenon DEF IndInv, Shape
  <2> QED BY <2>1, <2>2, <2>3, ZenonT(60) DEF IndInv, Shape
<1>4. ClaimsApart'
  BY <1>1, <1>2 DEF IndInv, Shape, Delivery, ClaimsApart, Active
<1>5. HeldIsNewest'
  <2>1. turn'.token = ClaimToken(m, row[m].attempts + 1)
    BY Zenon
  <2>2. \A n \in Messages, k \in Nat :
           ClaimToken(n, k) = turn'.token => n = m /\ k = row[m].attempts + 1
    BY <2>1, TokensDiffer, SMTT(60)
  <2> QED BY <1>2, <2>2, Zenon DEF HeldIsNewest, Held
<1>6. RunsHeld'
  <2>1. Running' \subseteq Running \union {ClaimToken(m, row[m].attempts + 1)}
    BY Zenon DEF Running, MailToken, IndInv, Shape
  <2> QED BY <2>1, NoneHeld, Zenon DEF RunsHeld, Held
<1>7. ReplyIsNewest'
  BY <1>2, Zenon DEF IndInv, ReplyIsNewest
<1> QED BY <1>3, <1>4, <1>5, <1>6, <1>7, Zenon DEF IndInv

LEMMA TryMailKeeps ==
    ASSUME IndInv, NEW p \in Pumps, TryMail(p) PROVE IndInv'
<1>1. CASE \A m \in Messages : ~Eligible(m)
  <2>1. /\ row' = [m \in Messages |-> Swept(m)]
        /\ pump' = [pump EXCEPT ![p] = Top] \/ pump' = [pump EXCEPT ![p] = At("work")]
        /\ UNCHANGED <<turn, hold, replied, overrun>>
    BY <1>1, Zenon DEF TryMail
  <2>2. \A pc \in {"top", "work"} : At(pc) \in Place /\ ~Active(At(pc))
    BY Zenon DEF At, Place, Active
  <2>3. PumpsKept /\ pump' \in [Pumps -> Place]
    BY <2>1, <2>2, MoveKept, Zenon DEF IndInv, Top
  <2>4. RowsKept /\ row' \in [Messages -> Delivery]
    BY <2>1, SweptKept, Zenon DEF RowsKept, IndInv
  <2>5. Shape'
    BY <2>1, <2>3, <2>4, Zenon DEF IndInv, Shape, TurnShape
  <2> QED BY <2>1, <2>3, <2>4, <2>5, QuietKeeps, Zenon DEF HoldsKept, TurnKept
<1>2. CASE \E m \in Messages : Eligible(m)
  BY <1>2, ClaimKeeps, Zenon DEF TryMail, Eligible
<1> QED BY <1>1, <1>2, Zenon

LEMMA TryWorkKeeps ==
    ASSUME IndInv, NEW p \in Pumps, TryWork(p) PROVE IndInv'
<1>1. /\ UNCHANGED <<turn, row, replied, overrun>>
      /\ hold' = hold \/ \E w \in Works : hold' = [hold EXCEPT ![w] = "called"]
  BY Zenon DEF TryWork
<1>2. \E u \in Place : ~Active(u) /\ pump' = [pump EXCEPT ![p] = u]
  <2>1. CASE \E w \in Works : hold[w] = "filed"
    BY <2>1, AtPlace, ZenonT(60) DEF TryWork, Top
  <2>2. CASE \A w \in Works : hold[w] # "filed"
    <3>1. At("again") \in Place /\ ~Active(At("again"))
      BY Zenon DEF At, Place, Active
    <3> QED BY <2>2, <3>1, Zenon DEF TryWork
  <2> QED BY <2>1, <2>2, Zenon
<1>3. PumpsKept /\ pump' \in [Pumps -> Place]
  BY <1>2, MoveKept, ZenonT(60) DEF IndInv
<1>4. Shape' /\ HoldsKept
  BY <1>1, <1>3, Zenon DEF IndInv, Shape, TurnShape, HoldsKept
<1> QED BY <1>1, <1>3, <1>4, QuietKeeps, Zenon DEF RowsKept, TurnKept

LEMMA RespondKeeps ==
    ASSUME IndInv, NEW p \in Pumps, Respond(p) PROVE IndInv'
<1>1. PICK to \in {"complete", "fail", "refuse"} : pump' = [pump EXCEPT ![p].pc = to]
  BY ZenonT(60) DEF Respond
<1>2. UNCHANGED <<turn, hold, row, replied, overrun>> /\ pump[p].pc = "run"
  BY Zenon DEF Respond
<1>3. PumpsKept /\ pump' \in [Pumps -> Place]
  <2>1. pump[p] \in Place /\ Active(pump[p])
    BY <1>2, Zenon DEF IndInv, Shape, Active
  <2> DEFINE u == [pump[p] EXCEPT !.pc = to]
  <2>2. u \in Place /\ u.m = pump[p].m /\ u.k = pump[p].k /\ u.pc # "run"
    BY <2>1, Zenon DEF Place
  <2>3. pump' = [pump EXCEPT ![p] = u]
    BY <1>1, Zenon
  <2> QED BY <2>1, <2>2, <2>3, MoveKept, ZenonT(60) DEF IndInv
<1>4. Shape'
  BY <1>2, <1>3, Zenon DEF IndInv, Shape, TurnShape
<1> QED BY <1>2, <1>3, <1>4, QuietKeeps, Zenon DEF RowsKept, HoldsKept, TurnKept

\* A pump that answers gives back its own token, under which nothing runs any
\* more, and settles the newest attempt of its message.
SettledAs(p, status) ==
    \E due \in BOOLEAN :
        /\ LiveDelivery(p)
        /\ Settled(p, status, due)

LEMMA SettledKeeps ==
    ASSUME IndInv, NEW p \in Pumps, Active(pump[p]), pump[p].pc # "run",
           NEW status \in {"pending", "delivered", "failed"},
           SettledAs(p, status),
           status # "delivered" => UNCHANGED replied,
           status = "delivered" =>
               replied' = [replied EXCEPT ![pump[p].m] = pump[p].k],
           PumpsKept, pump' \in [Pumps -> Place], UNCHANGED <<hold, overrun>>
    PROVE  IndInv'
<1>1. /\ pump[p].m \in Messages /\ pump[p].k \in Nat
      /\ row[pump[p].m].attempts \in Nat
  BY Zenon DEF IndInv, ClaimsApart, Shape, Delivery, Place
<1>2. PICK due \in BOOLEAN :
         row' = [row EXCEPT ![pump[p].m] =
                    [status |-> status, attempts |-> row[pump[p].m].attempts,
                     due |-> due, live |-> FALSE, owner |-> "none"]]
  BY ZenonT(60) DEF SettledAs, Settled
<1>3. /\ row[pump[p].m].status = "in_flight"
      /\ row[pump[p].m].attempts = pump[p].k
      /\ turn.token = MailToken(p) /\ turn' = Free
  BY <1>1, Zenon DEF SettledAs, LiveDelivery, Settled, Released, Held, MailToken, IndInv, HeldIsNewest
<1>4. Shape'
  <2>1. TurnShape'
    BY <1>3, FreeShape, Zenon DEF IndInv, Shape
  <2>2. [status |-> status, attempts |-> row[pump[p].m].attempts,
         due |-> due, live |-> FALSE, owner |-> "none"] \in Delivery
    BY <1>1, Zenon DEF Delivery
  <2>3. replied' = [m \in Messages |-> replied'[m]]
    BY Zenon DEF IndInv, Shape
  <2> QED BY <1>2, <2>1, <2>2, <2>3, ZenonT(60) DEF IndInv, Shape
<1>5. \A m \in Messages : row'[m].attempts = row[m].attempts
  BY <1>2, Zenon DEF IndInv, Shape
<1>6. ClaimsApart'
  BY <1>5, ClaimsKept, Zenon
<1>7. ~turn'.live
  BY <1>3, Zenon DEF Free
<1>8. HeldIsNewest'
  BY <1>7, Zenon DEF HeldIsNewest, Held
<1>9. RunsHeld'
  BY <1>3, <1>7, MailRuns, TurnsKept, Zenon DEF TurnKept, HoldsKept
<1>10. ReplyIsNewest'
  <2>1. \A m \in Messages \ {pump[p].m} : row'[m] = row[m] /\ replied'[m] = replied[m]
    BY <1>2, Zenon DEF IndInv, Shape
  <2>2. replied[pump[p].m] = 0 /\ row'[pump[p].m].status = status
    BY <1>1, <1>2, <1>3, Zenon DEF IndInv, ReplyIsNewest, Shape
  <2>3. replied'[pump[p].m] = IF status = "delivered" THEN row[pump[p].m].attempts ELSE 0
    BY <1>1, <1>3, <2>2, Zenon DEF IndInv, Shape
  <2> QED BY <1>5, <2>1, <2>2, <2>3, Zenon DEF IndInv, ReplyIsNewest
<1> QED BY <1>4, <1>6, <1>8, <1>9, <1>10, Zenon DEF IndInv

\* An answer the store refuses changes only the pump.
LEMMA RefusedKeeps ==
    ASSUME IndInv, PumpsKept, pump' \in [Pumps -> Place],
           UNCHANGED <<row, turn, replied, hold, overrun>>
    PROVE  IndInv'
<1>1. Shape'
  BY Zenon DEF IndInv, Shape, TurnShape
<1> QED BY <1>1, QuietKeeps, Zenon DEF RowsKept, HoldsKept, TurnKept

LEMMA TopKept ==
    ASSUME Shape, NEW p \in Pumps, pump' = [pump EXCEPT ![p] = Top]
    PROVE  PumpsKept /\ pump' \in [Pumps -> Place]
<1>1. Top \in Place /\ ~Active(Top)
  BY Zenon DEF Top, At, Place, Active
<1> QED BY <1>1, MoveKept, ZenonT(60)

LEMMA CommitsKeeps ==
    ASSUME IndInv, NEW p \in Pumps, pump[p].pc = "complete",
           Commits(p) \/ UNCHANGED <<row, turn, replied>>,
           PumpsKept, pump' \in [Pumps -> Place], UNCHANGED <<hold, overrun>>
    PROVE  IndInv'
<1>1. CASE UNCHANGED <<row, turn, replied>>
  BY <1>1, RefusedKeeps, Zenon
<1>2. CASE /\ LiveDelivery(p) /\ Settled(p, "delivered", TRUE)
           /\ replied' = [replied EXCEPT ![pump[p].m] = pump[p].k]
  BY <1>2, SettledKeeps, ZenonT(60) DEF SettledAs, Active
<1> QED BY <1>1, <1>2, ZenonT(60) DEF Commits

LEMMA CompleteKeeps ==
    ASSUME IndInv, NEW p \in Pumps, Complete(p) PROVE IndInv'
<1>1. PumpsKept /\ pump' \in [Pumps -> Place]
  BY TopKept, ZenonT(60) DEF Complete, BackToTop, IndInv
<1> QED BY <1>1, CommitsKeeps, Zenon DEF Complete

LEMMA CompleteRaisesKeeps ==
    ASSUME IndInv, NEW p \in Pumps, CompleteRaises(p) PROVE IndInv'
<1>1. /\ pump[p].pc = "complete" /\ pump' = [pump EXCEPT ![p].pc = "fail"]
      /\ UNCHANGED <<hold, overrun>>
  BY Zenon DEF CompleteRaises
<1>2. PumpsKept /\ pump' \in [Pumps -> Place]
  <2> DEFINE u == [pump[p] EXCEPT !.pc = "fail"]
  <2>1. pump[p] \in Place /\ Active(pump[p])
    BY <1>1, Zenon DEF IndInv, Shape, Active
  <2>2. u \in Place /\ u.m = pump[p].m /\ u.k = pump[p].k /\ u.pc # "run"
    BY <2>1, Zenon DEF Place
  <2>3. pump' = [pump EXCEPT ![p] = u]
    BY <1>1, Zenon
  <2> QED BY <2>1, <2>2, <2>3, MoveKept, ZenonT(60) DEF IndInv
<1> QED BY <1>1, <1>2, CommitsKeeps, Zenon DEF CompleteRaises

LEMMA FailKeeps ==
    ASSUME IndInv, NEW p \in Pumps, Fail(p) PROVE IndInv'
<1>1. PumpsKept /\ pump' \in [Pumps -> Place]
  BY TopKept, ZenonT(60) DEF Fail, BackToTop, IndInv
<1>2. UNCHANGED <<hold, overrun, replied>> /\ pump[p].pc \in {"fail", "refuse"}
  BY Zenon DEF Fail
<1>3. CASE UNCHANGED <<row, turn>>
  BY <1>1, <1>2, <1>3, RefusedKeeps, Zenon
<1>4. CASE SettledAs(p, "pending") \/ SettledAs(p, "failed")
  BY <1>1, <1>2, <1>4, SettledKeeps, Zenon DEF Active
<1> QED BY <1>3, <1>4, ZenonT(60) DEF Fail, SettledAs

LEMMA CrashPumpKeeps ==
    ASSUME IndInv, NEW p \in Pumps, CrashPump(p) PROVE IndInv'
<1>1. /\ pump' = [pump EXCEPT ![p] = Top]
      /\ hold' = [h \in Takers |-> IF pump[p].work = h THEN "dead" ELSE hold[h]]
      /\ UNCHANGED <<turn, row, replied, overrun>>
  BY Zenon DEF CrashPump
<1>2. PumpsKept /\ pump' \in [Pumps -> Place]
  BY <1>1, TopKept, ZenonT(60) DEF IndInv
<1>3. Shape' /\ HoldsKept
  BY <1>1, <1>2, Zenon DEF IndInv, Shape, TurnShape, HoldsKept
<1> QED BY <1>1, <1>2, <1>3, QuietKeeps, Zenon DEF RowsKept, TurnKept

-----------------------------------------------------------------------------

LEMMA InitInv == Init => IndInv
<1> SUFFICES ASSUME Init PROVE IndInv
  BY Zenon
<1>1. Shape
  <2>1. TurnShape
    BY Zenon DEF Init, TurnShape, Free
  <2>2. row \in [Messages -> Delivery]
    BY Zenon DEF Init, Delivery
  <2>3. pump \in [Pumps -> Place]
    BY Zenon DEF Init, Top, At, Place
  <2> QED BY <2>1, <2>2, <2>3, Zenon DEF Init, Shape
<1>2. ClaimsApart
  BY Zenon DEF Init, Top, At, ClaimsApart, Active
<1>3. HeldIsNewest /\ RunsHeld
  <2>1. Running = {}
    BY Zenon DEF Init, Running, Top, At
  <2> QED BY <2>1, Zenon DEF Init, HeldIsNewest, RunsHeld, Held, Free
<1>4. ReplyIsNewest
  BY Zenon DEF Init, ReplyIsNewest
<1> QED BY <1>1, <1>2, <1>3, <1>4, Zenon DEF IndInv

LEMMA NextInv == IndInv /\ [Next]_vars => IndInv'
<1> SUFFICES ASSUME IndInv, [Next]_vars PROVE IndInv'
  BY Zenon
<1>1. CASE \/ \E p \in Pumps : BeatClaimLost(p)
           \/ Disable \/ UNCHANGED vars
  <2>1. UNCHANGED <<turn, hold, row, replied, pump, overrun>>
    BY <1>1, Zenon DEF BeatClaimLost, Disable, vars
  <2>2. PumpsKept /\ pump' \in [Pumps -> Place]
    BY <2>1, Zenon DEF IndInv, Shape, PumpsKept
  <2> QED BY <2>1, <2>2, RefusedKeeps, Zenon
<1> QED
  BY <1>1, AcquireKeeps, GiveUpKeeps, ReleaseKeeps, TakerKeeps, ExpireKeeps,
     MessageKeeps, TryMailKeeps, TryWorkKeeps, RespondKeeps, CompleteKeeps,
     CompleteRaisesKeeps, FailKeeps, CrashPumpKeeps, Zenon DEF Next

(* IndInv holds in every reachable state. *)
THEOREM Invariance == Spec => []IndInv
BY InitInv, NextInv, PTL DEF Spec

-----------------------------------------------------------------------------
(* The type invariant.                                                     *)

QueueOK == queue \in Seq(Takers) /\ IsInjective(queue)

\* Where a waiter stands.
LEMMA PlaceIn ==
    ASSUME NEW q \in Seq(Takers), NEW h \in Range(q)
    PROVE  PlaceOf(h, q) \in 1..Len(q) /\ q[PlaceOf(h, q)] = h
<1>1. DOMAIN q = 1..Len(q)
  OBVIOUS
<1>2. \E i \in DOMAIN q : q[i] = h
  BY Zenon DEF Range
<1> QED BY <1>1, <1>2, Zenon DEF PlaceOf

\* _queue_waiter: a taker that waits already keeps its one row.
LEMMA JoinedOK ==
    ASSUME QueueOK, NEW h \in Takers
    PROVE  Joined(h) \in Seq(Takers) /\ IsInjective(Joined(h))
<1>1. CASE h \in Range(queue)
  BY <1>1, Zenon DEF QueueOK, Joined
<1>2. CASE h \notin Range(queue)
  <2>1. Joined(h) = Append(queue, h) /\ queue \in Seq(Takers)
    BY <1>2, Zenon DEF QueueOK, Joined
  <2>2. Append(queue, h) \in Seq(Takers)
    BY <2>1
  <2>3. \A i \in DOMAIN queue : queue[i] # h
    BY <1>2, Zenon DEF Range
  <2>4. IsInjective(Append(queue, h))
    BY <2>1, <2>3 DEF QueueOK, IsInjective
  <2> QED BY <2>1, <2>2, <2>4, Zenon
<1> QED BY <1>1, <1>2, Zenon

\* The deletion of a waiter's row keeps the others, each once.
LEMMA WithoutOK ==
    ASSUME QueueOK, NEW h
    PROVE  Without(queue, h) \in Seq(Takers) /\ IsInjective(Without(queue, h))
<1>1. CASE h \notin Range(queue)
  BY <1>1, Zenon DEF QueueOK, Without
<1>2. CASE h \in Range(queue)
  <2>1. PICK q, j, n : q = queue /\ j = PlaceOf(h, queue) /\ n = Len(queue)
    OBVIOUS
  <2>2. /\ q \in Seq(Takers) /\ IsInjective(q) /\ n \in Nat /\ j \in 1..n
        /\ DOMAIN q = 1..n
    BY <1>2, <2>1, PlaceIn DEF QueueOK
  <2>3. PICK r : r = [i \in 1..(n - 1) |-> IF i < j THEN q[i] ELSE q[i + 1]]
    OBVIOUS
  <2>4. Without(queue, h) = r
    BY <1>2, <2>1, <2>3, Zenon DEF Without
  <2>5. r \in Seq(Takers)
    BY <2>2, <2>3
  <2>6. IsInjective(r)
    BY <2>2, <2>3 DEF IsInjective
  <2> QED BY <2>4, <2>5, <2>6, Zenon
<1> QED BY <1>1, <1>2, Zenon

LEMMA TokenOK ==
    /\ \A h \in Takers : HoldToken(h) \in Tokens
    /\ \A m \in Messages, k \in 1..MaxAttempts : ClaimToken(m, k) \in Tokens
BY DEF Tokens

LEMMA FreeOK ==
    ASSUME TypeOK, turn' = turn \/ turn' = Free PROVE turn' \in Leases
<1>1. Free \in Leases
  BY DEF Free, Leases, Tokens
<1> QED BY <1>1, Zenon DEF TypeOK

LEMMA LaneOK == \A h : Lane(h) \in DOMAIN TURN_LANE_PRIORITY
BY DEF Lane, TURN_LANE_PRIORITY

LEMMA EventOK == ASSUME TypeOK, Event \/ UNCHANGED events PROVE events' \in 0..MaxEvents
<1>1. events \in 0..MaxEvents /\ MaxEvents \in Nat
  BY AgentTurnsAssumption, Zenon DEF TypeOK
<1>2. \A a \in 0..MaxEvents : a < MaxEvents => a + 1 \in 0..MaxEvents
  BY <1>1
<1> QED BY <1>1, <1>2, Zenon DEF Event

LEMMA AtOK ==
    ASSUME NEW pc \in {"top", "work", "again", "busy"}, NEW w \in Works
    PROVE  At(pc) \in Spots /\ [At(pc) EXCEPT !.work = w] \in Spots
<1>1. 0 \in 0..MaxMessages /\ 0 \in 0..MaxAttempts
  BY AgentTurnsAssumption
<1> QED BY <1>1, Zenon DEF At, Spots

LEMMA TopOK == Top \in Spots /\ At("work") \in Spots /\ At("again") \in Spots
<1>1. 0 \in 0..MaxMessages /\ 0 \in 0..MaxAttempts
  BY AgentTurnsAssumption
<1> QED BY <1>1, Zenon DEF Top, At, Spots

LEMMA FreedOK ==
    ASSUME TypeOK, NEW h, pump' = Freed(h) PROVE pump' \in [Pumps -> Spots]
BY TopOK DEF Freed, TypeOK

LEMMA AcquireTypeOK ==
    ASSUME TypeOK, NEW h \in Takers, Acquire(h) PROVE TypeOK'
<1>1. /\ UNCHANGED <<enabled, lost, row, replied, pump, prefer, overrun, events>>
      /\ \E x \in Stages : hold' = [hold EXCEPT ![h] = x]
  BY Zenon DEF Acquire, Stages
<1>2. hold' \in [Takers -> Stages]
  BY <1>1 DEF TypeOK
<1>3. turn' \in Leases
  <2>1. CASE turn' = [token |-> HoldToken(h), lane |-> Lane(h), live |-> TRUE]
    BY <2>1, TokenOK, LaneOK, Zenon DEF Leases
  <2>2. CASE turn' = turn \/ turn' = Free
    BY <2>2, FreeOK, Zenon
  <2> QED BY <2>1, <2>2, Zenon DEF Acquire
<1>4. QueueOK'
  BY JoinedOK, WithoutOK, Zenon DEF Acquire, QueueOK, TypeOK
<1> QED BY <1>1, <1>2, <1>3, <1>4, Zenon DEF TypeOK, QueueOK

LEMMA GiveUpTypeOK ==
    ASSUME TypeOK, NEW h \in Takers, GiveUp(h) PROVE TypeOK'
<1>1. /\ UNCHANGED <<turn, enabled, lost, row, replied, prefer, overrun>>
      /\ pump' \in [Pumps -> Spots] /\ events' \in 0..MaxEvents
  BY FreedOK, EventOK, Zenon DEF GiveUp
<1>2. hold' \in [Takers -> Stages]
  BY DEF GiveUp, Stages, TypeOK
<1>3. QueueOK'
  BY WithoutOK, Zenon DEF GiveUp, QueueOK, TypeOK
<1> QED BY <1>1, <1>2, <1>3, Zenon DEF TypeOK, QueueOK

LEMMA ReleaseTypeOK ==
    ASSUME TypeOK, NEW h \in Takers, Release(h) PROVE TypeOK'
<1>1. /\ UNCHANGED <<queue, enabled, row, replied, prefer, overrun>>
      /\ pump' \in [Pumps -> Spots] /\ events' \in 0..MaxEvents
      /\ turn' \in Leases /\ lost' \subseteq Takers \union Pumps
  BY FreedOK, EventOK, FreeOK, Zenon DEF Release, Released, TypeOK
<1>2. hold' \in [Takers -> Stages]
  BY DEF Release, Stages, TypeOK
<1> QED BY <1>1, <1>2, Zenon DEF TypeOK

LEMMA TakerTypeOK ==
    ASSUME TypeOK, NEW h \in Takers,
           WaiterExpires(h) \/ BodyEnds(h) \/ BeatLost(h) \/ CrashTaker(h)
    PROVE  TypeOK'
<1>1. /\ UNCHANGED <<turn, enabled, row, replied, pump, prefer, overrun>>
      /\ events' \in 0..MaxEvents /\ lost' \subseteq Takers \union Pumps
      /\ queue' = queue \/ queue' = Without(queue, h)
  BY EventOK, Zenon DEF WaiterExpires, BodyEnds, BeatLost, CrashTaker, TypeOK
<1>2. hold' \in [Takers -> Stages]
  <2>1. hold' = hold \/ \E x \in Stages : hold' = [hold EXCEPT ![h] = x]
    BY Zenon DEF WaiterExpires, BodyEnds, BeatLost, CrashTaker, Stages
  <2> QED BY <2>1 DEF TypeOK
<1>3. QueueOK'
  BY <1>1, WithoutOK, Zenon DEF QueueOK, TypeOK
<1> QED BY <1>1, <1>2, <1>3, Zenon DEF TypeOK, QueueOK

LEMMA ExpireTypeOK == ASSUME TypeOK, Expire PROVE TypeOK'
<1>1. /\ UNCHANGED <<queue, enabled, hold, lost, replied, pump, prefer>>
      /\ events' \in 0..MaxEvents
  BY EventOK, Zenon DEF Expire
<1>2. turn' \in Leases
  BY DEF Expire, Leases, TypeOK
<1>3. row' \in [Messages -> Rows]
  <2>1. \A m \in Messages : [row[m] EXCEPT !.live = FALSE] \in Rows /\ row[m] \in Rows
    BY ZenonT(60) DEF Rows, TypeOK
  <2> QED BY <2>1 DEF Expire
<1>4. overrun' \subseteq Tokens
  BY Zenon DEF Expire, Leases, TypeOK
<1> QED BY <1>1, <1>2, <1>3, <1>4, Zenon DEF TypeOK

LEMMA MessageTypeOK ==
    ASSUME TypeOK, Send \/ \E m \in Messages : Due(m) PROVE TypeOK'
<1>1. /\ UNCHANGED <<turn, queue, enabled, hold, lost, replied, pump, prefer,
                     overrun, events>>
      /\ \E m \in Messages : \/ row' = [row EXCEPT ![m].status = "pending"]
                             \/ row' = [row EXCEPT ![m].due = TRUE]
  BY Zenon DEF Send, Due
<1>2. row' \in [Messages -> Rows]
  <2>1. \A m \in Messages : /\ [row[m] EXCEPT !.status = "pending"] \in Rows
                            /\ [row[m] EXCEPT !.due = TRUE] \in Rows
    BY ZenonT(60) DEF Rows, TypeOK
  <2> QED BY <1>1, <2>1, ZenonT(60) DEF TypeOK
<1> QED BY <1>1, <1>2, Zenon DEF TypeOK

LEMMA SweptOK == ASSUME TypeOK, NEW m \in Messages PROVE Swept(m) \in Rows
BY ZenonT(60) DEF Swept, Rows, TypeOK

\* What attempt k of message m writes.
Claimed(p, m, k) ==
    /\ row' = [n \in Messages |->
                  IF n = m
                  THEN [status |-> "in_flight", owner |-> p, attempts |-> k,
                        due |-> TRUE, live |-> TRUE]
                  ELSE Swept(n)]
    /\ turn' = [token |-> ClaimToken(m, k), lane |-> "peer", live |-> TRUE]
    /\ pump' = [pump EXCEPT ![p] = [pc |-> "run", m |-> m, k |-> k,
                                    work |-> "none"]]

\* TryMail: the attempt it counts is within the cap, which Eligible asked.
LEMMA TryMailTypeOK ==
    ASSUME TypeOK, NEW p \in Pumps, TryMail(p) PROVE TypeOK'
<1>1. UNCHANGED <<queue, enabled, hold, lost, replied, overrun, events>>
  BY Zenon DEF TryMail
<1>2. prefer' \in [Pumps -> BOOLEAN]
  BY DEF TryMail, TypeOK
<1>3. turn' \in Leases /\ row' \in [Messages -> Rows] /\ pump' \in [Pumps -> Spots]
  <2>1. CASE \A m \in Messages : ~Eligible(m)
    <3>1. /\ row' = [m \in Messages |-> Swept(m)] /\ turn' = turn
          /\ pump' = [pump EXCEPT ![p] = Top] \/ pump' = [pump EXCEPT ![p] = At("work")]
      BY <2>1, Zenon DEF TryMail
    <3> QED BY <3>1, SweptOK, TopOK DEF TypeOK
  <2>2. CASE \E m \in Messages : Eligible(m)
    <3>1. PICK m \in Messages : \E k :
             /\ Eligible(m) /\ k = row[m].attempts + 1 /\ Claimed(p, m, k)
      BY <2>2, Zenon DEF TryMail, Claimed
    <3>2. PICK k : Eligible(m) /\ k = row[m].attempts + 1 /\ Claimed(p, m, k)
      BY <3>1, Zenon
    <3>3. k \in 1..MaxAttempts /\ k \in 0..MaxAttempts /\ m \in 0..MaxMessages
      <4>1. row[m].attempts \in 0..MaxAttempts /\ row[m].attempts < MaxAttempts
        BY <3>2, Zenon DEF Rows, Eligible, TypeOK
      <4> QED BY <3>2, <4>1, AgentTurnsAssumption DEF Messages
    <3>4. turn' \in Leases
      BY <3>2, <3>3, TokenOK DEF Leases, TURN_LANE_PRIORITY, Claimed
    <3>5. row' \in [Messages -> Rows]
      <4>1. [status |-> "in_flight", owner |-> p, attempts |-> k,
             due |-> TRUE, live |-> TRUE] \in Rows
        BY <3>3, Zenon DEF Rows
      <4> QED BY <3>2, <4>1, SweptOK DEF Claimed
    <3>6. pump' \in [Pumps -> Spots]
      <4>1. [pc |-> "run", m |-> m, k |-> k, work |-> "none"] \in Spots
        BY <3>3, Zenon DEF Spots
      <4> QED BY <3>2, <4>1 DEF TypeOK, Claimed
    <3> QED BY <3>4, <3>5, <3>6, Zenon
  <2> QED BY <2>1, <2>2, Zenon
<1> QED BY <1>1, <1>2, <1>3, Zenon DEF TypeOK

LEMMA TryWorkTypeOK ==
    ASSUME TypeOK, NEW p \in Pumps, TryWork(p) PROVE TypeOK'
<1>1. UNCHANGED <<turn, queue, enabled, lost, row, replied, overrun, events>>
  BY Zenon DEF TryWork
<1>2. hold' \in [Takers -> Stages] /\ prefer' \in [Pumps -> BOOLEAN]
  BY DEF TryWork, Stages, TypeOK
<1>3. \E u \in Spots : pump' = [pump EXCEPT ![p] = u]
  BY AtOK, TopOK, ZenonT(60) DEF TryWork
<1>4. pump' \in [Pumps -> Spots]
  BY <1>3 DEF TypeOK
<1> QED BY <1>1, <1>2, <1>4, Zenon DEF TypeOK

\* A step of a pump within its claim, or back to the top.
LEMMA PumpMovesOK ==
    ASSUME TypeOK, NEW p \in Pumps,
           NEW pc \in {"complete", "fail", "refuse"},
           \/ pump' = [pump EXCEPT ![p].pc = pc]
           \/ pump' = [pump EXCEPT ![p] = Top]
    PROVE  pump' \in [Pumps -> Spots]
<1>1. pump[p] \in Spots
  BY Zenon DEF TypeOK
<1>2. [pump[p] EXCEPT !.pc = pc] \in Spots
  BY <1>1 DEF Spots
<1> QED BY <1>2, TopOK DEF TypeOK

LEMMA RespondTypeOK ==
    ASSUME TypeOK, NEW p \in Pumps, Respond(p) PROVE TypeOK'
<1>1. UNCHANGED <<turn, queue, enabled, hold, lost, row, replied, prefer, overrun,
                  events>>
  BY Zenon DEF Respond
<1>2. pump' \in [Pumps -> Spots]
  BY PumpMovesOK, Zenon DEF Respond
<1> QED BY <1>1, <1>2, Zenon DEF TypeOK

\* An answer settles the row of the pump's message and frees the lease.
LEMMA SettledOK ==
    ASSUME TypeOK, NEW p \in Pumps, pump[p].m \in Messages,
           NEW status \in {"delivered", "pending", "failed"}, NEW due \in BOOLEAN,
           Settled(p, status, due)
    PROVE  turn' \in Leases /\ row' \in [Messages -> Rows]
<1>1. [status |-> status, attempts |-> row[pump[p].m].attempts, due |-> due,
       live |-> FALSE, owner |-> "none"] \in Rows
  BY Zenon DEF Rows, TypeOK
<1>2. row' \in [Messages -> Rows]
  BY <1>1 DEF Settled, TypeOK
<1>3. turn' \in Leases
  BY FreeOK, Zenon DEF Settled, Released
<1> QED BY <1>2, <1>3

LEMMA CommitsOK ==
    ASSUME TypeOK, NEW p \in Pumps, pump[p].m \in Messages,
           Commits(p) \/ UNCHANGED <<row, turn, replied>>
    PROVE  /\ turn' \in Leases /\ row' \in [Messages -> Rows]
           /\ replied' \in [Messages -> 0..MaxAttempts]
<1>1. CASE UNCHANGED <<row, turn, replied>>
  BY <1>1, Zenon DEF TypeOK
<1>2. CASE /\ Settled(p, "delivered", TRUE)
           /\ replied' = [replied EXCEPT ![pump[p].m] = pump[p].k]
  <2>1. pump[p].k \in 0..MaxAttempts
    BY Zenon DEF Spots, TypeOK
  <2>2. replied' \in [Messages -> 0..MaxAttempts]
    BY <1>2, <2>1, Zenon DEF TypeOK
  <2> QED BY <1>2, <2>2, SettledOK, Zenon
<1> QED BY <1>1, <1>2, Zenon DEF Commits

LEMMA CompleteTypeOK ==
    ASSUME IndInv, TypeOK, NEW p \in Pumps, Complete(p) \/ CompleteRaises(p)
    PROVE  TypeOK'
<1>1. /\ UNCHANGED <<queue, enabled, hold, prefer, overrun>>
      /\ lost' \subseteq Takers \union Pumps /\ events' \in 0..MaxEvents
  BY EventOK, Zenon DEF Complete, CompleteRaises, BackToTop, TypeOK
<1>2. pump[p].m \in Messages
  BY Zenon DEF Complete, CompleteRaises, IndInv, ClaimsApart, Active
<1>3. /\ turn' \in Leases /\ row' \in [Messages -> Rows]
      /\ replied' \in [Messages -> 0..MaxAttempts]
  BY <1>2, CommitsOK, Zenon DEF Complete, CompleteRaises
<1>4. pump' \in [Pumps -> Spots]
  BY PumpMovesOK, Zenon DEF Complete, CompleteRaises, BackToTop
<1> QED BY <1>1, <1>3, <1>4, Zenon DEF TypeOK

LEMMA FailTypeOK ==
    ASSUME IndInv, TypeOK, NEW p \in Pumps, Fail(p) PROVE TypeOK'
<1>1. /\ UNCHANGED <<queue, enabled, hold, replied, prefer, overrun>>
      /\ lost' \subseteq Takers \union Pumps /\ events' \in 0..MaxEvents
  BY EventOK, Zenon DEF Fail, BackToTop, TypeOK
<1>2. pump[p].m \in Messages
  BY Zenon DEF Fail, IndInv, ClaimsApart, Active
<1>3. turn' \in Leases /\ row' \in [Messages -> Rows]
  BY <1>2, SettledOK, Zenon DEF Fail, TypeOK
<1>4. pump' \in [Pumps -> Spots]
  BY PumpMovesOK, Zenon DEF Fail, BackToTop
<1> QED BY <1>1, <1>3, <1>4, Zenon DEF TypeOK

LEMMA CrashPumpTypeOK ==
    ASSUME TypeOK, NEW p \in Pumps, CrashPump(p) PROVE TypeOK'
<1>1. /\ UNCHANGED <<turn, queue, enabled, row, replied, overrun>>
      /\ lost' \subseteq Takers \union Pumps /\ events' \in 0..MaxEvents
  BY EventOK, Zenon DEF CrashPump, TypeOK
<1>2. hold' \in [Takers -> Stages] /\ prefer' \in [Pumps -> BOOLEAN]
  BY DEF CrashPump, Stages, TypeOK
<1>3. pump' \in [Pumps -> Spots]
  BY PumpMovesOK, Zenon DEF CrashPump
<1> QED BY <1>1, <1>2, <1>3, Zenon DEF TypeOK

LEMMA InitTypeOK == Init => TypeOK
<1> SUFFICES ASSUME Init PROVE TypeOK
  OBVIOUS
<1>1. 0 \in 0..MaxAttempts /\ 0 \in 0..MaxEvents
  BY AgentTurnsAssumption
<1>2. turn \in Leases
  BY DEF Init, Free, Leases, Tokens
<1>3. QueueOK
  <2>1. queue = <<>>
    BY DEF Init
  <2> QED BY <2>1 DEF QueueOK, IsInjective
<1>4. hold \in [Takers -> Stages]
  BY DEF Init, Stages
<1>5. row \in [Messages -> Rows] /\ replied \in [Messages -> 0..MaxAttempts]
  BY <1>1, Zenon DEF Init, Rows
<1>6. pump \in [Pumps -> Spots] /\ prefer \in [Pumps -> BOOLEAN]
  BY TopOK, Zenon DEF Init
<1> QED BY <1>1, <1>2, <1>3, <1>4, <1>5, <1>6 DEF Init, TypeOK, QueueOK

LEMMA NextTypeOK == IndInv /\ TypeOK /\ [Next]_vars => TypeOK'
<1> SUFFICES ASSUME IndInv, TypeOK, [Next]_vars PROVE TypeOK'
  OBVIOUS
<1>1. CASE \/ \E p \in Pumps : BeatClaimLost(p)
           \/ Disable \/ UNCHANGED vars
  <2>1. /\ UNCHANGED <<turn, queue, hold, row, replied, pump, prefer, overrun>>
        /\ lost' \subseteq Takers \union Pumps /\ events' \in 0..MaxEvents
        /\ enabled' \in BOOLEAN
    BY <1>1, EventOK, Zenon DEF BeatClaimLost, Disable, vars, TypeOK
  <2> QED BY <2>1, Zenon DEF TypeOK
<1> QED
  BY <1>1, AcquireTypeOK, GiveUpTypeOK, ReleaseTypeOK, TakerTypeOK, ExpireTypeOK,
     MessageTypeOK, TryMailTypeOK, TryWorkTypeOK, RespondTypeOK, CompleteTypeOK,
     FailTypeOK, CrashPumpTypeOK, Zenon DEF Next

(* The store's rows keep their shape: a taker waits in the queue at most   *)
(* once, and no message is claimed more often than max_attempts allows.    *)
THEOREM TypeCorrect == Spec => []TypeOK
BY InitTypeOK, NextTypeOK, Invariance, PTL DEF Spec

-----------------------------------------------------------------------------
INSTANCE FiniteSetTheorems

(* acquire_agent_turn, claim_agent_message and their releases: apart from  *)
(* bodies whose lease ran out under them, the agent takes one turn at a    *)
(* time, because a running body's token is the one the lease row carries.  *)
THEOREM OneTurnAtATimeHolds == Spec => []OneTurnAtATime
<1>1. IndInv => OneTurnAtATime
  <2> SUFFICES ASSUME IndInv PROVE OneTurnAtATime
    BY Zenon
  <2>1. Running \ overrun \subseteq {turn.token}
    BY Zenon DEF IndInv, RunsHeld, Held
  <2>2. IsFiniteSet({turn.token}) /\ Cardinality({turn.token}) = 1
    BY FS_Singleton, ZenonT(60)
  <2>3. Cardinality(Running \ overrun) <= Cardinality({turn.token})
    BY <2>1, <2>2, FS_Subset, Zenon
  <2> QED BY <2>2, <2>3, Zenon DEF OneTurnAtATime
<1> QED BY <1>1, Invariance, PTL

(* complete_agent_message: a message has a reply exactly when it is        *)
(* delivered, and it is that of its newest claim, because the lease that   *)
(* _live_delivery asks for names the newest claim.                         *)
THEOREM ReplyIsNewestHolds == Spec => []ReplyIsNewest
<1>1. IndInv => ReplyIsNewest
  BY Zenon DEF IndInv
<1> QED BY <1>1, Invariance, PTL
=============================================================================
