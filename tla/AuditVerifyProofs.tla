-------------------------- MODULE AuditVerifyProofs --------------------------
(***************************************************************************)
(* The verdict of a verification, the detection of a changed row, and the  *)
(* agreement of the anchors with the rows they seal, for chains of any     *)
(* length, any page sizes, any number of rotations and of workspaces.      *)
(***************************************************************************)
EXTENDS AuditVerify, TLAPS

-----------------------------------------------------------------------------
(* The inductive invariant.                                                *)

(* The rows: in the order of their seq, each hash naming its own seq and   *)
(* each prev the seq before, whatever has been changed.                    *)
HashOf(h, n) == h = <<h[1], n, h[3], h[4]>>

RowOK(r) ==
    /\ r \in [seq : 1 .. Len(honest), ws : Workspaces, prev : {r.prev}, hash : {r.hash}]
    /\ HashOf(r.hash, r.seq)
    /\ IF r.seq = 1 THEN r.prev = NoHash ELSE HashOf(r.prev, r.seq - 1)

RowsInv ==
    /\ rows \in Seq(Range(rows))
    /\ \A i \in DOMAIN rows : RowOK(rows[i])
    /\ \A i, k \in DOMAIN rows : i < k => rows[i].seq < rows[k].seq
    /\ Len(honest) <= MaxRows

\* Nothing has been changed: the rows are exactly what the writers chained.
IntactInv ==
    changed = 0 =>
        /\ Len(rows) = Len(honest)
        /\ \A i \in DOMAIN rows :
              /\ rows[i].seq = i /\ rows[i].prev = HashBefore(i)
              /\ rows[i].hash[3] = rows[i].ws

(* The keys: every retired key has its epoch, later keys have later        *)
(* boundaries, and a boundary splits the rows by the key in force.         *)
KeysInv ==
    /\ key \in 0 .. MaxRotations
    /\ honest \in Seq(0 .. key)
    /\ epochs \in Seq([at : 1 .. Len(honest) + 1, key : 0 .. key])
    /\ \A i \in DOMAIN epochs : epochs[i].key < key
    /\ \A k \in 0 .. key : k < key => \E i \in DOMAIN epochs : epochs[i].key = k
    /\ \A i, j \in DOMAIN epochs :
          /\ epochs[i].key < epochs[j].key => epochs[i].at < epochs[j].at
          /\ epochs[i].key = epochs[j].key => epochs[i].at = epochs[j].at
    /\ \A n \in DOMAIN honest : \A i \in DOMAIN epochs :
          n < epochs[i].at <=> honest[n] <= epochs[i].key

\* A change leaves an unsound row, or nothing from its place on.
ChangeInv ==
    /\ changed \in 0 .. MaxRows
    /\ changed # 0 => \/ \E i \in DOMAIN rows : Unsound(i)
                      \/ \A i \in DOMAIN rows : rows[i].seq < changed

\* Position p is where the rows after seq n begin.
Frontier(p, n) ==
    /\ p \in DOMAIN rows => rows[p].seq > n
    /\ p > 1 => rows[p - 1].seq <= n

(* A verification has found nothing so far, and comparing the next row     *)
(* with the hash it carries is comparing it with the row before.           *)
WalkInv ==
    walk # None =>
        /\ walk \in [from : Nat \ {0}, after : 0 .. Len(honest), prev : {walk.prev}]
        /\ walk.from <= walk.after + 1
        /\ \A i \in DOMAIN rows : rows[i].seq \in walk.from .. walk.after => ~Unsound(i)
        /\ \A p \in 1 .. Len(rows) + 1 : Frontier(p, walk.after) =>
              \/ walk.prev = HashBefore(p)
              \/ p \in DOMAIN rows /\ rows[p].prev \notin {walk.prev, HashBefore(p)}

(* An answer is that of the first unsound row of its range, if there is    *)
(* one; a good answer after a change has read to the end.                  *)
VerdictInv ==
    verdict # None =>
        /\ verdict.ok \in BOOLEAN /\ verdict.from \in Nat \ {0}
        /\ verdict.upto \in 0 .. Len(honest)
        /\ verdict.ok =>
              /\ \A i \in DOMAIN rows : rows[i].seq \in verdict.from .. verdict.upto => ~Unsound(i)
              /\ changed # 0 => \A i \in DOMAIN rows : rows[i].seq <= verdict.upto
        /\ ~verdict.ok =>
              \E i \in DOMAIN rows :
                 /\ Unsound(i) /\ verdict.from <= rows[i].seq
                 /\ verdict.bad = rows[i].seq /\ verdict.upto = rows[i].seq
                 /\ \A k \in DOMAIN rows : k < i /\ rows[k].seq >= verdict.from => ~Unsound(k)

\* Of the rows r: those of a scope with seq in a .. b, and the hashes of the
\* rows at the positions of S, oldest first.
Segment(r, scope, a, b) ==
    {i \in DOMAIN r : InScope(r[i], scope) /\ r[i].seq \in a .. b}

Below(S, n) == {k \in S : k < n}
Nth(S, i) == CHOOSE n \in S : Cardinality(Below(S, n)) = i - 1

HashesOn(r, S) == [i \in 1 .. Cardinality(S) |-> r[Nth(S, i)].hash]

\* An anchoring has read exactly the rows of its scope up to its cursor.
SealInv ==
    seal # None =>
        /\ seal \in [scope : Anchored, from : Nat \cup {None}, hashes : {seal.hashes},
                     cursor : 0 .. Len(honest)]
        /\ seal.from # None => seal.from \in 1 .. seal.cursor
        /\ changed = 0 =>
              seal.hashes = IF seal.from = None THEN <<>>
                            ELSE HashesOn(rows, Segment(rows, seal.scope, seal.from, seal.cursor))

\* An anchor seals the rows of its scope and range with the key in force at its
\* end.
AnchorInv ==
    \A a \in anchors :
        /\ a.scope \in Anchored /\ a.from \in 1 .. Len(honest) /\ a.to \in a.from .. Len(honest)
        /\ changed = 0 => a.root = <<honest[a.to], HashesOn(rows, Segment(rows, a.scope, a.from, a.to))>>

\* The inductive invariant.
IndInv ==
    /\ RowsInv /\ IntactInv /\ KeysInv /\ ChangeInv
    /\ WalkInv /\ VerdictInv /\ SealInv /\ AnchorInv

-----------------------------------------------------------------------------
(* Sequences.                                                              *)

\* An element of a sequence is one of its set.
LEMMA ElementOf ==
    ASSUME NEW T, NEW s \in Seq(T), NEW i \in DOMAIN s
    PROVE  s[i] \in T
  OBVIOUS

\* A sequence over a set is one over a larger set.
LEMMA SeqSubset ==
    ASSUME NEW S, NEW T, S \subseteq T, NEW s \in Seq(S)
    PROVE  s \in Seq(T)
  OBVIOUS

\* A sequence is one over its own elements.
LEMMA SeqOfRange ==
    ASSUME NEW T, NEW s \in Seq(T)
    PROVE  s \in Seq(Range(s))
  BY DEF Range

\* What Append leaves and adds.
LEMMA AppendFacts ==
    ASSUME NEW s, s \in Seq(Range(s)), NEW e
    PROVE  /\ Append(s, e) \in Seq(Range(Append(s, e)))
           /\ Len(Append(s, e)) = Len(s) + 1
           /\ DOMAIN Append(s, e) = DOMAIN s \cup {Len(s) + 1}
           /\ \A i \in DOMAIN s : Append(s, e)[i] = s[i]
           /\ Append(s, e)[Len(s) + 1] = e
<1> DEFINE T == Range(s) \cup {e}
<1>1. s \in Seq(T) /\ e \in T
  OBVIOUS
<1> HIDE DEF T
<1>2. /\ Append(s, e) \in Seq(T) /\ Len(Append(s, e)) = Len(s) + 1
      /\ \A i \in 1 .. Len(s) : Append(s, e)[i] = s[i]
      /\ Append(s, e)[Len(s) + 1] = e
  BY <1>1
<1>3. DOMAIN Append(s, e) = 1 .. Len(s) + 1 /\ DOMAIN s = 1 .. Len(s) /\ Len(s) \in Nat
  BY <1>1, <1>2
<1>4. 1 .. Len(s) + 1 = (1 .. Len(s)) \cup {Len(s) + 1}
  BY <1>3
<1> QED BY <1>2, <1>3, <1>4, SeqOfRange, Zenon

-----------------------------------------------------------------------------
(* The keys.                                                               *)

\* _key_for_seq resolves every seq to the key that was in force when it was
\* assigned, in whatever order the epochs are listed.
LEMMA KeyForSeqIsHonest ==
    ASSUME KeysInv, NEW n \in DOMAIN honest
    PROVE  KeyForSeq(n) = honest[n]
<1> DEFINE later == {i \in DOMAIN epochs : n < epochs[i].at}
<1>1. key \in 0 .. MaxRotations /\ honest \in Seq(0 .. key)
      /\ epochs \in Seq([at : 1 .. Len(honest) + 1, key : 0 .. key])
  BY Zenon DEF KeysInv
<1>2. /\ \A i \in DOMAIN epochs : epochs[i].key < key
      /\ \A k \in 0 .. key : k < key => \E i \in DOMAIN epochs : epochs[i].key = k
      /\ \A i, j \in DOMAIN epochs :
            /\ epochs[i].key < epochs[j].key => epochs[i].at < epochs[j].at
            /\ epochs[i].key = epochs[j].key => epochs[i].at = epochs[j].at
  BY Zenon DEF KeysInv
<1>3. /\ key \in Nat /\ honest[n] \in 0 .. key
      /\ \A i \in DOMAIN epochs : epochs[i].at \in Nat /\ epochs[i].key \in Nat
  <2>1. key \in Nat /\ honest[n] \in 0 .. key /\ Len(honest) \in Nat
    BY <1>1, VerifyAssumption
  <2>2. ASSUME NEW i \in DOMAIN epochs
        PROVE  epochs[i] \in [at : 1 .. Len(honest) + 1, key : 0 .. key]
    BY <1>1, ElementOf, Zenon
  <2> QED BY <2>1, <2>2
<1>4. \A i \in DOMAIN epochs : i \in later <=> honest[n] <= epochs[i].key
  BY Zenon DEF KeysInv
<1>5. CASE honest[n] = key
  <2>1. later = {}
    BY <1>3, <1>4, <1>5, <1>2
  <2> QED BY <1>5, <2>1, Zenon DEF KeyForSeq
<1>6. CASE honest[n] # key
  <2>1. PICK i \in DOMAIN epochs : epochs[i].key = honest[n]
    BY <1>3, <1>6, <1>2
  <2>2. i \in later /\ \A k \in later : epochs[i].at <= epochs[k].at
    <3>1. i \in later
      BY <1>3, <1>4, <2>1
    <3>2. ASSUME NEW k \in later PROVE epochs[i].at <= epochs[k].at
      <4>1. k \in DOMAIN epochs /\ epochs[i].key <= epochs[k].key
        BY <1>4, <2>1, <3>2, Zenon
      <4>2. CASE epochs[i].key < epochs[k].key
        BY <1>3, <4>1, <4>2, <1>2
      <4>3. CASE epochs[i].key = epochs[k].key
        BY <1>3, <4>1, <4>3, <1>2
      <4> QED BY <1>3, <4>1, <4>2, <4>3
    <3> QED BY <3>1, <3>2, Zenon
  <2>3. PICK c \in later : /\ \A k \in later : epochs[c].at <= epochs[k].at
                           /\ KeyForSeq(n) = epochs[c].key
    BY <2>2, Zenon DEF KeyForSeq
  <2>4. /\ c \in DOMAIN epochs /\ honest[n] <= epochs[c].key
        /\ epochs[c].at <= epochs[i].at
    BY <1>4, <2>2, <2>3, Zenon
  <2>5. ~(epochs[i].key < epochs[c].key)
    <3>1. epochs[i].key < epochs[c].key => epochs[i].at < epochs[c].at
      BY <2>4, Zenon DEF KeysInv
    <3> QED BY <1>3, <2>4, <3>1
  <2> QED BY <1>3, <2>1, <2>3, <2>4, <2>5
<1> QED BY <1>5, <1>6, Zenon

-----------------------------------------------------------------------------
(* Facts about the state.                                                  *)

\* The lengths, domains and ranges that the invariant gives.
LEMMA Shapes ==
    ASSUME RowsInv, KeysInv
    PROVE  /\ Len(rows) \in Nat /\ DOMAIN rows = 1 .. Len(rows)
           /\ Len(honest) \in Nat /\ DOMAIN honest = 1 .. Len(honest)
           /\ key \in Nat /\ Len(honest) <= MaxRows /\ MaxRows \in Nat
           /\ \A n \in DOMAIN honest : honest[n] \in 0 .. key
           /\ \A i \in DOMAIN rows : rows[i].seq \in 1 .. Len(honest)
           /\ \A i \in DOMAIN rows : rows[i].seq \in Nat /\ rows[i].seq \in DOMAIN honest
<1>1. /\ Len(rows) \in Nat /\ DOMAIN rows = 1 .. Len(rows)
  BY DEF RowsInv
<1>2. /\ Len(honest) \in Nat /\ DOMAIN honest = 1 .. Len(honest) /\ key \in Nat
      /\ \A n \in DOMAIN honest : honest[n] \in 0 .. key
  BY VerifyAssumption DEF KeysInv
<1>3. \A i \in DOMAIN rows : rows[i].seq \in 1 .. Len(honest)
  BY DEF RowsInv, RowOK
<1> QED BY <1>1, <1>2, <1>3, VerifyAssumption DEF RowsInv

-----------------------------------------------------------------------------
(* A writer appends.                                                       *)

\* write_now adds one row at the end and changes nothing before it.
LEMMA WriteGrows ==
    ASSUME RowsInv, IntactInv, KeysInv, NEW ws \in Workspaces, NEW k, Write(ws, k)
    PROVE  LET last == Len(rows) + 1 IN
           /\ Len(rows) = Len(honest) /\ Len(honest) < MaxRows
           /\ Len(rows') = last /\ Len(honest') = last
           /\ DOMAIN rows' = 1 .. last /\ DOMAIN honest' = 1 .. last
           /\ rows' \in Seq(Range(rows')) /\ honest' \in Seq(0 .. key)
           /\ \A i \in DOMAIN rows : rows'[i] = rows[i] /\ honest'[i] = honest[i]
           /\ rows'[last] = [seq |-> last, ws |-> ws, prev |-> HashBefore(last),
                             hash |-> <<k, last, ws, HashBefore(last)>>]
           /\ honest'[last] = key
           /\ \A i \in 1 .. last : HashBefore(i)' = HashBefore(i)
           /\ \A i \in DOMAIN rows : Unsound(i)' = Unsound(i)
           /\ UNCHANGED <<key, epochs, anchors, walk, verdict, seal, changed>>
           /\ changed = 0
<1> DEFINE last == Len(rows) + 1
           new == [seq |-> last, ws |-> ws, prev |-> HashBefore(last),
                   hash |-> <<k, last, ws, HashBefore(last)>>]
<1>1. changed = 0 /\ Len(rows) = Len(honest) /\ Len(honest) < MaxRows
      /\ UNCHANGED <<key, epochs, anchors, walk, verdict, seal, changed>>
  BY Zenon DEF Write, IntactInv
<1>2. rows' = Append(rows, new) /\ honest' = Append(honest, key)
  BY <1>1 DEF Write, Hmac
<1>3. rows \in Seq(Range(rows)) /\ honest \in Seq(0 .. key) /\ key \in 0 .. key
  BY Shapes DEF RowsInv, KeysInv
<1>4. /\ rows' \in Seq(Range(rows')) /\ Len(rows') = last
      /\ \A i \in DOMAIN rows : rows'[i] = rows[i]
      /\ rows'[last] = new
  <2> HIDE DEF new
  <2>1. rows' = Append(rows, new) /\ rows \in Seq(Range(rows))
    BY <1>2, <1>3
  <2>2. /\ Append(rows, new) \in Seq(Range(Append(rows, new)))
        /\ Len(Append(rows, new)) = Len(rows) + 1
        /\ \A i \in DOMAIN rows : Append(rows, new)[i] = rows[i]
        /\ Append(rows, new)[Len(rows) + 1] = new
    BY <2>1, AppendFacts
  <2> QED BY <2>1, <2>2, Zenon
<1>5. /\ honest' \in Seq(0 .. key) /\ Len(honest') = last
      /\ \A i \in 1 .. Len(honest) : honest'[i] = honest[i]
      /\ honest'[last] = key
  BY <1>1, <1>2, <1>3, Shapes
<1>6. DOMAIN rows' = 1 .. last /\ DOMAIN honest' = 1 .. last /\ DOMAIN rows = 1 .. Len(rows)
      /\ DOMAIN rows = 1 .. Len(honest) /\ Len(rows) \in Nat
  BY <1>1, <1>4, <1>5, Shapes
<1>7. ASSUME NEW i \in 1 .. last PROVE HashBefore(i)' = HashBefore(i)
  <2>1. i # 1 => i - 1 \in DOMAIN rows
    BY <1>6
  <2> QED BY <1>4, <2>1, Zenon DEF HashBefore
<1>8. ASSUME NEW i \in DOMAIN rows PROVE Unsound(i)' = Unsound(i)
  <2>1. i \in 1 .. last /\ rows[i].seq \in 1 .. Len(honest)
    BY <1>6, Shapes
  <2>2. rows'[i] = rows[i] /\ HashBefore(i)' = HashBefore(i)
        /\ honest'[rows[i].seq] = honest[rows[i].seq]
    BY <1>4, <1>5, <1>7, <2>1, Zenon
  <2> QED BY <2>2, Zenon DEF Unsound
<1> QED BY <1>1, <1>4, <1>5, <1>6, <1>7, <1>8, Zenon

\* write_now keeps the chain linked and the keys resolvable.
LEMMA WriteRows ==
    ASSUME RowsInv, IntactInv, KeysInv, NEW ws \in Workspaces, NEW k, Write(ws, k)
    PROVE  RowsInv' /\ IntactInv' /\ KeysInv' /\ ChangeInv'
<1> DEFINE last == Len(rows) + 1
<1>1. /\ Len(rows) = Len(honest) /\ Len(honest) < MaxRows
      /\ Len(rows') = last /\ Len(honest') = last
      /\ DOMAIN rows' = 1 .. last /\ DOMAIN honest' = 1 .. last
  BY WriteGrows, Zenon
<1>2. /\ rows' \in Seq(Range(rows')) /\ honest' \in Seq(0 .. key)
      /\ \A i \in DOMAIN rows : rows'[i] = rows[i] /\ honest'[i] = honest[i]
      /\ \A i \in 1 .. last : HashBefore(i)' = HashBefore(i)
  BY WriteGrows, Zenon
<1>3. /\ rows'[last] = [seq |-> last, ws |-> ws, prev |-> HashBefore(last),
                        hash |-> <<k, last, ws, HashBefore(last)>>]
      /\ honest'[last] = key
  BY WriteGrows, Zenon
<1>4. changed = 0 /\ UNCHANGED <<key, epochs, changed>>
  BY WriteGrows, Zenon
<1>5. /\ DOMAIN rows = 1 .. Len(rows) /\ Len(rows) \in Nat /\ MaxRows \in Nat
      /\ DOMAIN honest = 1 .. Len(rows) /\ key \in Nat
  BY <1>1, Shapes
<1>6. \A i \in DOMAIN rows : rows[i].seq = i /\ rows[i].prev = HashBefore(i)
                             /\ rows[i].hash[3] = rows[i].ws
  BY <1>4, Zenon DEF IntactInv
<1>7. /\ rows'[last].seq = last /\ rows'[last].ws = ws /\ rows'[last].prev = HashBefore(last)
      /\ rows'[last].hash = <<k, last, ws, HashBefore(last)>>
      /\ rows'[last].hash[3] = ws
  BY <1>3
<1> HIDE DEF last
<1>8. last = Len(rows) + 1 /\ \A i \in 1 .. last : i \in DOMAIN rows \/ i = last
  BY <1>5 DEF last
<1>9. RowsInv'
  <2>1. ASSUME NEW i \in DOMAIN rows' PROVE RowOK(rows[i])'
    <3>1. CASE i \in DOMAIN rows
      <4>1. RowOK(rows[i]) /\ rows'[i] = rows[i]
        BY <1>2, <3>1, Zenon DEF RowsInv
      <4> QED BY <1>1, <1>5, <1>8, <4>1 DEF RowOK
    <3>2. CASE i = last
      <4>1. HashOf(rows'[last].hash, last)
        BY <1>7 DEF HashOf
      <4>2. CASE last = 1
        <5>1. rows'[last].prev = NoHash
          BY <1>7, <4>2, Zenon DEF HashBefore
        <5>2. rows'[last] \in [seq : 1 .. Len(honest'), ws : Workspaces,
                               prev : {rows'[last].prev}, hash : {rows'[last].hash}]
          BY <1>1, <1>3, <1>5, <1>8
        <5> QED BY <1>7, <3>2, <4>1, <4>2, <5>1, <5>2 DEF RowOK
      <4>3. CASE last # 1
        <5>1. last - 1 \in DOMAIN rows /\ rows[last - 1].seq = last - 1
          BY <1>5, <1>6, <1>8, <4>3
        <5>2. HashOf(rows[last - 1].hash, last - 1)
          BY <5>1, Zenon DEF RowsInv, RowOK
        <5>3. rows'[last].prev = rows[last - 1].hash
          BY <1>7, <4>3, Zenon DEF HashBefore
        <5>4. rows'[last] \in [seq : 1 .. Len(honest'), ws : Workspaces,
                               prev : {rows'[last].prev}, hash : {rows'[last].hash}]
          BY <1>1, <1>3, <1>5, <1>8
        <5> QED BY <1>7, <3>2, <4>1, <4>3, <5>2, <5>3, <5>4 DEF RowOK
      <4> QED BY <4>2, <4>3
    <3> QED BY <1>1, <1>8, <3>1, <3>2, Zenon
  <2>2. \A i \in DOMAIN rows' : rows'[i].seq = i
    BY <1>1, <1>2, <1>6, <1>7, <1>8, Zenon
  <2> QED BY <1>1, <1>2, <1>5, <1>8, <2>1, <2>2 DEF RowsInv
<1>10. IntactInv'
  <2>1. ASSUME NEW i \in DOMAIN rows'
        PROVE  rows'[i].seq = i /\ rows'[i].prev = HashBefore(i)'
               /\ rows'[i].hash[3] = rows'[i].ws
    <3>0. i \in 1 .. last
      BY <1>1, Zenon
    <3>1. CASE i \in DOMAIN rows
      <4>1. rows'[i] = rows[i] /\ HashBefore(i)' = HashBefore(i)
        BY <1>2, <3>0, <3>1, Zenon
      <4> QED BY <1>6, <3>1, <4>1, Zenon
    <3>2. CASE i = last
      <4>1. HashBefore(i)' = HashBefore(i) /\ HashBefore(i) = HashBefore(last)
        BY <1>2, <3>0, <3>2, Zenon
      <4> QED BY <1>7, <3>2, <4>1, Zenon
    <3> QED BY <1>8, <3>0, <3>1, <3>2, Zenon
  <2> QED BY <1>1, <2>1, Zenon DEF IntactInv
<1>11. KeysInv'
  <2>1. epochs \in Seq([at : 1 .. Len(honest) + 1, key : 0 .. key])
    BY Zenon DEF KeysInv
  <2>2. \A i \in DOMAIN epochs : epochs[i] \in [at : 1 .. Len(honest) + 1, key : 0 .. key]
    BY <2>1, ElementOf, Zenon
  <2>3. \A i \in DOMAIN epochs : epochs[i].at \in Nat /\ epochs[i].at <= last
                                 /\ epochs[i].key \in Nat /\ epochs[i].key < key
    <3>1. \A i \in DOMAIN epochs : epochs[i].key < key
      BY Zenon DEF KeysInv
    <3> QED BY <1>1, <1>5, <1>8, <2>2, <3>1
  <2>4. epochs' \in Seq([at : 1 .. Len(honest') + 1, key : 0 .. key'])
    <3>1. [at : 1 .. Len(honest) + 1, key : 0 .. key]
             \subseteq [at : 1 .. Len(honest') + 1, key : 0 .. key]
      BY <1>1, <1>5, <1>8
    <3>2. epochs \in Seq([at : 1 .. Len(honest') + 1, key : 0 .. key])
      BY <2>1, <3>1, SeqSubset, Zenon
    <3> QED BY <1>4, <3>2, Zenon
  <2>5. ASSUME NEW n \in DOMAIN honest', NEW i \in DOMAIN epochs
        PROVE  n < epochs[i].at <=> honest'[n] <= epochs[i].key
    <3>1. CASE n \in DOMAIN rows
      BY <1>1, <1>2, <1>5, <3>1, Zenon DEF KeysInv
    <3>2. CASE n = last
      BY <1>3, <1>5, <1>8, <2>3, <3>2 DEF last
    <3> QED BY <1>1, <1>8, <3>1, <3>2, Zenon
  <2> QED BY <1>2, <1>4, <2>4, <2>5, Zenon DEF KeysInv
<1>12. ChangeInv'
  BY <1>4, <1>5 DEF ChangeInv
<1> QED BY <1>9, <1>10, <1>11, <1>12

\* A row appended meanwhile is beyond what a verification has read or judged.
LEMMA WriteWalk ==
    ASSUME RowsInv, IntactInv, KeysInv, WalkInv, VerdictInv,
           NEW ws \in Workspaces, NEW k, Write(ws, k)
    PROVE  WalkInv' /\ VerdictInv'
<1> DEFINE last == Len(rows) + 1
<1>1. /\ Len(rows) = Len(honest) /\ Len(rows') = last /\ Len(honest') = last
      /\ DOMAIN rows' = 1 .. last
      /\ \A i \in DOMAIN rows : rows'[i] = rows[i] /\ (Unsound(i)' = Unsound(i))
      /\ \A i \in 1 .. last : HashBefore(i)' = HashBefore(i)
  BY WriteGrows, Zenon
<1>2. rows'[last].seq = last /\ changed = 0 /\ walk' = walk /\ verdict' = verdict
      /\ changed' = changed
  <2>1. rows'[last] = [seq |-> last, ws |-> ws, prev |-> HashBefore(last),
                       hash |-> <<k, last, ws, HashBefore(last)>>]
        /\ changed = 0 /\ UNCHANGED <<walk, verdict, changed>>
    BY WriteGrows, Zenon
  <2> QED BY <2>1
<1>3. DOMAIN rows = 1 .. Len(rows) /\ Len(rows) \in Nat
      /\ \A i \in DOMAIN rows : rows[i].seq \in Nat
  BY Shapes
<1> HIDE DEF last
<1>4. /\ last = Len(rows) + 1 /\ \A i \in 1 .. last : i \in DOMAIN rows \/ i = last
      /\ last \notin DOMAIN rows
  BY <1>3 DEF last
<1>5. ASSUME NEW a \in Nat \ {0}, NEW b \in 0 .. Len(honest),
             \A i \in DOMAIN rows : rows[i].seq \in a .. b => ~Unsound(i),
             NEW i \in DOMAIN rows', rows'[i].seq \in a .. b
      PROVE  ~Unsound(i)'
  <2>1. i # last
    BY <1>1, <1>2, <1>3, <1>4, <1>5
  <2>2. i \in DOMAIN rows
    BY <1>1, <1>4, <2>1, Zenon
  <2> QED BY <1>1, <1>5, <2>2, Zenon
<1>6. WalkInv'
  <2> SUFFICES ASSUME walk # None PROVE WalkInv'
    BY <1>2, Zenon DEF WalkInv
  <2>1. /\ walk \in [from : Nat \ {0}, after : 0 .. Len(honest), prev : {walk.prev}]
        /\ walk.from <= walk.after + 1
        /\ \A i \in DOMAIN rows : rows[i].seq \in walk.from .. walk.after => ~Unsound(i)
        /\ \A p \in 1 .. last : Frontier(p, walk.after) =>
              \/ walk.prev = HashBefore(p)
              \/ p \in DOMAIN rows /\ rows[p].prev \notin {walk.prev, HashBefore(p)}
    BY Zenon DEF WalkInv, last
  <2>2. walk.from \in Nat \ {0} /\ walk.after \in 0 .. Len(honest)
    BY <2>1
  <2>3. walk \in [from : Nat \ {0}, after : 0 .. Len(honest'), prev : {walk.prev}]
    BY <1>1, <1>3, <1>4, <2>1
  <2>4. \A i \in DOMAIN rows' : rows'[i].seq \in walk.from .. walk.after => ~Unsound(i)'
    BY <1>5, <2>1, <2>2, Zenon
  <2>5. ASSUME NEW p \in 1 .. Len(rows') + 1, Frontier(p, walk.after)'
        PROVE  \/ walk.prev = HashBefore(p)'
               \/ p \in DOMAIN rows' /\ rows'[p].prev \notin {walk.prev, HashBefore(p)'}
    <3>0. /\ p \in DOMAIN rows' => rows'[p].seq > walk.after
          /\ p > 1 => rows'[p - 1].seq <= walk.after
      BY <1>2, <2>5, Zenon DEF Frontier
    <3>1. CASE p \in 1 .. last
      <4>1. Frontier(p, walk.after)
        <5>1. p > 1 => p - 1 \in DOMAIN rows
          BY <1>3, <1>4, <3>1
        <5>2. p \in DOMAIN rows => p \in DOMAIN rows'
          BY <1>1, <3>1, Zenon
        <5> QED BY <1>1, <3>0, <5>1, <5>2, Zenon DEF Frontier
      <4>2. \/ walk.prev = HashBefore(p)
            \/ p \in DOMAIN rows /\ rows[p].prev \notin {walk.prev, HashBefore(p)}
        BY <2>1, <3>1, <4>1, Zenon
      <4> QED BY <1>1, <3>1, <4>2, Zenon
    <3>2. CASE p \notin 1 .. last
      BY <1>1, <1>2, <1>3, <1>4, <2>2, <3>0, <3>2
    <3> QED BY <3>1, <3>2
  <2> QED BY <1>2, <2>1, <2>3, <2>4, <2>5, Zenon DEF WalkInv
<1>7. VerdictInv'
  <2> SUFFICES ASSUME verdict # None PROVE VerdictInv'
    BY <1>2, Zenon DEF VerdictInv
  <2>1. /\ verdict.ok \in BOOLEAN /\ verdict.from \in Nat \ {0}
        /\ verdict.upto \in 0 .. Len(honest)
        /\ verdict.ok =>
              \A i \in DOMAIN rows : rows[i].seq \in verdict.from .. verdict.upto => ~Unsound(i)
        /\ ~verdict.ok =>
              \E i \in DOMAIN rows :
                 /\ Unsound(i) /\ verdict.from <= rows[i].seq
                 /\ verdict.bad = rows[i].seq /\ verdict.upto = rows[i].seq
                 /\ \A j \in DOMAIN rows : j < i /\ rows[j].seq >= verdict.from => ~Unsound(j)
    BY Zenon DEF VerdictInv
  <2>2. verdict.upto \in 0 .. Len(honest')
    BY <1>1, <1>3, <1>4, <2>1
  <2>3. verdict.ok => \A i \in DOMAIN rows' :
            rows'[i].seq \in verdict.from .. verdict.upto => ~Unsound(i)'
    BY <1>5, <2>1, Zenon
  <2>4. ASSUME ~verdict.ok
        PROVE  \E i \in DOMAIN rows' :
                 /\ Unsound(i)' /\ verdict.from <= rows'[i].seq
                 /\ verdict.bad = rows'[i].seq /\ verdict.upto = rows'[i].seq
                 /\ \A j \in DOMAIN rows' : j < i /\ rows'[j].seq >= verdict.from => ~Unsound(j)'
    <3>1. PICK i \in DOMAIN rows :
                 /\ Unsound(i) /\ verdict.from <= rows[i].seq
                 /\ verdict.bad = rows[i].seq /\ verdict.upto = rows[i].seq
                 /\ \A j \in DOMAIN rows : j < i /\ rows[j].seq >= verdict.from => ~Unsound(j)
      BY <2>1, <2>4, Zenon
    <3>2. i \in DOMAIN rows' /\ ~(last < i)
      BY <1>1, <1>3, <1>4
    <3>3. \A j \in DOMAIN rows' : j < i /\ rows'[j].seq >= verdict.from => ~Unsound(j)'
      BY <1>1, <1>4, <3>1, <3>2, Zenon
    <3> QED BY <1>1, <3>1, <3>2, <3>3, Zenon
  <2> QED BY <1>2, <2>1, <2>2, <2>3, <2>4, Zenon DEF VerdictInv
<1> QED BY <1>6, <1>7

-----------------------------------------------------------------------------
(* Steps that leave the table, or only a part of it, alone.                *)

\* A step that leaves the table alone leaves what is said of it.
LEMMA SameTable ==
    ASSUME UNCHANGED <<rows, honest, changed>>
    PROVE  /\ \A i : HashBefore(i)' = HashBefore(i)
           /\ \A i : Unsound(i)' = Unsound(i)
           /\ \A p, n : Frontier(p, n)' = Frontier(p, n)
           /\ RowsInv => RowsInv'
           /\ IntactInv => IntactInv'
           /\ ChangeInv => ChangeInv'
           /\ UNCHANGED <<key, epochs>> => (KeysInv => KeysInv')
           /\ UNCHANGED walk => (WalkInv => WalkInv')
           /\ UNCHANGED verdict => (VerdictInv => VerdictInv')
           /\ UNCHANGED seal => (SealInv => SealInv')
           /\ UNCHANGED anchors => (AnchorInv => AnchorInv')
<1>0. rows' = rows /\ honest' = honest /\ changed' = changed
  OBVIOUS
<1>1. \A i : HashBefore(i)' = HashBefore(i)
  BY <1>0, Zenon DEF HashBefore
<1>2. \A i : Unsound(i)' = Unsound(i)
  BY <1>0, Zenon DEF HashBefore, Unsound
<1>3. \A p, n : Frontier(p, n)' = Frontier(p, n)
  BY <1>0, Zenon DEF Frontier
<1>4. RowsInv => RowsInv'
  BY <1>0 DEF RowsInv, RowOK
<1>5. IntactInv => IntactInv'
  BY <1>0 DEF IntactInv, HashBefore
<1>6. ChangeInv => ChangeInv'
  BY <1>0 DEF ChangeInv, HashBefore, Unsound
<1>7. UNCHANGED <<key, epochs>> => (KeysInv => KeysInv')
  BY <1>0 DEF KeysInv
<1>8. UNCHANGED walk => (WalkInv => WalkInv')
  BY <1>0 DEF WalkInv, HashBefore, Unsound, Frontier
<1>9. UNCHANGED verdict => (VerdictInv => VerdictInv')
  BY <1>0 DEF VerdictInv, HashBefore, Unsound
<1>10. UNCHANGED seal => (SealInv => SealInv')
  BY <1>0, Zenon DEF SealInv
<1>11. UNCHANGED anchors => (AnchorInv => AnchorInv')
  BY <1>0, Zenon DEF AnchorInv
<1> QED
  BY <1>1, <1>2, <1>3, <1>4, <1>5, <1>6, <1>7, <1>8, <1>9, <1>10, <1>11, Zenon

\* Nothing changes when nothing changes.
LEMMA StutterStep == IndInv /\ UNCHANGED vars => IndInv'
  BY SameTable, Zenon DEF IndInv, vars

-----------------------------------------------------------------------------
(* The operator rotates the key.                                           *)

ListedWith(s, e, t) == t = <<e>> \o s \/ t = Append(s, e)

HasAll(s, e, t) ==
    /\ \A j \in DOMAIN t : t[j] = e \/ \E i \in DOMAIN s : t[j] = s[i]
    /\ \A i \in DOMAIN s : \E j \in DOMAIN t : t[j] = s[i]
    /\ \E j \in DOMAIN t : t[j] = e

\* An epoch listed before or after the others is one of the list.
LEMMA ListedAnywhere ==
    ASSUME NEW T, NEW s \in Seq(T), NEW e \in T, NEW t,
           ListedWith(s, e, t)
    PROVE  t \in Seq(T) /\ HasAll(s, e, t)
<1>1. CASE t = Append(s, e)
  <2>1. t \in Seq(T) /\ Len(t) = Len(s) + 1 /\ t[Len(s) + 1] = e
        /\ \A i \in 1 .. Len(s) : t[i] = s[i]
    BY <1>1
  <2>2. Len(s) \in Nat /\ DOMAIN s = 1 .. Len(s) /\ DOMAIN t = 1 .. Len(s) + 1
    BY <2>1
  <2>3. \A i \in DOMAIN s : i \in DOMAIN t
    BY <2>2
  <2>4. \A j \in DOMAIN t : j = Len(s) + 1 \/ j \in DOMAIN s
    BY <2>2
  <2>5. Len(s) + 1 \in DOMAIN t
    BY <2>2
  <2> QED BY <2>1, <2>2, <2>3, <2>4, <2>5, Zenon DEF HasAll
<1>2. CASE t = <<e>> \o s
  <2>1. t \in Seq(T) /\ Len(t) = Len(s) + 1 /\ t[1] = e
        /\ \A j \in 2 .. Len(s) + 1 : t[j] = s[j - 1]
    <3>1. <<e>> \in Seq(T) /\ Len(<<e>>) = 1
      OBVIOUS
    <3> QED BY <1>2, <3>1
  <2>2. Len(s) \in Nat /\ DOMAIN s = 1 .. Len(s) /\ DOMAIN t = 1 .. Len(s) + 1
    BY <2>1
  <2>3. ASSUME NEW i \in DOMAIN s PROVE \E j \in DOMAIN t : t[j] = s[i]
    <3>1. i + 1 \in DOMAIN t /\ t[i + 1] = s[i]
      BY <2>1, <2>2
    <3> QED BY <3>1, Zenon
  <2>4. ASSUME NEW j \in DOMAIN t PROVE t[j] = e \/ \E i \in DOMAIN s : t[j] = s[i]
    <3>1. j = 1 \/ (j \in 2 .. Len(s) + 1 /\ j - 1 \in DOMAIN s)
      BY <2>2
    <3> QED BY <2>1, <3>1, Zenon
  <2>5. 1 \in DOMAIN t
    BY <2>2
  <2> QED BY <2>1, <2>3, <2>4, <2>5, Zenon DEF HasAll
<1> QED BY <1>1, <1>2 DEF ListedWith

\* A rotation at the end of the chain gives the retired key its epoch.
LEMMA RotateKeys ==
    ASSUME RowsInv, KeysInv, Rotate
    PROVE  KeysInv'
<1> DEFINE n == Len(honest)
           retired == [at |-> n + 1, key |-> key]
           T == [at : 1 .. n + 1, key : 0 .. key + 1]
<1>1. /\ key < MaxRotations /\ honest # <<>> /\ honest[n] = key
      /\ epochs' \in {<<retired>> \o epochs, Append(epochs, retired)}
      /\ key' = key + 1 /\ honest' = honest
  BY Zenon DEF Rotate
<1>2. /\ honest \in Seq(0 .. key) /\ epochs \in Seq([at : 1 .. n + 1, key : 0 .. key])
      /\ key \in 0 .. MaxRotations
  BY Zenon DEF KeysInv
<1>3. /\ \A i \in DOMAIN epochs : epochs[i].key < key
      /\ \A k \in 0 .. key : k < key => \E i \in DOMAIN epochs : epochs[i].key = k
      /\ \A i, j \in DOMAIN epochs :
            /\ epochs[i].key < epochs[j].key => epochs[i].at < epochs[j].at
            /\ epochs[i].key = epochs[j].key => epochs[i].at = epochs[j].at
      /\ \A m \in DOMAIN honest : \A i \in DOMAIN epochs :
            m < epochs[i].at <=> honest[m] <= epochs[i].key
  BY Zenon DEF KeysInv
<1>4. /\ n \in Nat /\ n > 0 /\ DOMAIN honest = 1 .. n /\ key \in Nat
      /\ \A m \in DOMAIN honest : honest[m] \in 0 .. key
  BY <1>1, <1>2, Shapes
<1>5. /\ retired \in T /\ [at : 1 .. n + 1, key : 0 .. key] \subseteq T
      /\ retired.at = n + 1 /\ retired.key = key
  BY <1>4
<1> HIDE DEF retired, T
<1>6. epochs \in Seq(T)
  BY <1>2, <1>5, SeqSubset, Zenon
<1>7. /\ epochs' \in Seq(T)
      /\ \A j \in DOMAIN epochs' : epochs'[j] = retired \/ \E i \in DOMAIN epochs : epochs'[j] = epochs[i]
      /\ \A i \in DOMAIN epochs : \E j \in DOMAIN epochs' : epochs'[j] = epochs[i]
      /\ \E j \in DOMAIN epochs' : epochs'[j] = retired
  <2>1. ListedWith(epochs, retired, epochs')
    BY <1>1 DEF ListedWith
  <2>2. retired \in T
    BY <1>5
  <2>3. epochs' \in Seq(T) /\ HasAll(epochs, retired, epochs')
    BY <1>6, <2>1, <2>2, ListedAnywhere, Zenon
  <2> QED BY <2>3, Zenon DEF HasAll
<1>8. ASSUME NEW i \in DOMAIN epochs
      PROVE  epochs[i].at \in Nat /\ epochs[i].key \in Nat /\ epochs[i].at <= n
  <2>1. epochs[i] \in [at : 1 .. n + 1, key : 0 .. key]
    BY <1>2, ElementOf, Zenon
  <2>2. epochs[i].at \in Nat /\ epochs[i].key \in Nat
    BY <1>4, <2>1
  <2>3. n \in DOMAIN honest /\ ~(honest[n] <= epochs[i].key)
    BY <1>1, <1>3, <1>4, <2>2
  <2>4. ~(n < epochs[i].at)
    BY <1>3, <2>3, Zenon
  <2> QED BY <1>4, <2>2, <2>4
<1>9. key' \in 0 .. MaxRotations /\ honest' \in Seq(0 .. key')
  BY <1>1, <1>2, <1>4, SeqSubset, VerifyAssumption
<1>10. \A j \in DOMAIN epochs' : epochs'[j].key < key'
  BY <1>1, <1>3, <1>4, <1>5, <1>7, <1>8
<1>11. ASSUME NEW k \in 0 .. key', k < key'
       PROVE  \E j \in DOMAIN epochs' : epochs'[j].key = k
  <2>1. CASE k = key
    BY <1>5, <1>7, <2>1, Zenon
  <2>2. CASE k # key
    <3>1. k \in 0 .. key /\ k < key
      BY <1>1, <1>4, <1>11, <2>2
    <3>2. PICK i \in DOMAIN epochs : epochs[i].key = k
      BY <1>3, <3>1, Zenon
    <3> QED BY <1>7, <3>2, Zenon
  <2> QED BY <2>1, <2>2
<1>12. ASSUME NEW i \in DOMAIN epochs', NEW j \in DOMAIN epochs'
       PROVE  /\ epochs'[i].key < epochs'[j].key => epochs'[i].at < epochs'[j].at
              /\ epochs'[i].key = epochs'[j].key => epochs'[i].at = epochs'[j].at
  <2>1. CASE epochs'[i] = retired /\ epochs'[j] = retired
    BY <1>4, <1>5, <2>1
  <2>2. ASSUME NEW x \in DOMAIN epochs, epochs'[i] = epochs[x], epochs'[j] = retired
        PROVE  /\ epochs'[i].key < epochs'[j].key => epochs'[i].at < epochs'[j].at
               /\ epochs'[i].key = epochs'[j].key => epochs'[i].at = epochs'[j].at
    BY <1>3, <1>4, <1>5, <1>8, <2>2
  <2>3. ASSUME NEW x \in DOMAIN epochs, epochs'[j] = epochs[x], epochs'[i] = retired
        PROVE  /\ epochs'[i].key < epochs'[j].key => epochs'[i].at < epochs'[j].at
               /\ epochs'[i].key = epochs'[j].key => epochs'[i].at = epochs'[j].at
    BY <1>3, <1>4, <1>5, <1>8, <2>3
  <2>4. ASSUME NEW x \in DOMAIN epochs, NEW y \in DOMAIN epochs,
               epochs'[i] = epochs[x], epochs'[j] = epochs[y]
        PROVE  /\ epochs'[i].key < epochs'[j].key => epochs'[i].at < epochs'[j].at
               /\ epochs'[i].key = epochs'[j].key => epochs'[i].at = epochs'[j].at
    <3>1. /\ epochs[x].key < epochs[y].key => epochs[x].at < epochs[y].at
          /\ epochs[x].key = epochs[y].key => epochs[x].at = epochs[y].at
      BY <1>3, Zenon
    <3> QED BY <2>4, <3>1
  <2> QED BY <1>7, <2>1, <2>2, <2>3, <2>4, Zenon
<1>13. ASSUME NEW m \in DOMAIN honest', NEW j \in DOMAIN epochs'
       PROVE  m < epochs'[j].at <=> honest'[m] <= epochs'[j].key
  <2>1. m \in DOMAIN honest /\ honest'[m] = honest[m]
    BY <1>1, Zenon
  <2>2. CASE epochs'[j] = retired
    BY <1>4, <1>5, <2>1, <2>2
  <2>3. ASSUME NEW i \in DOMAIN epochs, epochs'[j] = epochs[i]
        PROVE  m < epochs'[j].at <=> honest'[m] <= epochs'[j].key
    BY <1>3, <2>1, <2>3, Zenon
  <2> QED BY <1>7, <2>2, <2>3, Zenon
<1>14. epochs' \in Seq([at : 1 .. Len(honest') + 1, key : 0 .. key'])
  BY <1>1, <1>7, Zenon DEF T
<1> QED BY <1>9, <1>10, <1>11, <1>12, <1>13, <1>14, Zenon DEF KeysInv

\* A rotation loses only what the restart loses.
LEMMA RotateStep == IndInv /\ Rotate => IndInv'
<1> SUFFICES ASSUME IndInv, Rotate PROVE IndInv'
  OBVIOUS
<1>1. /\ UNCHANGED <<rows, honest, changed>> /\ UNCHANGED anchors
      /\ walk' = None /\ verdict' = None /\ seal' = None
  BY Zenon DEF Rotate
<1>2. KeysInv'
  BY RotateKeys, Zenon DEF IndInv
<1>3. RowsInv' /\ IntactInv' /\ ChangeInv' /\ AnchorInv'
  BY <1>1, SameTable, Zenon DEF IndInv
<1>4. WalkInv' /\ VerdictInv' /\ SealInv'
  BY <1>1, Zenon DEF WalkInv, VerdictInv, SealInv
<1> QED BY <1>2, <1>3, <1>4, Zenon DEF IndInv

-----------------------------------------------------------------------------
(* The table is changed without a writer.                                  *)

\* Once the table was changed, nothing is said of the hashes that were read.
LEMMA ChangedSeals ==
    ASSUME SealInv, AnchorInv, UNCHANGED <<seal, anchors, honest>>, changed' # 0
    PROVE  SealInv' /\ AnchorInv'
<1>1. seal' = seal /\ anchors' = anchors /\ honest' = honest
  OBVIOUS
<1>2. SealInv'
  BY <1>1, Zenon DEF SealInv
<1>3. AnchorInv'
  BY <1>1, Zenon DEF AnchorInv
<1> QED BY <1>2, <1>3

\* An edited row no longer matches the workspace its hash covers.
LEMMA EditStep ==
    ASSUME IndInv, NEW n \in DOMAIN rows, Edit(n)
    PROVE  IndInv'
<1>1. PICK w \in Workspaces \ {rows[n].ws} : rows' = [rows EXCEPT ![n].ws = w]
  BY Zenon DEF Edit
<1>2. /\ changed = 0 /\ changed' = n /\ walk' = None /\ verdict' = None
      /\ UNCHANGED <<key, epochs, anchors, seal, honest>>
  BY Zenon DEF Edit
<1>3. RowsInv /\ IntactInv /\ KeysInv /\ SealInv /\ AnchorInv
  BY Zenon DEF IndInv
<1>4. /\ DOMAIN rows = 1 .. Len(rows) /\ Len(rows) \in Nat /\ Len(rows) = Len(honest)
      /\ Len(honest) <= MaxRows /\ MaxRows \in Nat /\ rows \in Seq(Range(rows))
  BY <1>2, <1>3, Shapes DEF IntactInv, RowsInv
<1>5. /\ \A i \in DOMAIN rows : RowOK(rows[i])
      /\ \A i \in DOMAIN rows : rows[i].seq = i /\ rows[i].hash[3] = rows[i].ws
  BY <1>2, <1>3, Zenon DEF RowsInv, IntactInv
<1>6. /\ DOMAIN rows' = DOMAIN rows /\ Len(rows') = Len(rows)
      /\ \A i \in DOMAIN rows : i # n => rows'[i] = rows[i]
      /\ rows'[n] = [rows[n] EXCEPT !.ws = w]
  BY <1>1, <1>4
<1>7. /\ rows'[n].seq = n /\ rows'[n].ws = w
      /\ rows'[n].prev = rows[n].prev /\ rows'[n].hash = rows[n].hash
      /\ rows'[n] \in [seq : 1 .. Len(honest), ws : Workspaces,
                       prev : {rows'[n].prev}, hash : {rows'[n].hash}]
  <2>1. rows[n] \in [seq : 1 .. Len(honest), ws : Workspaces,
                     prev : {rows[n].prev}, hash : {rows[n].hash}]
    BY <1>5, Zenon DEF RowOK
  <2> QED BY <1>5, <1>6, <2>1
<1>8. rows' \in Seq(Range(rows'))
  <2>1. \A i \in DOMAIN rows' : rows'[i] \in Range(rows')
    BY DEF Range
  <2>2. rows' = [i \in 1 .. Len(rows) |-> rows'[i]]
    BY <1>1, <1>4, <1>6
  <2> QED BY <1>4, <1>6, <2>1, <2>2
<1>9. RowsInv'
  <2>1. ASSUME NEW i \in DOMAIN rows' PROVE RowOK(rows[i])'
    <3>1. CASE i = n
      <4>1. HashOf(rows[n].hash, n)
            /\ IF n = 1 THEN rows[n].prev = NoHash ELSE HashOf(rows[n].prev, n - 1)
        BY <1>5, Zenon DEF RowOK
      <4> QED BY <1>2, <1>7, <3>1, <4>1, Zenon DEF RowOK
    <3>2. CASE i # n
      BY <1>2, <1>5, <1>6, <3>2, Zenon DEF RowOK
    <3> QED BY <3>1, <3>2
  <2>2. ASSUME NEW i \in DOMAIN rows' PROVE rows'[i].seq = i
    <3>1. CASE i = n
      BY <1>7, <3>1, Zenon
    <3>2. CASE i # n
      <4>1. i \in DOMAIN rows /\ rows'[i] = rows[i]
        BY <1>6, <3>2, Zenon
      <4> QED BY <1>5, <4>1, Zenon
    <3> QED BY <3>1, <3>2
  <2> QED BY <1>2, <1>4, <1>6, <1>8, <2>1, <2>2 DEF RowsInv
<1>10. n # 0 /\ n \in 0 .. MaxRows
  BY <1>4
<1>11. ChangeInv'
  <2>1. rows[n].hash[3] # w
    BY <1>1, <1>5
  <2>2. rows'[n].hash # Hmac(honest[n], rows'[n])
    BY <1>7, <2>1 DEF Hmac
  <2>3. Unsound(n)'
    BY <1>2, <1>7, <2>2, Zenon DEF Unsound, Hmac
  <2> QED BY <1>2, <1>6, <1>10, <2>3, Zenon DEF ChangeInv
<1>12. SealInv' /\ AnchorInv'
  BY <1>2, <1>3, <1>10, ChangedSeals
<1>13. IntactInv' /\ WalkInv' /\ VerdictInv'
  BY <1>2, <1>10, Zenon DEF IntactInv, WalkInv, VerdictInv
<1>14. KeysInv'
  BY <1>2, <1>3, Zenon DEF KeysInv
<1> QED BY <1>9, <1>11, <1>12, <1>13, <1>14, Zenon DEF IndInv

\* Where a row is missing, the one after it names a hash that is not there.
LEMMA RemoveStep ==
    ASSUME IndInv, NEW n \in DOMAIN rows, RemoveRow(n)
    PROVE  IndInv'
<1>1. rows' = [i \in 1 .. Len(rows) - 1 |-> rows[IF i < n THEN i ELSE i + 1]]
  BY Zenon DEF RemoveRow
<1>2. /\ changed = 0 /\ changed' = n /\ walk' = None /\ verdict' = None
      /\ UNCHANGED <<key, epochs, anchors, seal, honest>>
  BY Zenon DEF RemoveRow
<1>3. RowsInv /\ IntactInv /\ KeysInv /\ SealInv /\ AnchorInv
  BY Zenon DEF IndInv
<1>4. /\ DOMAIN rows = 1 .. Len(rows) /\ Len(rows) \in Nat /\ Len(rows) = Len(honest)
      /\ Len(honest) <= MaxRows /\ MaxRows \in Nat
  BY <1>2, <1>3, Shapes DEF IntactInv
<1>5. /\ \A i \in DOMAIN rows : RowOK(rows[i])
      /\ \A i \in DOMAIN rows : rows[i].seq = i /\ rows[i].prev = HashBefore(i)
  BY <1>2, <1>3, Zenon DEF RowsInv, IntactInv
<1>6. DOMAIN rows' = 1 .. Len(rows) - 1 /\ rows' \in Seq(Range(rows'))
  <2>1. \A i \in DOMAIN rows' : rows'[i] \in Range(rows')
    BY DEF Range
  <2>2. DOMAIN rows' = 1 .. Len(rows) - 1 /\ Len(rows) - 1 \in Nat
    BY <1>1, <1>4
  <2>3. rows' = [i \in 1 .. Len(rows) - 1 |-> rows'[i]]
    BY <1>1, <2>2
  <2> QED BY <2>1, <2>2, <2>3
<1>7. ASSUME NEW i \in DOMAIN rows'
      PROVE  \/ i < n /\ i \in DOMAIN rows /\ rows'[i] = rows[i] /\ rows'[i].seq = i
             \/ i >= n /\ i + 1 \in DOMAIN rows /\ rows'[i] = rows[i + 1] /\ rows'[i].seq = i + 1
  <2>1. rows'[i] = rows[IF i < n THEN i ELSE i + 1]
    BY <1>1, <1>6, Zenon
  <2>2. CASE i < n
    <3>1. i \in DOMAIN rows
      BY <1>4, <1>6
    <3> QED BY <1>5, <2>1, <2>2, <3>1, Zenon
  <2>3. CASE ~(i < n)
    <3>1. i + 1 \in DOMAIN rows /\ i >= n
      BY <1>4, <1>6, <2>3
    <3>2. rows'[i] = rows[i + 1]
      BY <2>1, <2>3, Zenon
    <3> QED BY <1>5, <3>1, <3>2, Zenon
  <2> QED BY <2>2, <2>3
<1>8. RowsInv'
  <2>1. ASSUME NEW i \in DOMAIN rows' PROVE RowOK(rows[i])'
    <3>1. PICK j \in DOMAIN rows : rows'[i] = rows[j]
      BY <1>7, Zenon
    <3>2. RowOK(rows[j])
      BY <1>5, Zenon
    <3> QED BY <1>2, <3>1, <3>2, Zenon DEF RowOK
  <2>2. ASSUME NEW i \in DOMAIN rows', NEW k \in DOMAIN rows', i < k
        PROVE  rows'[i].seq < rows'[k].seq
    BY <1>4, <1>6, <1>7, <2>2
  <2> QED BY <1>2, <1>4, <1>6, <2>1, <2>2, Zenon DEF RowsInv
<1>9. n # 0 /\ n \in 0 .. MaxRows
  BY <1>4
<1>10. ChangeInv'
  <2>1. CASE n = Len(rows)
    <3>1. \A i \in DOMAIN rows' : rows'[i].seq < n
      BY <1>4, <1>6, <1>7, <2>1
    <3> QED BY <1>2, <1>9, <3>1, Zenon DEF ChangeInv
  <2>2. CASE n # Len(rows)
    <3>1. n \in DOMAIN rows' /\ n + 1 \in DOMAIN rows /\ ~(n < n) /\ n + 1 # 1 /\ (n + 1) - 1 = n
      BY <1>4, <1>6, <2>2
    <3>2. rows'[n] = rows[n + 1] /\ rows'[n].prev = rows[n].hash
      BY <1>5, <1>7, <3>1, Zenon DEF HashBefore
    <3>3. HashOf(rows[n].hash, n)
      BY <1>5, Zenon DEF RowOK
    <3>4. rows'[n].prev # HashBefore(n)'
      <4>1. CASE n = 1
        <5>1. HashBefore(n)' = <<>>
          BY <4>1, Zenon DEF HashBefore, NoHash
        <5> QED BY <3>2, <3>3, <5>1 DEF HashOf
      <4>2. CASE n # 1
        <5>1. n - 1 \in DOMAIN rows' /\ n - 1 < n /\ n - 1 # n /\ ~(n - 1 >= n)
          BY <1>4, <1>6, <3>1, <4>2
        <5>2. n - 1 \in DOMAIN rows /\ rows'[n - 1] = rows[n - 1]
          BY <1>7, <5>1, Zenon
        <5>3. HashBefore(n)' = rows[n - 1].hash
          BY <4>2, <5>2, Zenon DEF HashBefore
        <5>4. HashOf(rows[n - 1].hash, n - 1)
          BY <1>5, <5>2, Zenon DEF RowOK
        <5>5. rows[n].hash[2] = n /\ rows[n - 1].hash[2] = n - 1
          BY <3>3, <5>4 DEF HashOf
        <5> QED BY <3>2, <5>1, <5>3, <5>5, Zenon
      <4> QED BY <4>1, <4>2
    <3>5. Unsound(n)'
      BY <3>4, Zenon DEF Unsound
    <3> QED BY <1>2, <1>9, <3>1, <3>5, Zenon DEF ChangeInv
  <2> QED BY <2>1, <2>2
<1>11. SealInv' /\ AnchorInv'
  BY <1>2, <1>3, <1>9, ChangedSeals
<1>12. IntactInv' /\ WalkInv' /\ VerdictInv'
  BY <1>2, <1>9, Zenon DEF IntactInv, WalkInv, VerdictInv
<1>13. KeysInv'
  BY <1>2, <1>3, Zenon DEF KeysInv
<1> QED BY <1>8, <1>10, <1>11, <1>12, <1>13, Zenon DEF IndInv

-----------------------------------------------------------------------------
(* Finite sets of positions: their order, first and last members, and the  *)
(* hashes read in that order.                                              *)

INSTANCE FiniteSetTheorems

\* A proper subset of a finite set is smaller.
LEMMA SmallerSubset ==
    ASSUME NEW U, IsFiniteSet(U), NEW V \in SUBSET U, V # U
    PROVE  Cardinality(V) < Cardinality(U)
<1>1. Cardinality(V) <= Cardinality(U) /\ Cardinality(U) # Cardinality(V)
  BY FS_Subset, Zenon
<1>2. Cardinality(V) \in Nat /\ Cardinality(U) \in Nat
  BY FS_Subset, FS_CardinalityType, Zenon
<1> QED BY <1>1, <1>2

\* The rank of a member is below the size of the set and grows with it.
LEMMA BelowOK ==
    ASSUME NEW S \in SUBSET Nat, IsFiniteSet(S)
    PROVE  /\ Cardinality(S) \in Nat
           /\ \A m \in S : IsFiniteSet(Below(S, m)) /\ Cardinality(Below(S, m)) \in Nat
           /\ \A m \in S : Cardinality(Below(S, m)) < Cardinality(S)
           /\ \A m, n \in S : n < m => Cardinality(Below(S, n)) < Cardinality(Below(S, m))
<1>1. \A m \in S : Below(S, m) \in SUBSET S /\ m \notin Below(S, m)
  <2>1. \A m \in S : ~(m < m)
    OBVIOUS
  <2> QED BY <2>1, Zenon DEF Below
<1>2. \A m \in S : IsFiniteSet(Below(S, m)) /\ Cardinality(Below(S, m)) \in Nat
  BY <1>1, FS_Subset, FS_CardinalityType, Zenon
<1>3. \A m \in S : Cardinality(Below(S, m)) < Cardinality(S)
  BY <1>1, SmallerSubset, Zenon
<1>4. ASSUME NEW m \in S, NEW n \in S, n < m
      PROVE  Cardinality(Below(S, n)) < Cardinality(Below(S, m))
  <2>1. \A a, b, c \in Nat : c < a /\ a < b => c < b
    OBVIOUS
  <2>2. Below(S, n) \in SUBSET Below(S, m) /\ n \in Below(S, m)
    BY <1>4, <2>1, Zenon DEF Below
  <2> QED BY <1>1, <1>2, <2>2, SmallerSubset, Zenon
<1> QED BY <1>2, <1>3, <1>4, FS_CardinalityType, Zenon

\* A finite set of numbers has exactly one member of each rank.
LEMMA NthOK ==
    ASSUME NEW S \in SUBSET Nat, IsFiniteSet(S), NEW i \in 1 .. Cardinality(S)
    PROVE  /\ Nth(S, i) \in S /\ Cardinality(Below(S, Nth(S, i))) = i - 1
           /\ \A m \in S : Cardinality(Below(S, m)) = i - 1 => m = Nth(S, i)
<1> DEFINE rank == [m \in S |-> Cardinality(Below(S, m))]
           T == 0 .. (Cardinality(S) - 1)
<1>1. Cardinality(S) \in Nat
  BY BelowOK, Zenon
<1>2. \A m, n \in S : Cardinality(Below(S, m)) = Cardinality(Below(S, n)) => m = n
  <2>1. \A a, b \in Nat : (a # b => a < b \/ b < a) /\ (a < b => a # b)
    OBVIOUS
  <2>2. \A m \in S : m \in Nat /\ Cardinality(Below(S, m)) \in Nat
    BY BelowOK, Zenon
  <2> QED BY <2>1, <2>2, BelowOK, Zenon
<1>3. rank \in Injection(S, T)
  <2>1. \A m \in S : Cardinality(Below(S, m)) \in T
    <3>1. \A a, c \in Nat : a < c => a \in 0 .. (c - 1)
      OBVIOUS
    <3> QED BY <1>1, <3>1, BelowOK, Zenon
  <2> QED BY <1>2, <2>1, Zenon DEF Injection, IsInjective
<1>4. IsFiniteSet(T) /\ Cardinality(T) = Cardinality(S)
  <2>1. 0 \in Int /\ Cardinality(S) - 1 \in Int
    BY <1>1
  <2>2. /\ IsFiniteSet(T)
        /\ Cardinality(T) = IF 0 > Cardinality(S) - 1 THEN 0 ELSE Cardinality(S) - 1 - 0 + 1
    BY <2>1, FS_Interval, Zenon
  <2> QED BY <1>1, <2>2
<1>5. rank \in Surjection(S, T)
  BY <1>3, <1>4, FS_Injection, Zenon
<1>6. i - 1 \in T
  BY <1>1
<1>7. \E m \in S : Cardinality(Below(S, m)) = i - 1
  BY <1>5, <1>6, Zenon DEF Surjection
<1>8. Nth(S, i) \in S /\ Cardinality(Below(S, Nth(S, i))) = i - 1
  BY <1>7, Zenon DEF Nth
<1> QED BY <1>2, <1>8, Zenon

\* A finite set of numbers has a least member.
LEMMA MinOK ==
    ASSUME NEW S \in SUBSET Nat, IsFiniteSet(S), S # {}
    PROVE  Min(S) \in S /\ \A y \in S : Min(S) <= y
<1>1. Cardinality(S) \in Nat /\ Cardinality(S) # 0
  BY FS_EmptySet, FS_CardinalityType, Zenon
<1>2. 1 \in 1 .. Cardinality(S) /\ 1 - 1 = 0
  BY <1>1
<1>3. PICK m \in S : Cardinality(Below(S, m)) = 0
  <2>1. Nth(S, 1) \in S /\ Cardinality(Below(S, Nth(S, 1))) = 1 - 1
    BY <1>2, NthOK, Zenon
  <2> QED BY <1>2, <2>1, Zenon
<1>4. Below(S, m) = {}
  BY <1>3, BelowOK, FS_EmptySet, Zenon
<1>5. \A y \in S : ~(y < m)
  BY <1>4, Zenon DEF Below
<1>6. \A y \in S : m <= y
  BY <1>5
<1> QED BY <1>6, Zenon DEF Min

\* A finite set of numbers has a greatest member.
LEMMA MaxOK ==
    ASSUME NEW S \in SUBSET Nat, IsFiniteSet(S), S # {}
    PROVE  Max(S) \in S /\ \A y \in S : Max(S) >= y
<1>1. Cardinality(S) \in Nat /\ Cardinality(S) # 0
  BY FS_EmptySet, FS_CardinalityType, Zenon
<1>2. Cardinality(S) \in 1 .. Cardinality(S)
  BY <1>1
<1>3. PICK m \in S : Cardinality(Below(S, m)) = Cardinality(S) - 1
  <2>1. ASSUME NEW i \in 1 .. Cardinality(S)
        PROVE  \E m \in S : Cardinality(Below(S, m)) = i - 1
    <3>1. Nth(S, i) \in S /\ Cardinality(Below(S, Nth(S, i))) = i - 1
      BY NthOK, Zenon
    <3> QED BY <3>1, Zenon
  <2> QED BY <1>2, <2>1, Zenon
<1>4. ASSUME NEW y \in S PROVE m >= y
  <2>1. m < y => Cardinality(Below(S, m)) < Cardinality(Below(S, y))
    BY BelowOK, Zenon
  <2>2. Cardinality(Below(S, y)) < Cardinality(S) /\ Cardinality(Below(S, y)) \in Nat
    BY BelowOK, Zenon
  <2> QED BY <1>1, <1>3, <2>1, <2>2
<1> QED BY <1>4, Zenon DEF Max

\* Sequences with the same elements are equal.
LEMMA SameSeq ==
    ASSUME NEW T, NEW s \in Seq(T), NEW t \in Seq(T), Len(s) = Len(t),
           \A i \in 1 .. Len(t) : s[i] = t[i]
    PROVE  s = t
  OBVIOUS

\* A function on 1 .. n is a sequence.
LEMMA FunSeq ==
    ASSUME NEW n \in Nat, NEW T, NEW f, f = [i \in 1 .. n |-> f[i]], \A i \in 1 .. n : f[i] \in T
    PROVE  f \in Seq(T) /\ Len(f) = n
  OBVIOUS

\* One hash is read for each position.
LEMMA HashesSeq ==
    ASSUME NEW S \in SUBSET Nat, IsFiniteSet(S), NEW r, NEW T, \A n \in S : r[n].hash \in T
    PROVE  /\ HashesOn(r, S) \in Seq(T) /\ Len(HashesOn(r, S)) = Cardinality(S)
           /\ \A i \in 1 .. Cardinality(S) : HashesOn(r, S)[i] = r[Nth(S, i)].hash
<1>1. Cardinality(S) \in Nat
  BY BelowOK, Zenon
<1>2. \A i \in 1 .. Cardinality(S) : HashesOn(r, S)[i] = r[Nth(S, i)].hash
  BY Zenon DEF HashesOn
<1>3. HashesOn(r, S) = [i \in 1 .. Cardinality(S) |-> HashesOn(r, S)[i]]
  BY Zenon DEF HashesOn
<1>4. \A i \in 1 .. Cardinality(S) : HashesOn(r, S)[i] \in T
  BY <1>2, NthOK, Zenon
<1> QED BY <1>1, <1>2, <1>3, <1>4, FunSeq, Zenon

\* Rows that kept their hashes read the same.
LEMMA HashesKept ==
    ASSUME NEW S \in SUBSET Nat, IsFiniteSet(S), NEW r, NEW q,
           \A n \in S : r[n].hash = q[n].hash
    PROVE  HashesOn(r, S) = HashesOn(q, S)
<1>1. \A i \in 1 .. Cardinality(S) : r[Nth(S, i)].hash = q[Nth(S, i)].hash
  BY NthOK, Zenon
<1> QED BY <1>1, Zenon DEF HashesOn

\* No positions, no hashes.
LEMMA NoHashes == ASSUME NEW r PROVE HashesOn(r, {}) = <<>>
<1>1. Cardinality({}) = 0
  BY FS_EmptySet, Zenon
<1> QED BY <1>1 DEF HashesOn

\* Reading positions in two goes is reading them in one.
LEMMA HashesConcat ==
    ASSUME NEW A \in SUBSET Nat, IsFiniteSet(A), NEW B \in SUBSET Nat, IsFiniteSet(B),
           \A a \in A, b \in B : a < b, NEW r
    PROVE  HashesOn(r, A) \o HashesOn(r, B) = HashesOn(r, A \cup B)
<1> DEFINE C == A \cup B
           T == {r[n].hash : n \in C}
           u == HashesOn(r, C)
           s == HashesOn(r, A)
           t == HashesOn(r, B)
<1>1. /\ A \cap B = {} /\ IsFiniteSet(C) /\ C \in SUBSET Nat
      /\ Cardinality(C) = Cardinality(A) + Cardinality(B)
      /\ Cardinality(A) \in Nat /\ Cardinality(B) \in Nat
  <2>1. A \cap B = {}
    <3>1. \A a \in Nat : ~(a < a)
      OBVIOUS
    <3> QED BY <3>1, Zenon
  <2>2. /\ IsFiniteSet(C)
        /\ Cardinality(C) = Cardinality(A) + Cardinality(B) - Cardinality({})
    BY <2>1, FS_Union, Zenon
  <2>3. Cardinality(A) \in Nat /\ Cardinality(B) \in Nat /\ Cardinality({}) = 0
    BY BelowOK, FS_EmptySet, Zenon
  <2>4. C \in SUBSET Nat
    BY Zenon
  <2> HIDE DEF C
  <2> QED BY <2>1, <2>2, <2>3, <2>4
<1>2. \A n \in A : n \in C /\ r[n].hash \in T
  BY Zenon
<1>3. \A n \in B : n \in C /\ r[n].hash \in T
  BY Zenon
<1>4. \A n \in C : r[n].hash \in T
  BY Zenon
<1>5. \A m \in A : Below(C, m) = Below(A, m)
  <2>1. \A a, b \in Nat : a < b => ~(b < a)
    OBVIOUS
  <2> QED BY <2>1 DEF Below
<1>6. \A m \in B : Below(C, m) = A \cup Below(B, m)
  BY Zenon DEF Below
<1> HIDE DEF C, T
<1>7. ASSUME NEW i \in 1 .. Cardinality(A) PROVE Nth(C, i) = Nth(A, i)
  <2>1. i \in 1 .. Cardinality(C)
    BY <1>1
  <2>2. Nth(A, i) \in A /\ Cardinality(Below(A, Nth(A, i))) = i - 1
    BY NthOK, Zenon
  <2>3. Nth(A, i) \in C /\ Cardinality(Below(C, Nth(A, i))) = i - 1
    BY <1>2, <1>5, <2>2, Zenon
  <2> QED BY <1>1, <2>1, <2>3, NthOK, Zenon
<1>8. ASSUME NEW j \in 1 .. Cardinality(B) PROVE Nth(C, Cardinality(A) + j) = Nth(B, j)
  <2>1. Cardinality(A) + j \in 1 .. Cardinality(C)
    BY <1>1
  <2> DEFINE m == Nth(B, j)
  <2>2. m \in B /\ Cardinality(Below(B, m)) = j - 1 /\ IsFiniteSet(Below(B, m))
    BY NthOK, BelowOK, Zenon
  <2> HIDE DEF m
  <2>3. Below(B, m) \in SUBSET B /\ A \cap Below(B, m) = {}
    BY <1>1, Zenon DEF Below
  <2>4. Cardinality(Below(C, m)) = Cardinality(A) + Cardinality(Below(B, m)) - Cardinality({})
    <3>1. Cardinality(A \cup Below(B, m))
            = Cardinality(A) + Cardinality(Below(B, m)) - Cardinality(A \cap Below(B, m))
      BY <2>2, FS_Union, Zenon
    <3>2. Below(C, m) = A \cup Below(B, m)
      BY <1>6, <2>2, Zenon
    <3> QED BY <2>3, <3>1, <3>2, Zenon
  <2>5. Cardinality({}) = 0
    BY FS_EmptySet, Zenon
  <2>6. Cardinality(Below(C, m)) = (Cardinality(A) + j) - 1
    BY <1>1, <2>2, <2>4, <2>5
  <2>7. m \in C
    BY <1>3, <2>2, Zenon
  <2>8. m = Nth(C, Cardinality(A) + j)
    <3>1. ASSUME NEW k \in 1 .. Cardinality(C), Cardinality(Below(C, m)) = k - 1
          PROVE  m = Nth(C, k)
      BY <1>1, <2>7, <3>1, NthOK, Zenon
    <3> QED BY <2>1, <2>6, <3>1, Zenon
  <2> QED BY <2>8 DEF m
<1>9. /\ u \in Seq(T) /\ Len(u) = Cardinality(C)
      /\ \A i \in 1 .. Cardinality(C) : u[i] = r[Nth(C, i)].hash
  BY <1>1, <1>4, HashesSeq, Zenon
<1>10. /\ s \in Seq(T) /\ Len(s) = Cardinality(A)
       /\ \A i \in 1 .. Cardinality(A) : s[i] = r[Nth(A, i)].hash
  BY <1>2, HashesSeq, Zenon
<1>11. /\ t \in Seq(T) /\ Len(t) = Cardinality(B)
       /\ \A i \in 1 .. Cardinality(B) : t[i] = r[Nth(B, i)].hash
  BY <1>3, HashesSeq, Zenon
<1> HIDE DEF u, s, t
<1>12. \A i \in 1 .. Len(s) : u[i] = s[i]
  <2>1. \A i \in 1 .. Cardinality(A) : i \in 1 .. Cardinality(C)
    BY <1>1
  <2> QED BY <1>7, <1>9, <1>10, <2>1, Zenon
<1>13. \A j \in 1 .. Len(t) : u[Len(s) + j] = t[j]
  <2>1. \A j \in 1 .. Cardinality(B) : Cardinality(A) + j \in 1 .. Cardinality(C)
    BY <1>1
  <2>2. ASSUME NEW j \in 1 .. Cardinality(B) PROVE u[Cardinality(A) + j] = t[j]
    <3>1. u[Cardinality(A) + j] = r[Nth(C, Cardinality(A) + j)].hash
      BY <1>9, <2>1, Zenon
    <3>2. t[j] = r[Nth(B, j)].hash
      BY <1>11, Zenon
    <3> QED BY <1>8, <3>1, <3>2, Zenon
  <2> QED BY <1>10, <1>11, <2>2, Zenon
<1>14. s \o t = u
  <2>0. s \in Seq(T) /\ t \in Seq(T) /\ u \in Seq(T)
    BY <1>9, <1>10, <1>11, Zenon
  <2>1. s \o t \in Seq(T) /\ Len(s \o t) = Len(s) + Len(t)
    BY <2>0
  <2>2. Len(u) = Len(s) + Len(t) /\ Len(s) \in Nat /\ Len(t) \in Nat
    BY <1>1, <1>9, <1>10, <1>11
  <2>3. ASSUME NEW i \in 1 .. Len(u) PROVE (s \o t)[i] = u[i]
    <3>1. CASE i <= Len(s)
      BY <1>12, <2>0, <2>2, <3>1
    <3>2. CASE ~(i <= Len(s))
      <4>1. i - Len(s) \in 1 .. Len(t) /\ Len(s) + (i - Len(s)) = i
        BY <2>2, <3>2
      <4>2. u[i] = t[i - Len(s)]
        BY <1>13, <4>1, Zenon
      <4> QED BY <2>0, <2>2, <3>2, <4>1, <4>2
    <3> QED BY <3>1, <3>2
  <2> QED BY <2>0, <2>1, <2>2, <2>3, SameSeq, Zenon
<1> QED BY <1>14 DEF s, t, u, C

-----------------------------------------------------------------------------
(* Pages of rows.                                                          *)

\* A set of positions is finite.
LEMMA Positions ==
    ASSUME RowsInv, KeysInv, NEW S \in SUBSET (DOMAIN rows)
    PROVE  S \in SUBSET Nat /\ IsFiniteSet(S)
<1>1. DOMAIN rows = 1 .. Len(rows) /\ Len(rows) \in Nat
  BY Shapes, Zenon
<1>2. S \in SUBSET Nat /\ \A s \in S : s <= Len(rows)
  BY <1>1
<1> QED BY <1>1, <1>2, FS_BoundedSetOfNaturals, Zenon

\* A page of audit_scan is the beginning of the rows after its cursor.
LEMMA ScanOK ==
    ASSUME RowsInv, KeysInv, NEW after \in Nat, NEW limit \in Nat \ {0}
    PROVE  LET page == Scan(after, limit) IN
           /\ page \in SUBSET (DOMAIN rows) /\ page \in SUBSET Nat /\ IsFiniteSet(page)
           /\ \A i \in page : rows[i].seq > after
           /\ \A i \in page : \A k \in DOMAIN rows : k < i /\ rows[k].seq > after => k \in page
           /\ page = {} => \A i \in DOMAIN rows : rows[i].seq <= after
<1> DEFINE later == {i \in DOMAIN rows : rows[i].seq > after}
           page == Scan(after, limit)
<1>1. page = {i \in later : Cardinality(Below(later, i)) < limit}
  BY Zenon DEF Scan, Below
<1>2. later \in SUBSET (DOMAIN rows) /\ page \in SUBSET later
  BY <1>1, Zenon
<1>3. later \in SUBSET Nat /\ IsFiniteSet(later)
  BY <1>2, Positions, Zenon
<1>4. page \in SUBSET (DOMAIN rows) /\ page \in SUBSET Nat /\ IsFiniteSet(page)
  BY <1>2, Positions, Zenon
<1>5. \A i \in page : rows[i].seq > after
  BY <1>2, Zenon
<1>6. ASSUME NEW i \in page, NEW k \in DOMAIN rows, k < i, rows[k].seq > after
      PROVE  k \in page
  <2>1. k \in later /\ i \in later /\ Cardinality(Below(later, i)) < limit
    BY <1>1, <1>6, Zenon
  <2> HIDE DEF later, page
  <2>2. /\ Cardinality(Below(later, k)) < Cardinality(Below(later, i))
        /\ Cardinality(Below(later, k)) \in Nat /\ Cardinality(Below(later, i)) \in Nat
    BY <1>3, <1>6, <2>1, BelowOK, Zenon
  <2>3. Cardinality(Below(later, k)) < limit
    BY <2>1, <2>2
  <2> QED BY <1>1, <2>1, <2>3, Zenon
<1>7. ASSUME page = {}, NEW i \in DOMAIN rows PROVE rows[i].seq <= after
  <2>1. ASSUME i \in later PROVE FALSE
    <3> HIDE DEF later, page
    <3>1. Min(later) \in later /\ \A y \in later : Min(later) <= y
      BY <1>3, <2>1, MinOK, Zenon
    <3>2. Below(later, Min(later)) = {}
      <4> DEFINE m == Min(later)
      <4>1. m \in Nat /\ later \in SUBSET Nat /\ \A y \in later : m <= y
        BY <1>3, <3>1, Zenon
      <4> HIDE DEF m
      <4>2. \A y \in later : ~(y < m)
        BY <4>1
      <4> QED BY <4>2, Zenon DEF Below, m
    <3>3. Cardinality(Below(later, Min(later))) < limit
      <4>1. Cardinality({}) = 0
        BY FS_EmptySet, Zenon
      <4> QED BY <3>2, <4>1
    <3> QED BY <1>1, <1>7, <3>1, <3>3, Zenon
  <2>2. ~(rows[i].seq > after) /\ rows[i].seq \in Nat
    BY <2>1, Shapes, Zenon
  <2> QED BY <2>2
<1> QED BY <1>4, <1>5, <1>6, <1>7, Zenon

\* Only one position begins the rows after a seq.
LEMMA FrontierUnique ==
    ASSUME RowsInv, KeysInv, NEW a \in Nat,
           NEW p \in 1 .. Len(rows) + 1, NEW q \in 1 .. Len(rows) + 1,
           Frontier(p, a), Frontier(q, a)
    PROVE  p = q
<1>1. /\ DOMAIN rows = 1 .. Len(rows) /\ Len(rows) \in Nat
      /\ \A i \in DOMAIN rows : rows[i].seq \in Nat
  BY Shapes, Zenon
<1>2. ASSUME NEW x \in 1 .. Len(rows) + 1, NEW y \in 1 .. Len(rows) + 1,
             Frontier(x, a), Frontier(y, a), x < y
      PROVE  FALSE
  <2>1. x \in DOMAIN rows /\ y - 1 \in DOMAIN rows /\ y > 1 /\ (x = y - 1 \/ x < y - 1)
    BY <1>1, <1>2
  <2>2. rows[x].seq > a /\ rows[y - 1].seq <= a
    BY <1>2, <2>1, Zenon DEF Frontier
  <2>3. x < y - 1 => rows[x].seq < rows[y - 1].seq
    BY <2>1, Zenon DEF RowsInv
  <2>4. rows[x].seq \in Nat /\ rows[y - 1].seq \in Nat
    BY <1>1, <2>1, Zenon
  <2> QED BY <2>1, <2>2, <2>3, <2>4
<1>3. p < q \/ q < p \/ p = q
  BY <1>1
<1> QED BY <1>2, <1>3, Zenon

\* The first row of a page begins the rows after the cursor, and the last row
\* ends it without a gap.
LEMMA PageEnds ==
    ASSUME RowsInv, KeysInv, NEW after \in Nat, NEW limit \in Nat \ {0}, Scan(after, limit) # {}
    PROVE  LET page == Scan(after, limit) IN
           /\ Min(page) \in page /\ Max(page) \in page
           /\ \A i \in page : Min(page) <= i /\ i <= Max(page)
           /\ Frontier(Min(page), after)
           /\ Frontier(Max(page) + 1, rows[Max(page)].seq)
           /\ \A i \in DOMAIN rows : rows[i].seq > after /\ rows[i].seq <= rows[Max(page)].seq
                                     => i \in page
           /\ \A i \in page : rows[i].seq <= rows[Max(page)].seq
<1> DEFINE page == Scan(after, limit)
<1>1. /\ DOMAIN rows = 1 .. Len(rows) /\ Len(rows) \in Nat
      /\ \A i \in DOMAIN rows : rows[i].seq \in Nat
  BY Shapes, Zenon
<1>2. /\ page \in SUBSET (DOMAIN rows) /\ page \in SUBSET Nat /\ IsFiniteSet(page) /\ page # {}
      /\ \A i \in page : rows[i].seq > after
      /\ \A i \in page : \A k \in DOMAIN rows : k < i /\ rows[k].seq > after => k \in page
  BY ScanOK, Zenon
<1>3. \A i, k \in DOMAIN rows : i < k => rows[i].seq < rows[k].seq
  BY Zenon DEF RowsInv
<1> HIDE DEF page
<1> DEFINE a == Min(page)
           b == Max(page)
<1>4. a \in page /\ \A i \in page : a <= i
  BY <1>2, MinOK, Zenon
<1>5. b \in page /\ \A i \in page : b >= i
  BY <1>2, MaxOK, Zenon
<1> HIDE DEF a, b
<1>6. a \in DOMAIN rows /\ b \in DOMAIN rows /\ a \in Nat /\ b \in Nat
  BY <1>2, <1>4, <1>5, Zenon
<1>7. Frontier(a, after)
  <2>1. ASSUME a > 1 PROVE rows[a - 1].seq <= after
    <3>1. a - 1 \in DOMAIN rows /\ a - 1 < a /\ ~(a <= a - 1)
      BY <1>1, <1>6, <2>1
    <3>2. ~(rows[a - 1].seq > after)
      BY <1>2, <1>4, <3>1, Zenon
    <3>3. rows[a - 1].seq \in Nat
      BY <1>1, <3>1, Zenon
    <3> QED BY <3>2, <3>3
  <2> QED BY <1>2, <1>4, <2>1, Zenon DEF Frontier
<1>8. Frontier(b + 1, rows[b].seq)
  <2>1. b + 1 \in DOMAIN rows => rows[b + 1].seq > rows[b].seq
    BY <1>1, <1>3, <1>6
  <2>2. (b + 1) - 1 = b /\ rows[b].seq <= rows[b].seq
    BY <1>1, <1>6
  <2> QED BY <2>1, <2>2, Zenon DEF Frontier
<1>9. ASSUME NEW i \in DOMAIN rows, rows[i].seq > after, rows[i].seq <= rows[b].seq
      PROVE  i \in page
  <2>1. ~(b < i)
    BY <1>1, <1>3, <1>6, <1>9
  <2>2. i < b \/ i = b
    BY <1>1, <1>6, <2>1
  <2> QED BY <1>2, <1>5, <1>9, <2>2, Zenon
<1>10. ASSUME NEW i \in page PROVE rows[i].seq <= rows[b].seq /\ i <= b
  <2>1. i \in DOMAIN rows /\ i \in Nat /\ b >= i
    BY <1>2, <1>5, Zenon
  <2> QED BY <1>1, <1>3, <1>6, <2>1
<1> QED BY <1>4, <1>5, <1>7, <1>8, <1>9, <1>10, Zenon DEF page, a, b

-----------------------------------------------------------------------------
(* A verification.                                                         *)

\* A verification that starts in the middle compares its first row with the row
\* before it, or, when that row is gone, with a hash that cannot match.
LEMMA SeedOK ==
    ASSUME RowsInv, KeysInv, NEW from \in Nat \ {0},
           from > 1 => Scan(from - 2, 1) # {},
           NEW p \in 1 .. Len(rows) + 1, Frontier(p, from - 1)
    PROVE  LET prev == IF from = 1 THEN NoHash ELSE rows[Min(Scan(from - 2, 1))].hash IN
           \/ prev = HashBefore(p)
           \/ p \in DOMAIN rows /\ rows[p].prev \notin {prev, HashBefore(p)}
<1>1. /\ DOMAIN rows = 1 .. Len(rows) /\ Len(rows) \in Nat
      /\ \A i \in DOMAIN rows : rows[i].seq \in 1 .. Len(honest) /\ RowOK(rows[i])
      /\ \A i \in DOMAIN rows : rows[i].seq \in Nat
      /\ Len(honest) \in Nat
  BY Shapes, Zenon DEF RowsInv
<1>2. CASE from = 1
  <2>1. ~(p > 1)
    <3>1. ASSUME p > 1 PROVE FALSE
      <4>1. p - 1 \in DOMAIN rows
        BY <1>1, <3>1
      <4>2. rows[p - 1].seq <= from - 1
        BY <3>1, Zenon DEF Frontier
      <4>3. rows[p - 1].seq \in 1 .. Len(honest)
        BY <1>1, <4>1, Zenon
      <4> QED BY <1>1, <1>2, <4>2, <4>3
    <3> QED BY <3>1
  <2>2. p = 1
    BY <1>1, <2>1
  <2> QED BY <1>2, <2>2, Zenon DEF HashBefore
<1>3. CASE from # 1
  <2> DEFINE page == Scan(from - 2, 1)
             s == Min(page)
  <2>1. from - 2 \in Nat /\ from - 1 \in Nat /\ from > 1 /\ 1 \in Nat \ {0}
    BY <1>3
  <2>2. s \in page /\ Frontier(s, from - 2)
    BY <2>1, PageEnds, Zenon
  <2>3. s \in DOMAIN rows /\ rows[s].seq > from - 2
    BY <2>1, <2>2, ScanOK, Zenon
  <2> HIDE DEF s, page
  <2>4. s \in Nat /\ s \in 1 .. Len(rows) + 1 /\ s + 1 \in 1 .. Len(rows) + 1 /\ rows[s].seq \in Nat
    BY <1>1, <2>3
  <2>5. CASE rows[s].seq = from - 1
    <3>1. Frontier(s + 1, from - 1)
      <4>1. s + 1 \in DOMAIN rows => rows[s + 1].seq > from - 1
        <5>1. s + 1 \in DOMAIN rows => rows[s].seq < rows[s + 1].seq
          <6>1. s < s + 1
            BY <2>4
          <6> QED BY <2>3, <6>1, Zenon DEF RowsInv
        <5>2. s + 1 \in DOMAIN rows => rows[s + 1].seq \in Nat
          BY <1>1, Zenon
        <5> QED BY <2>1, <2>4, <2>5, <5>1, <5>2
      <4>2. (s + 1) - 1 = s /\ rows[s].seq <= from - 1
        BY <2>1, <2>4, <2>5
      <4> QED BY <4>1, <4>2, Zenon DEF Frontier
    <3>2. p = s + 1
      BY <2>1, <2>4, <3>1, FrontierUnique, Zenon
    <3>3. p # 1 /\ p - 1 = s
      BY <1>1, <2>3, <3>2
    <3> QED BY <1>3, <3>3, Zenon DEF HashBefore, s, page
  <2>6. CASE rows[s].seq # from - 1
    <3>1. rows[s].seq > from - 1
      BY <2>1, <2>3, <2>4, <2>6
    <3>2. s > 1 => /\ s - 1 \in DOMAIN rows /\ rows[s - 1].seq <= from - 2
                   /\ rows[s - 1].seq \in Nat /\ rows[s - 1].seq <= from - 1
      <4>1. s > 1 => s - 1 \in DOMAIN rows
        BY <1>1, <2>3, <2>4
      <4>2. s > 1 => rows[s - 1].seq <= from - 2
        BY <2>2, Zenon DEF Frontier
      <4>3. s > 1 => rows[s - 1].seq \in Nat
        BY <1>1, <4>1, Zenon
      <4> QED BY <2>1, <4>1, <4>2, <4>3
    <3>3. Frontier(s, from - 1)
      BY <3>1, <3>2, Zenon DEF Frontier
    <3>4. p = s
      BY <2>1, <2>4, <3>3, FrontierUnique, Zenon
    <3>5. /\ HashOf(rows[s].hash, rows[s].seq) /\ rows[s].seq # 1
          /\ HashOf(rows[s].prev, rows[s].seq - 1)
      <4>1. rows[s].seq # 1
        BY <2>1, <2>4, <3>1
      <4> QED BY <1>1, <2>3, <4>1, Zenon DEF RowOK
    <3>6. rows[s].prev[2] = rows[s].seq - 1 /\ rows[s].hash[2] = rows[s].seq
          /\ rows[s].prev # <<>>
      BY <3>5 DEF HashOf
    <3>7. rows[s].prev # rows[s].hash
      BY <2>4, <3>6
    <3>8. rows[s].prev # HashBefore(s)
      <4>1. CASE s = 1
        BY <3>6, <4>1, Zenon DEF HashBefore, NoHash
      <4>2. CASE s # 1
        <5>1. s > 1
          BY <1>1, <2>3, <4>2
        <5>2. HashOf(rows[s - 1].hash, rows[s - 1].seq)
          BY <1>1, <3>2, <5>1, Zenon DEF RowOK
        <5>3. rows[s - 1].hash[2] = rows[s - 1].seq
          BY <5>2 DEF HashOf
        <5>4. rows[s].prev # rows[s - 1].hash
          BY <2>1, <2>4, <3>1, <3>2, <3>6, <5>1, <5>3
        <5> QED BY <4>2, <5>4, Zenon DEF HashBefore
      <4> QED BY <4>1, <4>2
    <3> QED BY <1>3, <2>3, <3>4, <3>7, <3>8, Zenon DEF s, page
  <2> QED BY <2>5, <2>6
<1> QED BY <1>2, <1>3

\* A verification begins.
LEMMA VerifyBeginStep ==
    ASSUME IndInv, NEW from \in Starts, VerifyBegin(from)
    PROVE  IndInv'
<1> DEFINE seed == IF from = 1 THEN NoHash ELSE rows[Min(Scan(from - 2, 1))].hash
<1>1. /\ from > 1 => Scan(from - 2, 1) # {}
      /\ walk' = [from |-> from, after |-> from - 1, prev |-> seed] /\ verdict' = None
      /\ UNCHANGED <<rows, honest, changed>> /\ UNCHANGED <<key, epochs>>
      /\ UNCHANGED anchors /\ UNCHANGED seal
  BY Zenon DEF VerifyBegin
<1>2. RowsInv /\ KeysInv /\ from \in Nat \ {0}
  BY VerifyAssumption, Zenon DEF IndInv
<1>3. /\ RowsInv' /\ IntactInv' /\ ChangeInv' /\ KeysInv' /\ SealInv' /\ AnchorInv'
      /\ \A i : HashBefore(i)' = HashBefore(i)
      /\ \A q, n : Frontier(q, n)' = Frontier(q, n)
  BY <1>1, SameTable, Zenon DEF IndInv
<1>4. VerdictInv'
  BY <1>1, Zenon DEF VerdictInv
<1>5. WalkInv'
  <2>1. \A p \in 1 .. Len(rows) + 1 : Frontier(p, from - 1) =>
           \/ seed = HashBefore(p)
           \/ p \in DOMAIN rows /\ rows[p].prev \notin {seed, HashBefore(p)}
    BY <1>1, <1>2, SeedOK, Zenon
  <2>2. from - 1 \in 0 .. Len(honest)
    <3>1. CASE from = 1
      BY <1>2, <3>1, Shapes
    <3>2. CASE from # 1
      <4>1. from - 2 \in Nat /\ 1 \in Nat \ {0} /\ from > 1
        BY <1>2, <3>2
      <4>2. PICK i \in DOMAIN rows : rows[i].seq > from - 2
        BY <1>1, <1>2, <4>1, ScanOK, Zenon
      <4>3. rows[i].seq \in 1 .. Len(honest) /\ Len(honest) \in Nat
        BY <1>2, <4>2, Shapes, Zenon
      <4> QED BY <1>2, <4>1, <4>2, <4>3
    <3> QED BY <3>1, <3>2
  <2> HIDE DEF seed
  <2>3. walk'.from = from /\ walk'.after = from - 1 /\ walk'.prev = seed
    BY <1>1
  <2>4. walk' \in [from : Nat \ {0}, after : 0 .. Len(honest), prev : {walk'.prev}]
    BY <1>1, <1>2, <2>2, <2>3
  <2>5. walk'.from <= walk'.after + 1
        /\ \A n \in Nat : ~(n \in walk'.from .. walk'.after)
    BY <1>2, <2>3
  <2>6. \A i \in DOMAIN rows' : ~(rows'[i].seq \in walk'.from .. walk'.after)
    BY <1>1, <1>2, <2>5, Shapes, Zenon
  <2>7. ASSUME NEW p \in 1 .. Len(rows') + 1, Frontier(p, walk.after)'
        PROVE  \/ walk'.prev = HashBefore(p)'
               \/ p \in DOMAIN rows' /\ rows'[p].prev \notin {walk'.prev, HashBefore(p)'}
    <3>1. p \in 1 .. Len(rows) + 1 /\ Frontier(p, from - 1)
      BY <1>1, <2>3, <2>7, Zenon DEF Frontier
    <3>2. \/ seed = HashBefore(p)
          \/ p \in DOMAIN rows /\ rows[p].prev \notin {seed, HashBefore(p)}
      BY <2>1, <3>1, Zenon
    <3> QED BY <1>1, <1>3, <2>3, <3>2, Zenon
  <2> QED BY <1>1, <2>4, <2>5, <2>6, <2>7, Zenon DEF WalkInv
<1> QED BY <1>3, <1>4, <1>5, Zenon DEF IndInv

\* What a page of the walk calls bad is what does not re-derive.
LEMMA BadIsUnsound ==
    ASSUME RowsInv, KeysInv, WalkInv, walk # None, Scan(walk.after, PageSize) # {},
           NEW i \in Scan(walk.after, PageSize)
    PROVE  i \in BadIn(Scan(walk.after, PageSize), walk.prev) <=> Unsound(i)
<1> DEFINE page == Scan(walk.after, PageSize)
<1>1. walk.after \in Nat /\ PageSize \in Nat \ {0}
  <2>1. walk \in [from : Nat \ {0}, after : 0 .. Len(honest), prev : {walk.prev}]
    BY Zenon DEF WalkInv
  <2>2. Len(honest) \in Nat
    BY Shapes, Zenon
  <2> QED BY <2>1, <2>2, VerifyAssumption
<1>2. page \in SUBSET (DOMAIN rows)
  BY <1>1, ScanOK, Zenon
<1>3. Min(page) \in page /\ Min(page) <= i /\ Frontier(Min(page), walk.after)
  BY <1>1, PageEnds, Zenon
<1>4. KeyForSeq(rows[i].seq) = honest[rows[i].seq]
  BY <1>2, Shapes, KeyForSeqIsHonest, Zenon
<1> HIDE DEF page
<1>5. i \in DOMAIN rows /\ i \in Nat /\ Min(page) \in Nat /\ Min(page) >= 1
      /\ Min(page) \in 1 .. Len(rows) + 1
  <2>1. DOMAIN rows = 1 .. Len(rows) /\ Len(rows) \in Nat
    BY Shapes, Zenon
  <2>2. i \in DOMAIN rows /\ Min(page) \in DOMAIN rows
    BY <1>2, <1>3, Zenon DEF page
  <2> QED BY <2>1, <2>2
<1>6. i \in BadIn(page, walk.prev) <=>
        \/ rows[i].prev # IF i = Min(page) THEN walk.prev ELSE rows[i - 1].hash
        \/ rows[i].hash # Hmac(honest[rows[i].seq], rows[i])
  BY <1>4, Zenon DEF BadIn, page
<1>7. CASE i = Min(page)
  <2>1. \/ walk.prev = HashBefore(i)
        \/ i \in DOMAIN rows /\ rows[i].prev \notin {walk.prev, HashBefore(i)}
    BY <1>3, <1>5, <1>7, Zenon DEF WalkInv
  <2>2. rows[i].prev # walk.prev <=> rows[i].prev # HashBefore(i)
    BY <2>1, Zenon
  <2> QED BY <1>6, <1>7, <2>2, Zenon DEF Unsound, page
<1>8. CASE i # Min(page)
  <2>1. i # 1
    BY <1>3, <1>5, <1>8
  <2>2. HashBefore(i) = rows[i - 1].hash
    BY <2>1, Zenon DEF HashBefore
  <2> QED BY <1>6, <1>8, <2>2, Zenon DEF Unsound, page
<1> QED BY <1>7, <1>8

\* A verification reads one page.
LEMMA VerifyPageStep ==
    ASSUME IndInv, VerifyPage
    PROVE  IndInv'
<1> DEFINE page == Scan(walk.after, PageSize)
           bad == BadIn(page, walk.prev)
<1>1. /\ walk # None
      /\ IF page = {} THEN Answer(TRUE, None, walk.after)
         ELSE IF bad # {} THEN Answer(FALSE, rows[Min(bad)].seq, rows[Min(bad)].seq)
         ELSE /\ walk' = [walk EXCEPT !.after = rows[Max(page)].seq,
                                      !.prev = rows[Max(page)].hash]
              /\ UNCHANGED verdict
      /\ UNCHANGED <<rows, honest, changed>> /\ UNCHANGED <<key, epochs>>
      /\ UNCHANGED anchors /\ UNCHANGED seal
  BY Zenon DEF VerifyPage
<1>2. RowsInv /\ KeysInv /\ WalkInv /\ VerdictInv
  BY Zenon DEF IndInv
<1>3. /\ RowsInv' /\ IntactInv' /\ ChangeInv' /\ KeysInv' /\ SealInv' /\ AnchorInv'
      /\ \A i : HashBefore(i)' = HashBefore(i)
      /\ \A i : Unsound(i)' = Unsound(i)
  BY <1>1, SameTable, Zenon DEF IndInv
<1>4. /\ walk \in [from : Nat \ {0}, after : 0 .. Len(honest), prev : {walk.prev}]
      /\ walk.from <= walk.after + 1
      /\ \A i \in DOMAIN rows : rows[i].seq \in walk.from .. walk.after => ~Unsound(i)
  BY <1>1, <1>2, Zenon DEF WalkInv
<1>5. /\ Len(honest) \in Nat /\ DOMAIN rows = 1 .. Len(rows) /\ Len(rows) \in Nat
      /\ \A i \in DOMAIN rows : rows[i].seq \in 1 .. Len(honest)
  BY <1>2, Shapes, Zenon
<1>6. /\ walk.from \in Nat \ {0} /\ walk.after \in Nat /\ walk.after \in 0 .. Len(honest)
      /\ PageSize \in Nat \ {0}
  BY <1>4, <1>5, VerifyAssumption
<1>7. /\ page \in SUBSET (DOMAIN rows) /\ page \in SUBSET Nat
      /\ \A i \in page : rows[i].seq > walk.after
      /\ \A i \in page : \A k \in DOMAIN rows : k < i /\ rows[k].seq > walk.after => k \in page
      /\ page = {} => \A i \in DOMAIN rows : rows[i].seq <= walk.after
  BY <1>2, <1>6, ScanOK, Zenon
<1>8. \A i \in page : i \in bad <=> Unsound(i)
  BY <1>1, <1>2, BadIsUnsound, Zenon
<1>9. bad \in SUBSET page
  BY Zenon DEF BadIn
<1>10. page # {} =>
         /\ Max(page) \in page
         /\ Frontier(Max(page) + 1, rows[Max(page)].seq)
         /\ \A i \in DOMAIN rows : rows[i].seq > walk.after /\ rows[i].seq <= rows[Max(page)].seq
                                   => i \in page
  BY <1>2, <1>6, PageEnds, Zenon
<1> HIDE DEF page, bad
<1>11. ASSUME NEW i \in DOMAIN rows, ~(rows[i].seq > walk.after), rows[i].seq >= walk.from
       PROVE  ~Unsound(i)
  <2>1. rows[i].seq \in walk.from .. walk.after
    BY <1>5, <1>6, <1>11
  <2> QED BY <1>4, <2>1, Zenon
<1>12. CASE page = {}
  <2>1. verdict' = [ok |-> TRUE, bad |-> None, from |-> walk.from, upto |-> walk.after]
        /\ walk' = None
    BY <1>1, <1>12, Zenon DEF Answer
  <2>2. verdict'.ok = TRUE /\ verdict'.from = walk.from /\ verdict'.upto = walk.after
    BY <2>1
  <2>3. WalkInv'
    BY <2>1, Zenon DEF WalkInv
  <2>4. \A i \in DOMAIN rows' : rows'[i].seq \in verdict'.from .. verdict'.upto => ~Unsound(i)'
    BY <1>1, <1>3, <1>4, <2>2, Zenon
  <2>5. \A i \in DOMAIN rows' : rows'[i].seq <= verdict'.upto
    BY <1>1, <1>7, <1>12, <2>2, Zenon
  <2>6. verdict'.ok \in BOOLEAN /\ verdict'.from \in Nat \ {0}
        /\ verdict'.upto \in 0 .. Len(honest')
    BY <1>1, <1>6, <2>2, Zenon
  <2>7. VerdictInv'
    BY <2>2, <2>4, <2>5, <2>6, Zenon DEF VerdictInv
  <2> QED BY <1>3, <2>3, <2>7, Zenon DEF IndInv
<1>13. CASE page # {} /\ bad # {}
  <2>0. bad \in SUBSET (DOMAIN rows)
    BY <1>7, <1>9, Zenon
  <2>1. PICK m \in bad : m = Min(bad) /\ \A y \in bad : m <= y
    BY <1>2, <1>13, <2>0, MinOK, Positions, Zenon
  <2>2. verdict' = [ok |-> FALSE, bad |-> rows[m].seq, from |-> walk.from, upto |-> rows[m].seq]
        /\ walk' = None
    BY <1>1, <1>13, <2>1, Zenon DEF Answer
  <2>3. verdict'.ok = FALSE /\ verdict'.from = walk.from
        /\ verdict'.upto = rows[m].seq /\ verdict'.bad = rows[m].seq
    BY <2>2
  <2>4. m \in page /\ m \in DOMAIN rows /\ Unsound(m) /\ rows[m].seq > walk.after
        /\ rows[m].seq \in 1 .. Len(honest) /\ m \in Nat
    BY <1>5, <1>7, <1>8, <1>9, <2>1, Zenon
  <2>5. walk.from <= rows[m].seq
    BY <1>4, <1>5, <1>6, <2>4
  <2>6. ASSUME NEW k \in DOMAIN rows, k < m, rows[k].seq >= walk.from PROVE ~Unsound(k)
    <3>1. CASE ~(rows[k].seq > walk.after)
      BY <1>11, <2>6, <3>1, Zenon
    <3>2. CASE rows[k].seq > walk.after
      <4>1. k \in page
        BY <1>7, <2>4, <2>6, <3>2, Zenon
      <4>2. ~(m <= k)
        BY <1>5, <2>4, <2>6
      <4> QED BY <1>8, <2>1, <4>1, <4>2, Zenon
    <3> QED BY <3>1, <3>2
  <2>7. WalkInv'
    BY <2>2, Zenon DEF WalkInv
  <2>8. verdict'.ok \in BOOLEAN /\ verdict'.from \in Nat \ {0}
        /\ verdict'.upto \in 0 .. Len(honest')
    <3>1. rows[m].seq \in 0 .. Len(honest)
      BY <1>5, <2>4
    <3>2. honest' = honest
      BY <1>1, Zenon
    <3> QED BY <1>6, <2>3, <3>1, <3>2, Zenon
  <2>9. /\ m \in DOMAIN rows' /\ Unsound(m)' /\ verdict'.from <= rows'[m].seq
        /\ verdict'.bad = rows'[m].seq /\ verdict'.upto = rows'[m].seq
        /\ \A k \in DOMAIN rows' : k < m /\ rows'[k].seq >= verdict'.from => ~Unsound(k)'
    <3>1. \A k : Unsound(k)' = Unsound(k)
      BY <1>3, Zenon
    <3>2. rows' = rows
      BY <1>1, Zenon
    <3> QED BY <2>3, <2>4, <2>5, <2>6, <3>1, <3>2, Zenon
  <2>10. VerdictInv'
    <3>1. \E i \in DOMAIN rows' :
             /\ Unsound(i)' /\ verdict'.from <= rows'[i].seq
             /\ verdict'.bad = rows'[i].seq /\ verdict'.upto = rows'[i].seq
             /\ \A k \in DOMAIN rows' : k < i /\ rows'[k].seq >= verdict'.from => ~Unsound(k)'
      BY <2>9, Zenon
    <3> QED BY <2>3, <2>8, <3>1, Zenon DEF VerdictInv
  <2> QED BY <1>3, <2>7, <2>10, Zenon DEF IndInv
<1>14. CASE page # {} /\ bad = {}
  <2> DEFINE b == Max(page)
  <2>1. walk' = [walk EXCEPT !.after = rows[b].seq, !.prev = rows[b].hash]
        /\ verdict' = verdict
    BY <1>1, <1>14, Zenon
  <2>2. /\ b \in page /\ Frontier(b + 1, rows[b].seq)
        /\ \A i \in DOMAIN rows : rows[i].seq > walk.after /\ rows[i].seq <= rows[b].seq
                                  => i \in page
    BY <1>10, <1>14, Zenon
  <2> HIDE DEF b
  <2>3. b \in DOMAIN rows /\ b \in Nat /\ rows[b].seq > walk.after /\ rows[b].seq \in 1 .. Len(honest)
    BY <1>5, <1>7, <2>2, Zenon
  <2>4. /\ walk'.from = walk.from /\ walk'.after = rows[b].seq /\ walk'.prev = rows[b].hash
        /\ walk' \in [from : Nat \ {0}, after : 0 .. Len(honest), prev : {walk'.prev}]
    <3>1. walk \in [from : Nat \ {0}, after : 0 .. Len(honest), prev : {walk.prev}]
      BY <1>4, Zenon
    <3>2. rows[b].seq \in 0 .. Len(honest)
      BY <1>5, <2>3
    <3> QED BY <2>1, <3>1, <3>2
  <2>5. walk'.from <= walk'.after + 1
    BY <1>4, <1>5, <1>6, <2>3, <2>4
  <2>6. ASSUME NEW i \in DOMAIN rows, rows[i].seq \in walk.from .. rows[b].seq PROVE ~Unsound(i)
    <3>1. rows[i].seq >= walk.from /\ rows[i].seq <= rows[b].seq
      BY <1>5, <1>6, <2>3, <2>6
    <3>2. CASE ~(rows[i].seq > walk.after)
      BY <1>11, <3>1, <3>2, Zenon
    <3>3. CASE rows[i].seq > walk.after
      BY <1>8, <1>14, <2>2, <3>1, <3>3, Zenon
    <3> QED BY <3>2, <3>3
  <2>7. ASSUME NEW p \in 1 .. Len(rows') + 1, Frontier(p, walk.after)'
        PROVE  walk'.prev = HashBefore(p)'
    <3>1. p \in 1 .. Len(rows) + 1 /\ Frontier(p, rows[b].seq)
      BY <1>1, <2>4, <2>7, Zenon DEF Frontier
    <3>2. b + 1 \in 1 .. Len(rows) + 1 /\ rows[b].seq \in Nat
      BY <1>5, <2>3
    <3>3. p = b + 1
      BY <1>2, <2>2, <3>1, <3>2, FrontierUnique, Zenon
    <3>4. p # 1 /\ p - 1 = b
      BY <1>5, <2>3, <3>3
    <3>5. HashBefore(p) = rows[b].hash
      BY <3>4, Zenon DEF HashBefore
    <3> QED BY <1>3, <2>4, <3>5, Zenon
  <2>8. \A i \in DOMAIN rows' : rows'[i].seq \in walk'.from .. walk'.after => ~Unsound(i)'
    BY <1>1, <1>3, <2>4, <2>6, Zenon
  <2>9. walk' \in [from : Nat \ {0}, after : 0 .. Len(honest'), prev : {walk'.prev}]
    BY <1>1, <2>4, Zenon
  <2>10. WalkInv'
    BY <2>5, <2>7, <2>8, <2>9, Zenon DEF WalkInv
  <2>11. VerdictInv'
    BY <1>1, <1>2, <2>1, SameTable, Zenon
  <2> QED BY <1>3, <2>10, <2>11, Zenon DEF IndInv
<1> QED BY <1>12, <1>13, <1>14, Zenon

-----------------------------------------------------------------------------
(* Anchors.                                                                *)

\* The hashes of the model, as a function of the rows.
LEMMA HashesAre == ASSUME NEW S PROVE Hashes(S) = HashesOn(rows, S)
  BY Zenon DEF Hashes, HashesOn, Nth, Below

\* A row appended meanwhile is beyond what was read or anchored.
LEMMA WriteSeals ==
    ASSUME RowsInv, IntactInv, KeysInv, SealInv, AnchorInv,
           NEW ws \in Workspaces, NEW k, Write(ws, k)
    PROVE  SealInv' /\ AnchorInv'
<1> DEFINE last == Len(rows) + 1
<1>1. /\ Len(rows) = Len(honest) /\ Len(honest') = last /\ DOMAIN rows' = 1 .. last
      /\ \A i \in DOMAIN rows : rows'[i] = rows[i] /\ honest'[i] = honest[i]
      /\ UNCHANGED <<anchors, seal, changed>>
  BY WriteGrows, Zenon
<1>2. rows'[last].seq = last
  <2>1. rows'[last] = [seq |-> last, ws |-> ws, prev |-> HashBefore(last),
                       hash |-> <<k, last, ws, HashBefore(last)>>]
    BY WriteGrows, Zenon
  <2> QED BY <2>1
<1>3. DOMAIN rows = 1 .. Len(rows) /\ Len(rows) \in Nat
  BY Shapes, Zenon
<1> HIDE DEF last
<1>4. /\ last = Len(rows) + 1 /\ \A i \in 1 .. last : i \in DOMAIN rows \/ i = last
      /\ \A i \in DOMAIN rows : i \in 1 .. last
  BY <1>3 DEF last
<1>5. ASSUME NEW scope, NEW a \in Nat, NEW b \in 0 .. Len(honest)
      PROVE  HashesOn(rows', Segment(rows', scope, a, b)) = HashesOn(rows, Segment(rows, scope, a, b))
  <2>1. ~(last \in a .. b)
    BY <1>1, <1>3, <1>4
  <2>2. Segment(rows', scope, a, b) = Segment(rows, scope, a, b)
    BY <1>1, <1>2, <1>4, <2>1, Zenon DEF Segment
  <2>3. Segment(rows, scope, a, b) \in SUBSET (DOMAIN rows)
    BY Zenon DEF Segment
  <2>4. \A n \in Segment(rows, scope, a, b) : rows'[n].hash = rows[n].hash
    BY <1>1, <2>3, Zenon
  <2>5. Segment(rows, scope, a, b) \in SUBSET Nat /\ IsFiniteSet(Segment(rows, scope, a, b))
    BY <2>3, Positions, Zenon
  <2>6. HashesOn(rows', Segment(rows, scope, a, b)) = HashesOn(rows, Segment(rows, scope, a, b))
    BY <2>4, <2>5, HashesKept, Zenon
  <2> QED BY <2>2, <2>6, Zenon
<1>6. SealInv'
  <2> SUFFICES ASSUME seal # None PROVE SealInv'
    BY <1>1, Zenon DEF SealInv
  <2>1. /\ seal \in [scope : Anchored, from : Nat \cup {None}, hashes : {seal.hashes},
                     cursor : 0 .. Len(honest)]
        /\ seal.from # None => seal.from \in 1 .. seal.cursor
        /\ changed = 0 =>
              seal.hashes = IF seal.from = None THEN <<>>
                            ELSE HashesOn(rows, Segment(rows, seal.scope, seal.from, seal.cursor))
    BY Zenon DEF SealInv
  <2>2. seal.from \in Nat \cup {None} /\ seal.cursor \in 0 .. Len(honest)
    BY <2>1
  <2>3. seal \in [scope : Anchored, from : Nat \cup {None}, hashes : {seal.hashes},
                  cursor : 0 .. Len(honest')]
    BY <1>1, <1>3, <1>4, <2>1
  <2>4. seal.from # None =>
           HashesOn(rows', Segment(rows', seal.scope, seal.from, seal.cursor))
             = HashesOn(rows, Segment(rows, seal.scope, seal.from, seal.cursor))
    <3>1. seal.from # None => seal.from \in Nat
      BY <2>2, Zenon
    <3> QED BY <1>5, <2>2, <3>1, Zenon
  <2> QED BY <1>1, <2>1, <2>3, <2>4, Zenon DEF SealInv
<1>7. AnchorInv'
  <2> SUFFICES ASSUME NEW a \in anchors
               PROVE  /\ a.scope \in Anchored /\ a.from \in 1 .. Len(honest')
                      /\ a.to \in a.from .. Len(honest')
                      /\ changed = 0 => a.root = <<honest'[a.to],
                                          HashesOn(rows', Segment(rows', a.scope, a.from, a.to))>>
    BY <1>1, Zenon DEF AnchorInv
  <2>1. /\ a.scope \in Anchored /\ a.from \in 1 .. Len(honest) /\ a.to \in a.from .. Len(honest)
        /\ changed = 0 => a.root = <<honest[a.to],
                                     HashesOn(rows, Segment(rows, a.scope, a.from, a.to))>>
    BY Zenon DEF AnchorInv
  <2>2. /\ a.from \in Nat /\ a.to \in 0 .. Len(honest) /\ a.to \in DOMAIN rows
        /\ a.from \in 1 .. Len(honest') /\ a.to \in a.from .. Len(honest')
    BY <1>1, <1>3, <1>4, <2>1
  <2>3. HashesOn(rows', Segment(rows', a.scope, a.from, a.to))
          = HashesOn(rows, Segment(rows, a.scope, a.from, a.to))
    BY <1>5, <2>2, Zenon
  <2>4. honest'[a.to] = honest[a.to]
    BY <1>1, <2>2, Zenon
  <2> QED BY <2>1, <2>2, <2>3, <2>4, Zenon
<1> QED BY <1>6, <1>7

\* write_now keeps the invariant.
LEMMA WriteStep ==
    ASSUME IndInv, NEW ws \in Workspaces, NEW k, Write(ws, k)
    PROVE  IndInv'
  BY WriteRows, WriteWalk, WriteSeals, Zenon DEF IndInv

\* latest_audit_anchor finds one of the scope's anchors when there is one.
LEMMA LatestOK ==
    ASSUME KeysInv, AnchorInv, NEW scope
    PROVE  \/ Latest(scope) = None /\ {a \in anchors : a.scope = scope} = {}
           \/ /\ Latest(scope) \in anchors /\ Latest(scope).scope = scope
              /\ \A b \in anchors : b.scope = scope => Latest(scope).to >= b.to
<1> DEFINE own == {a \in anchors : a.scope = scope}
           tos == {a.to : a \in own}
<1>1. CASE own = {}
  BY <1>1, Zenon DEF Latest
<1>2. CASE own # {}
  <2>1. Len(honest) \in Nat
    BY DEF KeysInv
  <2>2. \A a \in anchors : a.to \in Nat /\ a.to <= Len(honest)
    BY <2>1 DEF AnchorInv
  <2>3. tos \in SUBSET Nat /\ (\A n \in tos : n <= Len(honest)) /\ tos # {}
    BY <1>2, <2>2, Zenon
  <2>4. Max(tos) \in tos /\ \A y \in tos : Max(tos) >= y
    BY <2>1, <2>3, FS_BoundedSetOfNaturals, MaxOK, Zenon
  <2>5. \E a \in own : \A b \in own : a.to >= b.to
    BY <2>4, Zenon
  <2>6. Latest(scope) \in own /\ \A b \in own : Latest(scope).to >= b.to
    BY <1>2, <2>5, Zenon DEF Latest
  <2> QED BY <2>6, Zenon
<1> QED BY <1>1, <1>2

\* An anchoring begins after the latest anchor of its scope.
LEMMA AnchorBeginStep ==
    ASSUME IndInv, NEW scope \in Anchored, AnchorBegin(scope)
    PROVE  IndInv'
<1> DEFINE start == IF Latest(scope) = None THEN 0 ELSE Latest(scope).to
<1>1. /\ seal' = [scope |-> scope, from |-> None, hashes |-> <<>>, cursor |-> start]
      /\ UNCHANGED <<rows, honest, changed>> /\ UNCHANGED <<key, epochs>>
      /\ UNCHANGED anchors /\ UNCHANGED walk /\ UNCHANGED verdict
  BY Zenon DEF AnchorBegin
<1>2. RowsInv /\ KeysInv /\ AnchorInv
  BY Zenon DEF IndInv
<1>3. RowsInv' /\ IntactInv' /\ ChangeInv' /\ KeysInv' /\ WalkInv' /\ VerdictInv' /\ AnchorInv'
  BY <1>1, SameTable, Zenon DEF IndInv
<1>4. Len(honest) \in Nat
  BY <1>2, Shapes, Zenon
<1>5. \A a \in anchors : a.to \in 0 .. Len(honest)
  BY <1>2, <1>4 DEF AnchorInv
<1>6. start \in 0 .. Len(honest)
  <2>1. 0 \in 0 .. Len(honest)
    BY <1>4
  <2> QED BY <1>2, <1>5, <2>1, LatestOK, Zenon
<1> HIDE DEF start
<1>7. /\ seal'.from = None /\ seal'.hashes = <<>>
      /\ seal' \in [scope : Anchored, from : Nat \cup {None}, hashes : {seal'.hashes},
                    cursor : 0 .. Len(honest)]
  BY <1>1, <1>6
<1>8. SealInv'
  BY <1>1, <1>7, Zenon DEF SealInv
<1> QED BY <1>3, <1>8, Zenon DEF IndInv

\* What one page of the tail brings: the rows of the scope, and its end.
IsPage(cursor, limit, scope, page, scoped, end) ==
    /\ page = Scan(cursor, limit)
    /\ scoped = {i \in page : InScope(rows[i], scope)}
    /\ end = IF page = {} THEN cursor ELSE rows[Max(page)].seq

\* A page of the tail continues what was read, without a gap or an overlap.
LEMMA PageContinues ==
    ASSUME RowsInv, KeysInv, NEW scope, NEW cursor \in 0 .. Len(honest), NEW limit \in Nat \ {0},
           NEW page, NEW scoped, NEW end, IsPage(cursor, limit, scope, page, scoped, end)
    PROVE  /\ end \in cursor .. Len(honest)
           /\ scoped \in SUBSET (DOMAIN rows)
           /\ scoped # {} => /\ rows[Min(scoped)].seq \in 1 .. end
                             /\ scoped = Segment(rows, scope, rows[Min(scoped)].seq, end)
           /\ \A from \in 1 .. cursor :
                 /\ Segment(rows, scope, from, cursor) \cup scoped = Segment(rows, scope, from, end)
                 /\ \A a \in Segment(rows, scope, from, cursor), b \in scoped : a < b
<1>0. /\ page = Scan(cursor, limit)
      /\ scoped = {i \in page : InScope(rows[i], scope)}
      /\ end = IF page = {} THEN cursor ELSE rows[Max(page)].seq
  BY Zenon DEF IsPage
<1>1. /\ Len(honest) \in Nat /\ DOMAIN rows = 1 .. Len(rows) /\ Len(rows) \in Nat
      /\ \A i \in DOMAIN rows : rows[i].seq \in 1 .. Len(honest)
  BY Shapes, Zenon
<1>2. cursor \in Nat
  BY <1>1
<1>3. \A i, k \in DOMAIN rows : i < k => rows[i].seq < rows[k].seq
  BY Zenon DEF RowsInv
<1>4. page \in SUBSET (DOMAIN rows) /\ \A i \in page : rows[i].seq > cursor
  BY <1>0, <1>2, ScanOK, Zenon
<1>5. /\ end \in cursor .. Len(honest)
      /\ \A i \in DOMAIN rows : i \in page <=> rows[i].seq > cursor /\ rows[i].seq <= end
  <2>1. CASE page = {}
    <3>1. end = cursor
      BY <1>0, <2>1, Zenon
    <3>2. \A i \in DOMAIN rows : rows[i].seq <= cursor
      BY <1>0, <1>2, <2>1, ScanOK, Zenon
    <3> QED BY <1>1, <1>2, <2>1, <3>1, <3>2
  <2>2. CASE page # {}
    <3>1. /\ Max(page) \in page /\ end = rows[Max(page)].seq
          /\ \A i \in DOMAIN rows : rows[i].seq > cursor /\ rows[i].seq <= end => i \in page
          /\ \A i \in page : rows[i].seq <= end
      BY <1>0, <1>2, <2>2, PageEnds, Zenon
    <3>2. end \in 1 .. Len(honest) /\ end > cursor
      BY <1>1, <1>4, <3>1, Zenon
    <3>3. end \in cursor .. Len(honest)
      BY <1>1, <1>2, <3>2
    <3> QED BY <1>4, <3>1, <3>3, Zenon
  <2> QED BY <2>1, <2>2
<1>6. /\ scoped \in SUBSET (DOMAIN rows) /\ end \in Nat
      /\ \A i \in DOMAIN rows :
            i \in scoped <=> InScope(rows[i], scope) /\ rows[i].seq > cursor /\ rows[i].seq <= end
  <2>1. end \in Nat
    BY <1>2, <1>5
  <2> QED BY <1>0, <1>4, <1>5, <2>1, Zenon
<1>7. ASSUME scoped # {}
      PROVE  /\ rows[Min(scoped)].seq \in 1 .. end
             /\ scoped = Segment(rows, scope, rows[Min(scoped)].seq, end)
  <2>1. PICK m \in scoped : m = Min(scoped) /\ \A y \in scoped : m <= y
    BY <1>6, <1>7, Positions, MinOK, Zenon
  <2>2. m \in DOMAIN rows /\ rows[m].seq > cursor /\ rows[m].seq <= end
        /\ rows[m].seq \in 1 .. Len(honest)
    BY <1>1, <1>6, <2>1, Zenon
  <2>3. rows[m].seq \in 1 .. end
    BY <1>1, <1>6, <2>2
  <2>4. ASSUME NEW i \in DOMAIN rows
        PROVE  i \in scoped <=> InScope(rows[i], scope) /\ rows[i].seq \in rows[m].seq .. end
    <3>1. rows[i].seq \in 1 .. Len(honest)
      BY <1>1, Zenon
    <3>2. CASE i \in scoped
      <4>1. m <= i /\ InScope(rows[i], scope) /\ rows[i].seq <= end
        BY <1>6, <2>1, <3>2, Zenon
      <4>2. m = i \/ rows[m].seq < rows[i].seq
        BY <1>1, <1>3, <2>2, <4>1
      <4>3. rows[i].seq \in rows[m].seq .. end
        BY <1>1, <1>6, <2>2, <3>1, <4>1, <4>2
      <4> QED BY <3>2, <4>1, <4>3, Zenon
    <3>3. CASE i \notin scoped
      <4>1. ~InScope(rows[i], scope) \/ ~(rows[i].seq > cursor) \/ ~(rows[i].seq <= end)
        BY <1>6, <3>3, Zenon
      <4>2. rows[i].seq \in rows[m].seq .. end => rows[i].seq > cursor /\ rows[i].seq <= end
        BY <1>1, <1>2, <1>6, <2>2, <3>1
      <4> QED BY <3>3, <4>1, <4>2, Zenon
    <3> QED BY <3>2, <3>3
  <2>5. scoped = Segment(rows, scope, rows[m].seq, end)
    BY <1>6, <2>4, Zenon DEF Segment
  <2> QED BY <2>1, <2>3, <2>5, Zenon
<1>8. ASSUME NEW from \in 1 .. cursor
      PROVE  /\ Segment(rows, scope, from, cursor) \cup scoped = Segment(rows, scope, from, end)
             /\ \A a \in Segment(rows, scope, from, cursor), b \in scoped : a < b
  <2>1. ASSUME NEW i \in DOMAIN rows
        PROVE  rows[i].seq \in from .. end <=>
                  \/ rows[i].seq \in from .. cursor
                  \/ rows[i].seq > cursor /\ rows[i].seq <= end
    <3>1. rows[i].seq \in 1 .. Len(honest)
      BY <1>1, Zenon
    <3> QED BY <1>1, <1>2, <1>5, <3>1
  <2>2. Segment(rows, scope, from, cursor) \cup scoped = Segment(rows, scope, from, end)
    BY <1>6, <2>1, Zenon DEF Segment
  <2>3. ASSUME NEW a \in Segment(rows, scope, from, cursor), NEW b \in scoped PROVE a < b
    <3>1. a \in DOMAIN rows /\ rows[a].seq \in from .. cursor
      BY Zenon DEF Segment
    <3>2. b \in DOMAIN rows /\ rows[b].seq > cursor
      BY <1>6, Zenon
    <3>3. rows[a].seq \in 1 .. Len(honest) /\ rows[b].seq \in 1 .. Len(honest)
      BY <1>1, <3>1, <3>2, Zenon
    <3>4. rows[a].seq < rows[b].seq
      BY <1>1, <1>2, <3>1, <3>2, <3>3
    <3>5. b < a => rows[b].seq < rows[a].seq
      BY <1>3, <3>1, <3>2, Zenon
    <3> QED BY <1>1, <3>1, <3>2, <3>3, <3>4, <3>5
  <2> QED BY <2>2, <2>3, Zenon
<1> QED BY <1>5, <1>6, <1>7, <1>8, Zenon

\* An anchoring reads one page, and seals what it read after a short one.
LEMMA AnchorReadStep ==
    ASSUME IndInv, AnchorRead
    PROVE  IndInv'
<1> DEFINE page   == Scan(seal.cursor, AnchorPage)
           scoped == {i \in page : InScope(rows[i], seal.scope)}
           end    == IF page = {} THEN seal.cursor ELSE rows[Max(page)].seq
           from   == IF seal.from = None /\ scoped # {} THEN rows[Min(scoped)].seq ELSE seal.from
           hashes == seal.hashes \o Hashes(scoped)
           read   == [seal EXCEPT !.cursor = end, !.from = from, !.hashes = hashes]
<1>1. /\ seal # None
      /\ \/ seal' = read /\ anchors' = anchors
         \/ seal' = None /\ anchors' = anchors \cup (IF read.from = None THEN {} ELSE {Sealed(read)})
      /\ UNCHANGED <<rows, honest, changed>> /\ UNCHANGED <<key, epochs>>
      /\ UNCHANGED walk /\ UNCHANGED verdict
  BY DEF AnchorRead
<1>2. RowsInv /\ KeysInv /\ SealInv /\ AnchorInv
  BY Zenon DEF IndInv
<1>3. RowsInv' /\ IntactInv' /\ ChangeInv' /\ KeysInv' /\ WalkInv' /\ VerdictInv'
  BY <1>1, SameTable, Zenon DEF IndInv
<1>4. /\ seal \in [scope : Anchored, from : Nat \cup {None}, hashes : {seal.hashes},
                   cursor : 0 .. Len(honest)]
      /\ seal.from # None => seal.from \in 1 .. seal.cursor
      /\ changed = 0 =>
            seal.hashes = IF seal.from = None THEN <<>>
                          ELSE HashesOn(rows, Segment(rows, seal.scope, seal.from, seal.cursor))
  BY <1>1, <1>2, Zenon DEF SealInv
<1>5. /\ seal.cursor \in 0 .. Len(honest) /\ AnchorPage \in Nat \ {0} /\ seal.scope \in Anchored
      /\ Len(honest) \in Nat
  BY <1>2, <1>4, Shapes, VerifyAssumption
<1>6. /\ end \in seal.cursor .. Len(honest)
      /\ scoped \in SUBSET (DOMAIN rows)
      /\ scoped # {} => /\ rows[Min(scoped)].seq \in 1 .. end
                        /\ scoped = Segment(rows, seal.scope, rows[Min(scoped)].seq, end)
      /\ \A f \in 1 .. seal.cursor :
            /\ Segment(rows, seal.scope, f, seal.cursor) \cup scoped = Segment(rows, seal.scope, f, end)
            /\ \A a \in Segment(rows, seal.scope, f, seal.cursor), b \in scoped : a < b
  <2>1. IsPage(seal.cursor, AnchorPage, seal.scope, page, scoped, end)
    BY Zenon DEF IsPage
  <2> HIDE DEF page, scoped, end
  <2> QED BY <1>2, <1>5, <2>1, PageContinues, Zenon
<1>7. read.scope = seal.scope /\ read.cursor = end /\ read.from = from /\ read.hashes = hashes
      /\ read = [scope |-> seal.scope, from |-> from, hashes |-> hashes, cursor |-> end]
  <2> HIDE DEF end, from, hashes
  <2>1. seal \in [scope : Anchored, from : Nat \cup {None}, hashes : {seal.hashes},
                  cursor : 0 .. Len(honest)]
    BY <1>4, Zenon
  <2>2. read = [seal EXCEPT !.cursor = end, !.from = from, !.hashes = hashes]
    BY Zenon
  <2> HIDE DEF read
  <2>3. seal = [scope |-> seal.scope, from |-> seal.from, hashes |-> seal.hashes,
                cursor |-> seal.cursor]
    BY <2>1
  <2> QED BY <2>2, <2>3
<1> HIDE DEF page, scoped, end, read
<1>8. scoped \in SUBSET Nat /\ IsFiniteSet(scoped) /\ end \in 0 .. Len(honest) /\ end \in Nat
  <2>1. scoped \in SUBSET Nat /\ IsFiniteSet(scoped)
    BY <1>2, <1>6, Positions, Zenon
  <2> QED BY <1>5, <1>6, <2>1
<1>9. from # None => from \in 1 .. end /\ from \in Nat
  <2>1. CASE seal.from = None /\ scoped # {}
    BY <1>6, <1>8, <2>1
  <2>2. CASE ~(seal.from = None /\ scoped # {})
    <3>1. from = seal.from
      BY <2>2, Zenon
    <3>2. seal.from # None => seal.from \in 1 .. end /\ seal.from \in Nat
      BY <1>4, <1>5, <1>6, <1>8
    <3> QED BY <3>1, <3>2, Zenon
  <2> QED BY <2>1, <2>2
<1>10. ASSUME changed = 0
       PROVE  hashes = IF from = None THEN <<>>
                       ELSE HashesOn(rows, Segment(rows, seal.scope, from, end))
  <2>1. Hashes(scoped) = HashesOn(rows, scoped)
    BY HashesAre, Zenon
  <2>2. CASE seal.from # None
    <3> DEFINE A == Segment(rows, seal.scope, seal.from, seal.cursor)
    <3>1. from = seal.from /\ seal.hashes = HashesOn(rows, A) /\ seal.from \in 1 .. seal.cursor
      BY <1>4, <1>10, <2>2, Zenon
    <3>2. A \in SUBSET (DOMAIN rows)
      BY Zenon DEF Segment
    <3> HIDE DEF from
    <3>3. /\ A \cup scoped = Segment(rows, seal.scope, from, end)
          /\ \A a \in A, b \in scoped : a < b
      BY <1>6, <3>1, Zenon
    <3>4. A \in SUBSET Nat /\ IsFiniteSet(A)
      BY <1>2, <3>2, Positions, Zenon
    <3> HIDE DEF A
    <3>5. HashesOn(rows, A) \o HashesOn(rows, scoped) = HashesOn(rows, A \cup scoped)
      BY <1>8, <3>3, <3>4, HashesConcat, Zenon
    <3> QED BY <2>1, <2>2, <3>1, <3>3, <3>5, Zenon
  <2>3. CASE seal.from = None
    <3>1. seal.hashes = <<>>
      BY <1>4, <1>10, <2>3, Zenon
    <3>2. <<>> \o HashesOn(rows, scoped) = HashesOn(rows, scoped)
      <4>1. HashesOn(rows, {}) \o HashesOn(rows, scoped) = HashesOn(rows, {} \cup scoped)
        BY <1>8, FS_EmptySet, HashesConcat, Zenon
      <4>2. {} \cup scoped = scoped
        BY Zenon
      <4> QED BY <4>1, <4>2, NoHashes, Zenon
    <3>3. hashes = HashesOn(rows, scoped)
      BY <2>1, <3>1, <3>2, Zenon
    <3>4. CASE scoped = {}
      <4>1. from = None
        BY <2>3, <3>4, Zenon
      <4> QED BY <3>3, <3>4, <4>1, NoHashes, Zenon
    <3>5. CASE scoped # {}
      <4>1. from = rows[Min(scoped)].seq /\ scoped = Segment(rows, seal.scope, from, end)
        BY <1>6, <2>3, <3>5, Zenon
      <4>2. from \in 1 .. end
        BY <1>6, <3>5, <4>1, Zenon
      <4>3. from # None
        <5>1. from \in Nat
          BY <1>8, <4>2
        <5> QED BY <5>1, VerifyAssumption, Zenon
      <4> QED BY <3>3, <4>1, <4>3, Zenon
    <3> QED BY <3>4, <3>5
  <2> QED BY <2>2, <2>3
<1> HIDE DEF from, hashes
<1>11. CASE seal' = read /\ anchors' = anchors
  <2>1. AnchorInv'
    BY <1>1, <1>2, <1>11, SameTable, Zenon
  <2>2. read \in [scope : Anchored, from : Nat \cup {None}, hashes : {read.hashes},
                  cursor : 0 .. Len(honest)]
    <3>1. from \in Nat \cup {None}
      BY <1>9, Zenon
    <3> QED BY <1>5, <1>7, <1>8, <3>1
  <2>3. SealInv'
    BY <1>1, <1>7, <1>9, <1>10, <1>11, <2>2, Zenon DEF SealInv
  <2> QED BY <1>3, <2>1, <2>3, Zenon DEF IndInv
<1>12. CASE seal' = None /\ anchors' = anchors \cup (IF read.from = None THEN {} ELSE {Sealed(read)})
  <2>1. SealInv'
    BY <1>12, Zenon DEF SealInv
  <2>2. ASSUME NEW a \in anchors, AnchorInv
        PROVE  /\ a.scope \in Anchored /\ a.from \in 1 .. Len(honest) /\ a.to \in a.from .. Len(honest)
               /\ changed = 0 => a.root = <<honest[a.to],
                                   HashesOn(rows, Segment(rows, a.scope, a.from, a.to))>>
    BY <2>2, Zenon DEF AnchorInv
  <2>3. ASSUME from # None, NEW a, a = Sealed(read)
        PROVE  /\ a.scope \in Anchored /\ a.from \in 1 .. Len(honest) /\ a.to \in a.from .. Len(honest)
               /\ changed = 0 => a.root = <<honest[a.to],
                                   HashesOn(rows, Segment(rows, a.scope, a.from, a.to))>>
    <3>1. a = [scope |-> seal.scope, from |-> from, to |-> end,
               root |-> <<KeyForSeq(end), hashes>>]
      BY <1>7, <2>3, Zenon DEF Sealed
    <3>2. a.scope = seal.scope /\ a.from = from /\ a.to = end /\ a.root = <<KeyForSeq(end), hashes>>
      BY <3>1
    <3>3. from \in 1 .. Len(honest) /\ end \in from .. Len(honest) /\ end \in 1 .. Len(honest)
      BY <1>5, <1>8, <1>9, <2>3
    <3>4. KeyForSeq(end) = honest[end]
      BY <1>2, <3>3, Shapes, KeyForSeqIsHonest, Zenon
    <3> QED BY <1>5, <1>10, <2>3, <3>2, <3>3, <3>4, Zenon
  <2>4. \A a \in anchors' : a \in anchors \/ (from # None /\ a = Sealed(read))
    BY <1>7, <1>12, Zenon
  <2>5. AnchorInv'
    BY <1>1, <1>2, <2>2, <2>3, <2>4, Zenon DEF AnchorInv
  <2> QED BY <1>3, <2>1, <2>5, Zenon DEF IndInv
<1> QED BY <1>1, <1>11, <1>12, Zenon

-----------------------------------------------------------------------------
(* The invariant holds.                                                    *)

\* The invariant holds of an empty chain.
LEMMA InitInv == Init => IndInv
<1> SUFFICES ASSUME Init PROVE IndInv
  OBVIOUS
<1>1. /\ rows = <<>> /\ key = 0 /\ epochs = <<>> /\ anchors = {}
      /\ walk = None /\ verdict = None /\ seal = None /\ honest = <<>> /\ changed = 0
  BY Zenon DEF Init
<1>2. DOMAIN rows = {} /\ Len(rows) = 0 /\ DOMAIN epochs = {} /\ DOMAIN honest = {} /\ Len(honest) = 0
  BY <1>1
<1>3. rows \in Seq(Range(rows))
  BY <1>1
<1>4. RowsInv
  BY <1>2, <1>3, VerifyAssumption DEF RowsInv
<1>5. KeysInv
  <2>1. key \in 0 .. MaxRotations /\ honest \in Seq(0 .. key)
    BY <1>1, VerifyAssumption
  <2>2. epochs \in Seq([at : 1 .. Len(honest) + 1, key : 0 .. key])
    BY <1>1
  <2>3. \A k \in 0 .. key : ~(k < key)
    BY <1>1
  <2> QED BY <1>2, <2>1, <2>2, <2>3, Zenon DEF KeysInv
<1>6. ChangeInv
  BY <1>1, VerifyAssumption DEF ChangeInv
<1>7. IntactInv
  BY <1>2, Zenon DEF IntactInv
<1>8. WalkInv /\ VerdictInv /\ SealInv /\ AnchorInv
  BY <1>1, Zenon DEF WalkInv, VerdictInv, SealInv, AnchorInv
<1> QED BY <1>4, <1>5, <1>6, <1>7, <1>8, Zenon DEF IndInv

\* Every step keeps the invariant.
LEMMA NextInv == IndInv /\ [Next]_vars => IndInv'
<1> SUFFICES ASSUME IndInv, [Next]_vars PROVE IndInv'
  OBVIOUS
<1>1. ASSUME NEW ws \in Workspaces, NEW k \in WriterKeys, Write(ws, k) PROVE IndInv'
  BY <1>1, WriteStep, Zenon
<1>2. CASE Rotate
  BY <1>2, RotateStep, Zenon
<1>3. ASSUME NEW n \in DOMAIN rows, Edit(n) PROVE IndInv'
  BY <1>3, EditStep, Zenon
<1>4. ASSUME NEW n \in DOMAIN rows, RemoveRow(n) PROVE IndInv'
  BY <1>4, RemoveStep, Zenon
<1>5. ASSUME NEW from \in Starts, VerifyBegin(from) PROVE IndInv'
  BY <1>5, VerifyBeginStep, Zenon
<1>6. CASE VerifyPage
  BY <1>6, VerifyPageStep, Zenon
<1>7. ASSUME NEW scope \in Anchored, AnchorBegin(scope) PROVE IndInv'
  BY <1>7, AnchorBeginStep, Zenon
<1>8. CASE AnchorRead
  BY <1>8, AnchorReadStep, Zenon
<1>9. CASE UNCHANGED vars
  BY <1>9, StutterStep, Zenon
<1> QED BY <1>1, <1>2, <1>3, <1>4, <1>5, <1>6, <1>7, <1>8, <1>9, Zenon DEF Next

\* The chain, its keys, and what a verification or an anchoring under way
\* (audit.py, security_events.py) has established so far are always consistent.
THEOREM Inductive == Spec => []IndInv
  BY InitInv, NextInv, PTL DEF Spec

-----------------------------------------------------------------------------
(* What follows from it.                                                   *)

\* The rows stay in the order of their seq, retired keys are older than the
\* live one and anchors cover a range, whatever is written, rotated, changed,
\* verified or anchored (audit.py, security_events.py).
THEOREM TypeCorrect == Spec => []TypeOK
<1>1. IndInv => TypeOK
  <2> SUFFICES ASSUME IndInv PROVE TypeOK
    OBVIOUS
  <2>1. RowsInv /\ KeysInv /\ ChangeInv /\ AnchorInv
    BY Zenon DEF IndInv
  <2>2. \A i \in DOMAIN rows : rows[i].seq \in 1 .. MaxRows
    BY <2>1, Shapes
  <2>3. \A a \in anchors : a.scope \in Anchored /\ a.from <= a.to
    <3>1. Len(honest) \in Nat
      BY <2>1, Shapes, Zenon
    <3>2. \A a \in anchors : a.from \in 1 .. Len(honest) /\ a.to \in a.from .. Len(honest)
                             /\ a.scope \in Anchored
      BY <2>1, Zenon DEF AnchorInv
    <3> QED BY <3>1, <3>2
  <2> QED BY <2>1, <2>2, <2>3, Zenon DEF TypeOK, RowsInv, KeysInv, ChangeInv
<1> QED BY <1>1, Inductive, PTL

\* verify_chain answers with the first row of its range that does not
\* re-derive, and that all is well exactly when there is none: for every page
\* size, first seq, growth of the chain and sequence of rotations.
THEOREM VerdictIsFirstUnsoundHolds == Spec => []VerdictIsFirstUnsound
<1>1. IndInv => VerdictIsFirstUnsound
  <2> SUFFICES ASSUME IndInv, verdict # None PROVE VerdictIsFirstUnsound
    BY Zenon DEF VerdictIsFirstUnsound
  <2> DEFINE low == {k \in DOMAIN rows :
                       Unsound(k) /\ rows[k].seq \in verdict.from .. verdict.upto}
             bad == {rows[i].seq : i \in low}
  <2>1. RowsInv /\ KeysInv /\ VerdictInv
    BY Zenon DEF IndInv
  <2>2. verdict.ok \in BOOLEAN /\ verdict.from \in Nat \ {0} /\ verdict.upto \in 0 .. Len(honest)
    BY <2>1, Zenon DEF VerdictInv
  <2>3. /\ DOMAIN rows = 1 .. Len(rows) /\ Len(rows) \in Nat /\ Len(honest) \in Nat
        /\ \A i \in DOMAIN rows : rows[i].seq \in 1 .. Len(honest)
    BY <2>1, Shapes, Zenon
  <2>4. CASE verdict.ok
    <3>1. low = {}
      BY <2>1, <2>4, Zenon DEF VerdictInv
    <3>2. bad = {}
      BY <3>1, Zenon
    <3> QED BY <2>4, <3>2, Zenon DEF VerdictIsFirstUnsound
  <2>5. CASE ~verdict.ok
    <3>1. PICK i \in DOMAIN rows :
             /\ Unsound(i) /\ verdict.from <= rows[i].seq
             /\ verdict.bad = rows[i].seq /\ verdict.upto = rows[i].seq
             /\ \A k \in DOMAIN rows : k < i /\ rows[k].seq >= verdict.from => ~Unsound(k)
      BY <2>1, <2>5, Zenon DEF VerdictInv
    <3>2. rows[i].seq \in verdict.from .. verdict.upto
      BY <2>2, <2>3, <3>1
    <3>3. rows[i].seq \in bad
      BY <3>1, <3>2, Zenon
    <3>4. ASSUME NEW k \in low PROVE rows[i].seq <= rows[k].seq
      <4>1. k \in DOMAIN rows /\ Unsound(k) /\ rows[k].seq \in verdict.from .. verdict.upto
        BY Zenon
      <4>2. rows[k].seq >= verdict.from /\ rows[k].seq \in 1 .. Len(honest)
            /\ rows[i].seq \in 1 .. Len(honest)
        BY <2>2, <2>3, <4>1
      <4>3. ~(k < i)
        BY <3>1, <4>1, <4>2, Zenon
      <4>4. i < k => rows[i].seq < rows[k].seq
        BY <2>1, <4>1, Zenon DEF RowsInv
      <4> QED BY <2>3, <4>1, <4>2, <4>3, <4>4
    <3>5. \A n \in bad : rows[i].seq <= n /\ n \in 1 .. Len(honest)
      BY <2>3, <3>4, Zenon
    <3> HIDE DEF low, bad
    <3>6. bad \in SUBSET Nat /\ \A n \in bad : n <= Len(honest)
      BY <2>3, <3>5
    <3>7. Min(bad) \in bad /\ \A n \in bad : Min(bad) <= n
      BY <2>3, <3>3, <3>6, FS_BoundedSetOfNaturals, MinOK, Zenon
    <3>8. Min(bad) <= rows[i].seq /\ rows[i].seq <= Min(bad) /\ Min(bad) \in Nat /\ rows[i].seq \in Nat
      BY <3>3, <3>5, <3>6, <3>7, Zenon
    <3>9. Min(bad) = rows[i].seq
      BY <3>8
    <3>10. bad # {} /\ verdict.bad = Min(bad)
      BY <3>1, <3>3, <3>9, Zenon
    <3> QED BY <2>5, <3>10, Zenon DEF VerdictIsFirstUnsound, bad, low
  <2> QED BY <2>4, <2>5
<1> QED BY <1>1, Inductive, PTL

\* A whole verification begun after a row was edited or removed does not pass,
\* unless what was removed is the end of the chain (verify_chain).
THEOREM ChangeIsSeenHolds == Spec => []ChangeIsSeen
<1>1. IndInv => ChangeIsSeen
  <2> SUFFICES ASSUME IndInv, changed # 0, verdict # None, verdict.from = 1, verdict.ok
               PROVE  \A i \in DOMAIN rows : rows[i].seq < changed
    BY Zenon DEF ChangeIsSeen
  <2>1. RowsInv /\ KeysInv /\ VerdictInv /\ ChangeInv
    BY Zenon DEF IndInv
  <2>2. /\ verdict.upto \in 0 .. Len(honest)
        /\ \A i \in DOMAIN rows : rows[i].seq \in verdict.from .. verdict.upto => ~Unsound(i)
        /\ \A i \in DOMAIN rows : rows[i].seq <= verdict.upto
    BY <2>1, Zenon DEF VerdictInv
  <2>3. Len(honest) \in Nat /\ \A i \in DOMAIN rows : rows[i].seq \in 1 .. Len(honest)
    BY <2>1, Shapes, Zenon
  <2>4. \A i \in DOMAIN rows : rows[i].seq \in verdict.from .. verdict.upto
    BY <2>2, <2>3
  <2> QED BY <2>1, <2>2, <2>4, Zenon DEF ChangeInv
<1> QED BY <1>1, Inductive, PTL

\* verify_latest's query reaches back to the first row of the scope's anchor.
InWindow(scope) ==
    Latest(scope) # None /\ Len(rows) < Latest(scope).from + QueryLimit

\* Within the window of its query verify_latest recomputes the root.
LEMMA MatchesInWindow ==
    ASSUME IndInv, changed = 0, NEW scope, Latest(scope) = None \/ InWindow(scope)
    PROVE  Matches(scope)
<1>1. CASE Latest(scope) = None
  BY <1>1, Zenon DEF Matches
<1>2. CASE Latest(scope) # None
  <2>1. RowsInv /\ KeysInv /\ IntactInv /\ AnchorInv
    BY Zenon DEF IndInv
  <2>2. PICK a \in anchors : a = Latest(scope) /\ a.scope = scope /\ Len(rows) < a.from + QueryLimit
    BY <1>2, <2>1, LatestOK, Zenon DEF InWindow
  <2>3. /\ a.from \in 1 .. Len(honest) /\ a.to \in a.from .. Len(honest)
        /\ a.root = <<honest[a.to], HashesOn(rows, Segment(rows, a.scope, a.from, a.to))>>
    BY <2>1, Zenon DEF AnchorInv
  <2>4. Len(honest) \in Nat /\ DOMAIN rows = 1 .. Len(rows) /\ Len(rows) \in Nat
        /\ DOMAIN honest = 1 .. Len(honest) /\ QueryLimit \in Nat
        /\ \A i \in DOMAIN rows : rows[i].seq = i
    BY <2>1, Shapes, VerifyAssumption DEF IntactInv
  <2>5. \A i \in DOMAIN rows : rows[i].seq \in a.from .. a.to => Len(rows) < i + QueryLimit
    BY <2>2, <2>3, <2>4
  <2>6. {i \in Query(QueryLimit) : InScope(rows[i], scope) /\ rows[i].seq \in a.from .. a.to}
          = Segment(rows, scope, a.from, a.to)
    BY <2>5, Zenon DEF Query, Segment
  <2>7. a.to \in DOMAIN honest
    BY <2>3, <2>4
  <2>8. KeyForSeq(a.to) = honest[a.to]
    BY <2>1, <2>7, KeyForSeqIsHonest, Zenon
  <2>9. a.root = <<KeyForSeq(a.to), Hashes({i \in Query(QueryLimit) :
                     InScope(rows[i], scope) /\ rows[i].seq \in a.from .. a.to})>>
    BY <2>2, <2>3, <2>6, <2>8, HashesAre, Zenon
  <2> QED BY <2>2, <2>9, Zenon DEF Matches
<1> QED BY <1>1, <1>2

\* While nothing was changed, an anchor that verify_latest's query still reaches
\* recomputes, across rotations, workspaces and growth of the chain.
AnchorsInWindowMatch ==
    changed = 0 => \A scope \in Anchored : InWindow(scope) => Matches(scope)

\* verify_latest raises no false alarm within the window of its query
\* (security_events.py), for every chain.
THEOREM AnchorsInWindowMatchHolds == Spec => []AnchorsInWindowMatch
<1>1. IndInv => AnchorsInWindowMatch
  BY MatchesInWindow, Zenon DEF AnchorsInWindowMatch
<1> QED BY <1>1, Inductive, PTL

\* As long as the chain is no longer than the query of verify_latest reaches,
\* the latest anchor of every scope recomputes.
THEOREM AnchorsMatchHolds ==
    ASSUME MaxRows <= QueryLimit
    PROVE  Spec => []AnchorsMatch
<1>1. IndInv => AnchorsMatch
  <2> SUFFICES ASSUME IndInv, changed = 0, NEW scope \in Anchored PROVE Matches(scope)
    BY Zenon DEF AnchorsMatch
  <2>1. RowsInv /\ KeysInv /\ IntactInv /\ AnchorInv
    BY Zenon DEF IndInv
  <2>2. Len(honest) \in Nat /\ Len(rows) = Len(honest) /\ Len(honest) <= MaxRows
        /\ MaxRows \in Nat /\ QueryLimit \in Nat
    BY <2>1, Shapes, VerifyAssumption DEF IntactInv
  <2>3. ASSUME NEW a \in anchors PROVE Len(rows) < a.from + QueryLimit
    <3>1. a.from \in 1 .. Len(honest)
      BY <2>1, Zenon DEF AnchorInv
    <3> QED BY <2>2, <3>1
  <2>4. Latest(scope) = None \/ InWindow(scope)
    BY <2>1, <2>3, LatestOK, Zenon DEF InWindow
  <2> QED BY <2>4, MatchesInWindow, Zenon
<1> QED BY <1>1, Inductive, PTL

\* As many hashes are read as there are positions.
LEMMA HashesLen ==
    ASSUME NEW S \in SUBSET Nat, IsFiniteSet(S), NEW r
    PROVE  Len(HashesOn(r, S)) = Cardinality(S)
<1> DEFINE T == {r[n].hash : n \in S}
<1>1. \A n \in S : r[n].hash \in T
  BY Zenon
<1> HIDE DEF T
<1> QED BY <1>1, HashesSeq, Zenon

\* The segment that is left is shorter than what was sealed.
LEMMA RemovalStep ==
    ASSUME IndInv, NEW n \in DOMAIN rows, RemoveRow(n), Latest(None) # None,
           n \in Latest(None).from .. Latest(None).to
    PROVE  ~Matches(None)'
<1>1. RowsInv /\ KeysInv /\ IntactInv /\ AnchorInv /\ changed = 0
      /\ rows' = [i \in 1 .. Len(rows) - 1 |-> rows[IF i < n THEN i ELSE i + 1]]
      /\ anchors' = anchors
  BY Zenon DEF IndInv, RemoveRow
<1>2. PICK a \in anchors : a = Latest(None) /\ a.scope = None
  BY <1>1, LatestOK, Zenon
<1>3. Latest(None)' = a
  <2>1. anchors' = anchors
    BY <1>1, Zenon
  <2>2. Latest(None)' = Latest(None)
    BY <2>1 DEF Latest
  <2> QED BY <1>2, <2>2, Zenon
<1>4. /\ a.from \in 1 .. Len(honest) /\ a.to \in a.from .. Len(honest) /\ n \in a.from .. a.to
      /\ a.root = <<honest[a.to], HashesOn(rows, Segment(rows, None, a.from, a.to))>>
  BY <1>1, <1>2, Zenon DEF AnchorInv
<1>5. Len(honest) \in Nat /\ Len(rows) = Len(honest) /\ DOMAIN rows = 1 .. Len(rows)
      /\ \A i \in DOMAIN rows : rows[i].seq = i
  BY <1>1, Shapes DEF IntactInv
<1>6. a.from \in Nat /\ a.to \in Nat /\ a.from <= a.to
  BY <1>4, <1>5
<1>7. Segment(rows, None, a.from, a.to) = a.from .. a.to
  <2>1. \A i \in a.from .. a.to : i \in DOMAIN rows
    BY <1>4, <1>5
  <2> QED BY <1>5, <2>1, Zenon DEF Segment, InScope
<1>8. Len(a.root[2]) = a.to - a.from + 1
  <2>1. IsFiniteSet(a.from .. a.to)
        /\ Cardinality(a.from .. a.to) = IF a.from > a.to THEN 0 ELSE a.to - a.from + 1
    <3>1. a.from \in Int /\ a.to \in Int
      BY <1>6
    <3> QED BY <3>1, FS_Interval, Zenon
  <2>2. a.from .. a.to \in SUBSET Nat /\ Cardinality(a.from .. a.to) = a.to - a.from + 1
    BY <1>6, <2>1
  <2>3. Len(HashesOn(rows, a.from .. a.to)) = a.to - a.from + 1
    BY <2>1, <2>2, HashesLen, Zenon
  <2>4. a.root[2] = HashesOn(rows, a.from .. a.to)
    BY <1>4, <1>7
  <2> QED BY <2>3, <2>4, Zenon
<1> DEFINE left == {i \in Query(QueryLimit)' : InScope(rows'[i], None) /\ rows'[i].seq \in a.from .. a.to}
<1>9. Matches(None)' => a.root[2] = HashesOn(rows', left)
  <2>1. Matches(None)' =>
           \/ Latest(None)' = None
           \/ (Latest(None)').root = <<KeyForSeq(Latest(None).to)', HashesOn(rows',
                 {i \in Query(QueryLimit)' : InScope(rows'[i], None)
                    /\ rows'[i].seq \in (Latest(None)').from .. (Latest(None)').to})>>
    BY Zenon DEF Matches, Hashes, HashesOn, Nth, Below
  <2>2. Matches(None)' => a.root = <<KeyForSeq(Latest(None).to)', HashesOn(rows', left)>>
    BY <1>2, <1>3, <2>1, Zenon
  <2> HIDE DEF left
  <2> QED BY <2>2
<1>10. left \in SUBSET (a.from .. (a.to - 1))
  <2> SUFFICES ASSUME NEW i \in left PROVE i \in a.from .. (a.to - 1)
    BY Zenon
  <2>1. i \in DOMAIN rows' /\ rows'[i].seq \in a.from .. a.to
    BY Zenon DEF Query
  <2>2. i \in 1 .. Len(rows) - 1 /\ rows'[i] = rows[IF i < n THEN i ELSE i + 1]
    BY <1>1, <2>1, Zenon
  <2>3. CASE i < n
    <3>1. i \in DOMAIN rows /\ rows'[i] = rows[i]
      BY <1>5, <2>2, <2>3
    <3>2. i \in a.from .. a.to
      BY <1>5, <2>1, <3>1, Zenon
    <3> QED BY <1>4, <1>6, <2>3, <3>2
  <2>4. CASE ~(i < n)
    <3>1. i + 1 \in DOMAIN rows /\ rows'[i] = rows[i + 1]
      BY <1>5, <2>2, <2>4
    <3>2. i + 1 \in a.from .. a.to
      BY <1>5, <2>1, <3>1, Zenon
    <3> QED BY <1>4, <1>6, <2>2, <2>4, <3>2
  <2> QED BY <2>3, <2>4
<1>11. Len(HashesOn(rows', left)) <= a.to - a.from /\ Len(HashesOn(rows', left)) \in Nat
  <2> HIDE DEF left
  <2>1. IsFiniteSet(a.from .. (a.to - 1)) /\ Cardinality(a.from .. (a.to - 1)) =
           IF a.from > a.to - 1 THEN 0 ELSE (a.to - 1) - a.from + 1
    <3>1. a.from \in Int /\ a.to - 1 \in Int
      BY <1>6
    <3> QED BY <3>1, FS_Interval, Zenon
  <2>2. IsFiniteSet(left) /\ Cardinality(left) <= Cardinality(a.from .. (a.to - 1))
        /\ Cardinality(left) \in Nat
    BY <1>10, <2>1, FS_Subset, FS_CardinalityType, Zenon
  <2>3. left \in SUBSET Nat
    BY <1>6, <1>10
  <2>4. Len(HashesOn(rows', left)) = Cardinality(left)
    BY <2>2, <2>3, HashesLen, Zenon
  <2> QED BY <1>6, <2>1, <2>2, <2>4
<1> HIDE DEF left
<1>12. a.root[2] # HashesOn(rows', left)
  BY <1>6, <1>8, <1>11
<1> QED BY <1>9, <1>12, Zenon

\* Removing a row that the tenant's latest anchor covers, the end of the chain
\* included, makes verify_latest report a mismatch: the truncation that
\* verify_chain cannot see (security_events.py).
THEOREM RemovalBreaksAnchorHolds == Spec => RemovalBreaksAnchor
<1> DEFINE Broken == \A n \in DOMAIN rows :
                        /\ RemoveRow(n)
                        /\ Latest(None) # None
                        /\ n \in Latest(None).from .. Latest(None).to
                        => ~Matches(None)'
<1>1. IndInv => [Broken]_vars
  <2>1. IndInv => Broken
    BY RemovalStep, Zenon
  <2> QED BY <2>1, Zenon
<1>2. [][Broken]_vars <=> RemovalBreaksAnchor
  BY DEF RemovalBreaksAnchor
<1> HIDE DEF Broken
<1> QED BY <1>1, <1>2, Inductive, PTL
=============================================================================
