----------------------------- MODULE AuditVerify ----------------------------
(***************************************************************************)
(* Re-deriving the audit chain of one tenant: verify_chain (kernel/        *)
(* audit.py) pages through the rows while the chain grows, resolving the   *)
(* key of each row from the retired epochs; AuditAnchorer (kernel/         *)
(* security_events.py) seals the unanchored tail, of the tenant or of one  *)
(* workspace, and recomputes its latest seal on demand.                    *)
(*                                                                         *)
(* The rows are what AuditChain shows the writers build.  Corruption of    *)
(* the table, at most one change, stands for anything that edits it        *)
(* without the writers.                                                    *)
(***************************************************************************)
EXTENDS Naturals, Sequences, FiniteSets, FiniteSetsExt

CONSTANTS Workspaces,    \* workspaces an event may belong to
          MaxRows,       \* bound: rows ever written
          MaxRotations,  \* bound: key rotations
          Starts,        \* first seqs of verifications (1: the whole chain)
          Anchored,      \* scopes that are anchored: workspaces, or None
          PageSize,      \* page of verify_chain
          AnchorPage,    \* _ANCHOR_PAGE
          QueryLimit,    \* the limit verify_latest passes to audit_query
          Rolling,       \* a writer may keep the retired key after a rotation
          Corruptible,   \* the table may be changed once
          None

ASSUME VerifyAssumption ==
    /\ MaxRows \in Nat /\ MaxRotations \in Nat
    /\ PageSize \in Nat \ {0} /\ AnchorPage \in Nat \ {0}
    /\ QueryLimit \in Nat \ {0}
    /\ Rolling \in BOOLEAN /\ Corruptible \in BOOLEAN
    /\ Starts \subseteq Nat \ {0}
    /\ None \notin Workspaces \cup Nat
    /\ Anchored \subseteq Workspaces \cup {None}

VARIABLES rows,      \* audit_log by seq: [seq, ws, prev, hash]
          key,       \* the live HMAC key: the number of rotations so far
          epochs,    \* BOLTRIG_AUDIT_HMAC_RETIRED, as listed: [at, key]
          anchors,   \* audit_rollup_anchors: [scope, from, to, root]
          walk,      \* the verification under way, or None
          verdict,   \* the answer of the verification just done: [ok, bad, from, upto]
          seal,      \* the anchoring under way, or None
          honest,    \* history: the key each seq should be sealed with
          changed    \* history: the seq of the changed or removed row, or 0

vars == <<rows, key, epochs, anchors, walk, verdict, seal, honest, changed>>

-----------------------------------------------------------------------------
(* HMAC-SHA256 is modelled by what it covers; the first row of a chain has *)
(* no hash before it.                                                      *)
Hmac(k, r) == <<k, r.seq, r.ws, r.prev>>
NoHash == <<>>
HashBefore(i) == IF i = 1 THEN NoHash ELSE rows[i - 1].hash

(* _key_for_seq with the boundary inclusive. *)
KeyForSeqInclusive(n) ==
    LET later == {i \in DOMAIN epochs : n <= epochs[i].at}
    IN  IF later = {} THEN key
        ELSE epochs[CHOOSE i \in later :
                      \A k \in later : epochs[i].at <= epochs[k].at].key

(* _retired_epochs sorts by boundary, _key_for_seq takes the first epoch   *)
(* whose boundary the row predates.                                        *)
KeyForSeq(n) ==
    LET later == {i \in DOMAIN epochs : n < epochs[i].at}
    IN  IF later = {} THEN key
        ELSE epochs[CHOOSE i \in later :
                      \A k \in later : epochs[i].at <= epochs[k].at].key

(* audit_scan: the rows after a seq, oldest first, at most limit of them.  *)
(* The rows are stored in the order of their seq, so what a query selects  *)
(* is a set of positions.                                                  *)
Scan(after, limit) ==
    LET later == {i \in DOMAIN rows : rows[i].seq > after}
    IN  {i \in later : Cardinality({k \in later : k < i}) < limit}

(* audit_query: the newest rows, at most limit of them. *)
Query(limit) == {i \in DOMAIN rows : Len(rows) < i + limit}

(* The hashes of the rows at these positions, oldest first. *)
Hashes(S) ==
    [i \in 1 .. Cardinality(S) |->
        rows[CHOOSE n \in S : Cardinality({k \in S : k < n}) = i - 1].hash]

Init ==
    /\ rows = <<>> /\ key = 0 /\ epochs = <<>> /\ anchors = {}
    /\ walk = None /\ verdict = None /\ seal = None
    /\ honest = <<>> /\ changed = 0

-----------------------------------------------------------------------------
(* A writer appends, sealing with the key of its process; one that has not *)
(* been restarted since a rotation still holds the retired key.            *)
WriterKeys == {key} \cup {k \in {key - 1} : Rolling /\ key > 0}

(* A row given the head's own seq. *)
WriteAtHead(ws, k) ==
    LET r == [seq |-> Len(honest), ws |-> ws,
              prev |-> HashBefore(Len(rows) + 1)]
    IN  /\ Len(honest) < MaxRows
        /\ changed = 0
        /\ rows' = Append(rows, [seq |-> r.seq, ws |-> r.ws, prev |-> r.prev,
                                 hash |-> Hmac(k, r)])
        /\ honest' = Append(honest, key)
        /\ UNCHANGED <<key, epochs, anchors, walk, verdict, seal, changed>>

Write(ws, k) ==
    LET r == [seq |-> Len(honest) + 1, ws |-> ws,
              prev |-> HashBefore(Len(rows) + 1)]
    IN  /\ Len(honest) < MaxRows
        /\ changed = 0
        /\ rows' = Append(rows, [seq |-> r.seq, ws |-> r.ws, prev |-> r.prev,
                                 hash |-> Hmac(k, r)])
        /\ honest' = Append(honest, key)
        /\ UNCHANGED <<key, epochs, anchors, walk, verdict, seal, changed>>

(* The operator retires the key that sealed the last row from the next seq *)
(* on, lists the epoch before or after the others, and restarts: a         *)
(* verification or an anchoring under way is lost.                         *)
Rotate ==
    LET retired == [at |-> Len(honest) + 1, key |-> key]
    IN  /\ key < MaxRotations
        /\ honest # <<>> /\ honest[Len(honest)] = key
        /\ epochs' \in {<<retired>> \o epochs, Append(epochs, retired)}
        /\ key' = key + 1
        /\ walk' = None /\ verdict' = None /\ seal' = None
        /\ UNCHANGED <<rows, anchors, honest, changed>>

(* The table changes without a writer: a row's content is edited or the    *)
(* row is removed.  Only verifications begun after it are judged, and the  *)
(* chain is not written to any more.                                       *)
Edit(n) ==
    /\ Corruptible /\ changed = 0
    /\ \E ws \in Workspaces \ {rows[n].ws} :
          rows' = [rows EXCEPT ![n].ws = ws]
    /\ changed' = n
    /\ walk' = None /\ verdict' = None
    /\ UNCHANGED <<key, epochs, anchors, seal, honest>>

RemoveRow(n) ==
    /\ Corruptible /\ changed = 0
    /\ rows' = [i \in 1 .. Len(rows) - 1 |-> rows[IF i < n THEN i ELSE i + 1]]
    /\ changed' = n
    /\ walk' = None /\ verdict' = None
    /\ UNCHANGED <<key, epochs, anchors, seal, honest>>

-----------------------------------------------------------------------------
(* verify_chain and its callers. *)

(* AuditWriter.verify from seq 1, or audit-verify --from-seq with its seed *)
(* read from the row before the segment.                                   *)
VerifyBegin(from) ==
    /\ walk = None
    /\ from > 1 => Scan(from - 2, 1) # {}
    /\ walk' = [from |-> from, after |-> from - 1,
                prev |-> IF from = 1 THEN NoHash ELSE rows[Min(Scan(from - 2, 1))].hash]
    /\ verdict' = None
    /\ UNCHANGED <<rows, key, epochs, anchors, seal, honest, changed>>

(* The rows of a page that do not re-derive after a row hashing to prev. *)
BadIn(page, prev) ==
    {i \in page :
        \/ rows[i].prev # IF i = Min(page) THEN prev ELSE rows[i - 1].hash
        \/ rows[i].hash # Hmac(KeyForSeq(rows[i].seq), rows[i])}

Answer(ok, bad, upto) ==
    /\ verdict' = [ok |-> ok, bad |-> bad, from |-> walk.from, upto |-> upto]
    /\ walk' = None

(* One page whose first hash is not compared with the page before it. *)
VerifyPageForgets ==
    LET page == Scan(walk.after, PageSize)
        bad  == BadIn(page, rows[Min(page)].prev)
    IN  /\ walk # None
        /\ IF page = {} THEN Answer(TRUE, None, walk.after)
           ELSE IF bad # {} THEN Answer(FALSE, rows[Min(bad)].seq, rows[Min(bad)].seq)
           ELSE /\ walk' = [walk EXCEPT !.after = rows[Max(page)].seq,
                                        !.prev = rows[Max(page)].hash]
                /\ UNCHANGED verdict
        /\ UNCHANGED <<rows, key, epochs, anchors, seal, honest, changed>>

(* One page of the walk: the first bad row ends it, no rows end it well. *)
VerifyPage ==
    LET page == Scan(walk.after, PageSize)
        bad  == BadIn(page, walk.prev)
    IN  /\ walk # None
        /\ IF page = {} THEN Answer(TRUE, None, walk.after)
           ELSE IF bad # {} THEN Answer(FALSE, rows[Min(bad)].seq, rows[Min(bad)].seq)
           ELSE /\ walk' = [walk EXCEPT !.after = rows[Max(page)].seq,
                                        !.prev = rows[Max(page)].hash]
                /\ UNCHANGED verdict
        /\ UNCHANGED <<rows, key, epochs, anchors, seal, honest, changed>>

-----------------------------------------------------------------------------
(* AuditAnchorer. *)

InScope(r, scope) == scope = None \/ r.ws = scope

(* latest_audit_anchor: of the scope's own stream, the one reaching last. *)
Latest(scope) ==
    LET own == {a \in anchors : a.scope = scope}
    IN  IF own = {} THEN None
        ELSE CHOOSE a \in own : \A b \in own : a.to >= b.to

(* anchor: start after the previous anchor of the scope. *)
AnchorBegin(scope) ==
    /\ seal = None
    /\ seal' = [scope |-> scope, from |-> None, hashes |-> <<>>,
                cursor |-> IF Latest(scope) = None THEN 0 ELSE Latest(scope).to]
    /\ UNCHANGED <<rows, key, epochs, anchors, walk, verdict, honest, changed>>

(* An anchor sealed with the live key. *)
SealedLive(s) ==
    [scope |-> s.scope, from |-> s.from, to |-> s.cursor,
     root |-> <<key, s.hashes>>]

(* The anchor over what was read, sealed with the key in force at its end. *)
Sealed(s) ==
    [scope |-> s.scope, from |-> s.from, to |-> s.cursor,
     root |-> <<KeyForSeq(s.cursor), s.hashes>>]

(* One page of the tail; a short page ends it, and nothing read writes     *)
(* nothing.                                                                *)
AnchorRead ==
    LET page   == Scan(seal.cursor, AnchorPage)
        scoped == {i \in page : InScope(rows[i], seal.scope)}
        read   == [seal EXCEPT
                     !.cursor = IF page = {} THEN @ ELSE rows[Max(page)].seq,
                     !.from   = IF @ = None /\ scoped # {}
                                THEN rows[Min(scoped)].seq ELSE @,
                     !.hashes = @ \o Hashes(scoped)]
    IN  /\ seal # None
        /\ IF Cardinality(page) = AnchorPage
           THEN seal' = read /\ UNCHANGED anchors
           ELSE /\ seal' = None
                /\ anchors' = anchors \cup (IF read.from = None THEN {}
                                            ELSE {Sealed(read)})
        /\ UNCHANGED <<rows, key, epochs, walk, verdict, honest, changed>>

(* verify_latest comparing only the rows that are left. *)
MatchesPrefix(scope) ==
    LET a       == Latest(scope)
        segment == {i \in Query(QueryLimit) :
                      InScope(rows[i], scope) /\ rows[i].seq \in a.from .. a.to}
    IN  a = None \/ \A i \in segment : rows[i].hash \in Range(a.root[2])

(* verify_latest: recompute the root of the scope's latest anchor. *)
Matches(scope) ==
    LET a       == Latest(scope)
        segment == {i \in Query(QueryLimit) :
                      InScope(rows[i], scope) /\ rows[i].seq \in a.from .. a.to}
    IN  a = None \/ a.root = <<KeyForSeq(a.to), Hashes(segment)>>

Next ==
    \/ \E ws \in Workspaces : \E k \in WriterKeys : Write(ws, k)
    \/ Rotate
    \/ \E n \in DOMAIN rows : Edit(n) \/ RemoveRow(n)
    \/ \E from \in Starts : VerifyBegin(from)
    \/ VerifyPage
    \/ \E scope \in Anchored : AnchorBegin(scope)
    \/ AnchorRead

Spec == Init /\ [][Next]_vars

-----------------------------------------------------------------------------
\* Every variable keeps its shape: rows in the order of their seq, retired keys
\* older than the live one.
TypeOK ==
    /\ \A i \in DOMAIN rows : rows[i].seq \in 1 .. MaxRows
    /\ \A i, k \in DOMAIN rows : i < k => rows[i].seq < rows[k].seq
    /\ key \in 0 .. MaxRotations
    /\ \A i \in DOMAIN epochs : epochs[i].key < key
    /\ \A a \in anchors : a.scope \in Anchored /\ a.from <= a.to
    /\ changed \in 0 .. MaxRows

(* A row that does not re-derive: sealed with another key than the one in  *)
(* force when its seq was assigned, or not chained to the row before.      *)
Unsound(i) ==
    \/ rows[i].hash # Hmac(honest[rows[i].seq], rows[i])
    \/ rows[i].prev # HashBefore(i)

(* A verification answers with the first row of its range that does not    *)
(* re-derive, and that all is well when there is none, whatever its pages, *)
(* its first seq, and however the chain grew and keys rotated before and   *)
(* meanwhile (verify_chain: "Returns (ok, first_bad_seq)").                *)
VerdictIsFirstUnsound ==
    verdict # None =>
        LET bad == {rows[i].seq : i \in {k \in DOMAIN rows :
                      Unsound(k) /\ rows[k].seq \in verdict.from .. verdict.upto}}
        IN  IF verdict.ok THEN bad = {} ELSE bad # {} /\ verdict.bad = Min(bad)

(* A whole verification begun after a row was edited or removed reports    *)
(* it, unless what was removed is the end of the chain (audit.py: the      *)
(* tamper-evidence chain).                                                 *)
ChangeIsSeen ==
    (changed # 0 /\ verdict # None /\ verdict.from = 1 /\ verdict.ok) =>
        \A i \in DOMAIN rows : rows[i].seq < changed

(* Nothing changed, so the latest anchor of every scope recomputes, across *)
(* rotations, workspaces and growth of the chain (verify_latest: "A        *)
(* mismatch means the segment was rewritten after anchoring").             *)
AnchorsMatch ==
    changed = 0 => \A scope \in Anchored : Matches(scope)

(* Removing an anchored row, the end of the chain included, breaks the     *)
(* tenant's anchor, which is what catches the truncation the walk cannot   *)
(* see.                                                                    *)
RemovalBreaksAnchor ==
    [][ \A n \in DOMAIN rows :
          /\ RemoveRow(n)
          /\ Latest(None) # None
          /\ n \in Latest(None).from .. Latest(None).to
          => ~Matches(None)' ]_vars
=============================================================================
