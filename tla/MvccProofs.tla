----------------------------- MODULE MvccProofs -----------------------------
(***************************************************************************)
(* Machine-checked proofs about Mvcc, for every number of sessions, keys,   *)
(* rows and savepoints.  The invariant that carries the induction is        *)
(* IInv: types, the ownership of xids, and the savepoint marks hold each    *)
(* other up (ROLLBACK TO keeps the write log a sequence only because marks  *)
(* are in range, marks stay in range only because no two sessions share an  *)
(* xid, and xids are fresh only because active ones are below the counter). *)
(* The second part proves that nothing aborted remains (AInv), the third    *)
(* what row locks are for.                                                  *)
(***************************************************************************)
EXTENDS Mvcc, Integers, TLAPS, SequenceTheorems, FiniteSetTheorems, WellFoundedInduction

IInv == FieldTypes /\ XidOwnership /\ SavepointMarks

-----------------------------------------------------------------------------
(* Numbers and sequences. *)

(* A nonempty bounded set of naturals has a greatest element. *)
LEMMA GreatestElement ==
    ASSUME NEW n \in Nat, NEW S, S \subseteq 0..n, S # {}
    PROVE  \E x \in S : \A y \in S : y <= x
<1> DEFINE T == {n - x : x \in S}
           R == OpToRel(<, Nat)
<1>1. T \subseteq Nat /\ T # {}
  <2>1. \A x \in S : n - x \in Nat
    OBVIOUS
  <2>2. PICK x \in S : TRUE
    OBVIOUS
  <2>3. n - x \in T
    BY <2>2
  <2> QED
    BY <2>1, <2>3
<1>2. PICK m \in T : \A y \in T : ~ (<<y, m>> \in R)
  <2> HIDE DEF T, R
  <2>1. IsWellFoundedOn(R, Nat)
    BY NatLessThanWellFounded DEF R
  <2> QED
    BY <1>1, <2>1, WFMin
<1>3. PICK x \in S : m = n - x
    OBVIOUS
<1>4. ASSUME NEW y \in S PROVE y <= x
  <2>1. n - y \in T /\ n - y \in Nat /\ m \in Nat
    BY <1>1
  <2>2. ~ (n - y < m)
    BY <1>2, <2>1 DEF OpToRel
  <2> QED
    BY <1>3, <2>2
<1> QED
    BY <1>4

(* Above(n, S) is at least n and above every element of S. *)
LEMMA AboveBounds ==
    ASSUME NEW n \in Nat, NEW m \in Nat, NEW S, S \subseteq 0..m
    PROVE  /\ Above(n, S) \in Nat
           /\ Above(n, S) >= n
           /\ \A x \in S : x < Above(n, S)
<1>1. CASE \E x \in S : x >= n
  <2> DEFINE g == CHOOSE x \in S : \A y \in S : y <= x
  <2>1. \E x \in S : \A y \in S : y <= x
    BY <1>1, GreatestElement
  <2>2. g \in S /\ \A y \in S : y <= g
    BY <2>1, Zenon
  <2>3. Above(n, S) = g + 1
    BY <1>1 DEF Above
  <2> HIDE DEF g
  <2> QED
    BY <1>1, <2>2, <2>3
<1>2. CASE ~ \E x \in S : x >= n
    BY <1>2 DEF Above
<1> QED
    BY <1>1, <1>2

(* Cutting a sequence at a length it has. *)
LEMMA TruncateSeq ==
    ASSUME NEW S, NEW q \in Seq(S), NEW n \in 0..Len(q)
    PROVE  /\ Truncate(q, n) \in Seq(S)
           /\ Len(Truncate(q, n)) = n
           /\ \A i \in 1..n : Truncate(q, n)[i] = q[i]
<1>1. Len(q) \in Nat /\ \A i \in 1..Len(q) : q[i] \in S
    BY LenProperties, ElementOfSeq
<1>2. \A i \in 1..n : q[i] \in S
    BY <1>1
<1> QED
    BY <1>1, <1>2, SubSeqProperties DEF Truncate

(* The ops from a position in the write log on. *)
LEMMA SuffixSeq ==
    ASSUME NEW S, NEW q \in Seq(S), NEW n \in Nat
    PROVE  SubSeq(q, n + 1, Len(q)) \in Seq(S)
<1>1. Len(q) \in Nat /\ \A i \in 1..Len(q) : q[i] \in S
    BY LenProperties, ElementOfSeq
<1>2. \A i \in n + 1 .. Len(q) : q[i] \in S
    BY <1>1
<1> QED
    BY <1>1, <1>2, SubSeqProperties
-----------------------------------------------------------------------------
(* What the row-table operators return. *)

(* The newest op that stamped r exists whenever some op did. *)
LEMMA NewestStampExists ==
    ASSUME NEW ops \in Seq(WriteOp), NEW r, \E i \in DOMAIN ops : ops[i].old = r
    PROVE  /\ NewestStamp(ops, r) \in DOMAIN ops
           /\ ops[NewestStamp(ops, r)].old = r
           /\ ops[NewestStamp(ops, r)].prev \in Nat
<1> DEFINE S == {i \in DOMAIN ops : ops[i].old = r}
<1>1. DOMAIN ops = 1..Len(ops) /\ Len(ops) \in Nat
    BY LenProperties
<1>2. S \subseteq 0..Len(ops) /\ S # {}
    BY <1>1
<1>3. \E x \in S : \A y \in S : y <= x
  <2> HIDE DEF S
  <2> QED
    BY <1>1, <1>2, GreatestElement
<1>4. \E i \in DOMAIN ops :
        /\ ops[i].old = r
        /\ \A j \in DOMAIN ops : ops[j].old = r => j <= i
    BY <1>3, Zenon
<1>5. NewestStamp(ops, r) \in DOMAIN ops /\ ops[NewestStamp(ops, r)].old = r
    BY <1>4, Zenon DEF NewestStamp
<1>6. ops[NewestStamp(ops, r)] \in WriteOp
    BY <1>1, <1>5, ElementOfSeq
<1> QED
    BY <1>5, <1>6 DEF WriteOp

(* Undoing write ops keeps a row table a row table, within its ids. *)
LEMMA UndoAllType ==
    ASSUME NEW n \in Nat, NEW rws, RowTable(rws, n),
           NEW owns, NEW ops \in Seq(WriteOp)
    PROVE  RowTable(undo_all(rws, owns, ops), n)
<1> DEFINE gone == {r \in DOMAIN rws : /\ rws[r].xmin \in owns
                                       /\ \E i \in DOMAIN ops : ops[i].new = r}
           val(r) == IF rws[r].xmax \in owns /\ \E i \in DOMAIN ops : ops[i].old = r
                     THEN [rws[r] EXCEPT !.xmax = ops[NewestStamp(ops, r)].prev]
                     ELSE rws[r]
<1>1. undo_all(rws, owns, ops) = [r \in DOMAIN rws \ gone |-> val(r)]
    BY DEF undo_all
<1>2. ASSUME NEW r \in DOMAIN rws PROVE val(r) \in RowVersion
  <2>1. rws[r] \in RowVersion
    BY DEF RowTable
  <2>2. CASE rws[r].xmax \in owns /\ \E i \in DOMAIN ops : ops[i].old = r
    <3>1. ops[NewestStamp(ops, r)].prev \in Nat
      BY <2>2, NewestStampExists
    <3> QED
      BY <2>1, <2>2, <3>1 DEF RowVersion
  <2>3. CASE ~(rws[r].xmax \in owns /\ \E i \in DOMAIN ops : ops[i].old = r)
    BY <2>1, <2>3
  <2> QED
    BY <2>2, <2>3
<1> HIDE DEF gone, val
<1>3. DOMAIN undo_all(rws, owns, ops) \subseteq DOMAIN rws
    BY <1>1
<1>4. \A r \in DOMAIN undo_all(rws, owns, ops) : undo_all(rws, owns, ops)[r] \in RowVersion
    BY <1>1, <1>2
<1> QED
    BY <1>1, <1>3, <1>4 DEF RowTable

(* VACUUM only removes versions. *)
LEMMA VacuumType ==
    ASSUME NEW n \in Nat, NEW rws, RowTable(rws, n), NEW act, NEW snaps, NEW writes
    PROVE  /\ RowTable(vacuum_table(rws, act, snaps), n)
           /\ RowTable(auto_vacuum(rws, writes, act, snaps), n)
<1> DEFINE keep == {q \in DOMAIN rws : ~version_dead_to_all(rws[q], act, snaps)}
<1>1. vacuum_table(rws, act, snaps) = [r \in keep |-> rws[r]] /\ keep \subseteq DOMAIN rws
    BY DEF vacuum_table
<1> HIDE DEF keep
<1>2. RowTable(vacuum_table(rws, act, snaps), n)
    BY <1>1 DEF RowTable
<1> QED
    BY <1>2 DEF auto_vacuum

(* Writing a version of the next row id, or of none. *)
LEMMA ApplyType ==
    ASSUME NEW n \in Nat, NEW rws, RowTable(rws, n),
           NEW w \in WriteOp, w.new \in {0, n}, NEW k \in Key, NEW xid \in Nat
    PROVE  RowTable(Apply(rws, w, k, xid), IF w.new = 0 THEN n ELSE n + 1)
<1> DEFINE D == DOMAIN rws \cup ({w.new} \ {0})
           val(r) == IF r = w.new THEN [key |-> k, xmin |-> xid, xmax |-> 0]
                     ELSE IF r = w.old THEN [rws[r] EXCEPT !.xmax = xid]
                     ELSE rws[r]
<1>1. Apply(rws, w, k, xid) = [r \in D |-> val(r)]
    BY DEF Apply
<1>2. ASSUME NEW r \in D PROVE val(r) \in RowVersion
    BY DEF RowTable, RowVersion
<1>3. D \subseteq 1..((IF w.new = 0 THEN n ELSE n + 1) - 1)
    BY DEF RowTable
<1> HIDE DEF D, val
<1> QED
    BY <1>1, <1>2, <1>3 DEF RowTable
-----------------------------------------------------------------------------
(* What recovery would rebuild. *)

(* Replaying a commit frame keeps the image well formed, its row ids below  *)
(* its counter: after a restart no row id is handed out twice.              *)
LEMMA ApplyRecordType ==
    ASSUME NEW n \in Nat, NEW rws, RowTable(rws, n), NEW d, DiskImage(d),
           NEW writes \in Seq(WriteOp), NEW own \in Nat
    PROVE  DiskImage(apply_record(d, rws, writes, own))
<1> DEFINE logged  == records_for_commit(rws, writes, own)
           created == {writes[i].new : i \in logged} \ {0}
           stamped == {writes[i].old : i \in {j \in logged : Replayable(d, writes, logged, j)}}
           named   == created \cup {writes[i].old : i \in {j \in logged : writes[j].op = "update"}}
           D == DOMAIN d.rows \cup created
           base(r) == IF r \in DOMAIN d.rows THEN d.rows[r]
                      ELSE [key |-> rws[r].key, xmin |-> own, xmax |-> 0]
           val(r) == IF r \in stamped THEN [base(r) EXCEPT !.xmax = own] ELSE base(r)
           e == apply_record(d, rws, writes, own)
<1>1. e = [rows |-> [r \in D |-> val(r)],
           next_xid |-> IF logged = {} THEN d.next_xid ELSE Above(d.next_xid, {own}),
           next_row_id |-> Above(d.next_row_id, named)]
    BY DEF apply_record, ResumeXid
<1>2. \A i \in logged : /\ i \in DOMAIN writes
                        /\ writes[i].new # 0 => writes[i].new \in DOMAIN rws
                        /\ writes[i].old # 0 => writes[i].old \in DOMAIN rws
    BY DEF records_for_commit, own_row, StillOurs
<1>3. created \subseteq DOMAIN rws /\ named \subseteq 0..n
  <2>1. created \subseteq DOMAIN rws
    BY <1>2
  <2>2. DOMAIN rws \subseteq 0..n /\ 0 \in 0..n
    BY DEF RowTable
  <2>3. \A i \in logged : writes[i].old \in 0..n
    BY <1>2, <2>2
  <2> QED
    BY <2>1, <2>2, <2>3
<1>4. ASSUME NEW r \in D PROVE val(r) \in RowVersion
  <2>1. base(r) \in RowVersion
    BY <1>3 DEF DiskImage, RowTable, RowVersion
  <2> HIDE DEF base
  <2> QED
    BY <2>1 DEF RowVersion
<1>5. /\ Above(d.next_row_id, named) \in Nat
      /\ Above(d.next_row_id, named) >= d.next_row_id
      /\ \A x \in named : x < Above(d.next_row_id, named)
  <2> HIDE DEF named
  <2> QED
    BY <1>3, AboveBounds DEF DiskImage
<1>6. Above(d.next_xid, {own}) \in Nat /\ Above(d.next_xid, {own}) >= d.next_xid
    BY AboveBounds DEF DiskImage
<1>7. D \subseteq 1..(Above(d.next_row_id, named) - 1)
  <2>1. DOMAIN d.rows \subseteq 1..(d.next_row_id - 1) /\ d.next_row_id \in Nat
    BY DEF DiskImage, RowTable
  <2>2. created \subseteq 1..n /\ created \subseteq named
    BY <1>3 DEF RowTable
  <2> DEFINE a == Above(d.next_row_id, named)
  <2> HIDE DEF created, named
  <2>3. a \in Nat /\ a >= d.next_row_id /\ \A x \in named : x < a
    BY <1>5
  <2> HIDE DEF a
  <2>4. \A x \in DOMAIN d.rows : x \in 1..(a - 1)
    BY <2>1, <2>3
  <2>5. \A x \in created : x \in 1..(a - 1)
    BY <2>2, <2>3
  <2> QED
    BY <2>4, <2>5 DEF a
<1> HIDE DEF logged, created, stamped, named, D, val, e
<1>8. /\ DOMAIN e = {"rows", "next_xid", "next_row_id"}
      /\ e.next_xid \in Nat \ {0}
      /\ e.next_row_id = Above(d.next_row_id, named)
      /\ e.rows = [r \in D |-> val(r)]
    BY <1>1, <1>6 DEF DiskImage
<1>9. RowTable(e.rows, e.next_row_id)
    BY <1>4, <1>7, <1>8 DEF RowTable
<1> QED
    BY <1>5, <1>8, <1>9 DEF DiskImage, e

(* CHECKPOINT writes a well-formed image. *)
LEMMA CheckpointImageType ==
    ASSUME FieldTypes
    PROVE  DiskImage(CheckpointImage)
<1> DEFINE D == {q \in DOMAIN rows : xid_committed(rows[q].xmin)}
           val(r) == [rows[r] EXCEPT !.xmax = committed_xmax(rows[r].xmax)]
           e == CheckpointImage
<1>1. e = [rows |-> [r \in D |-> val(r)], next_xid |-> next_xid, next_row_id |-> next_row_id]
    BY DEF CheckpointImage
<1>2. ASSUME NEW r \in D PROVE val(r) \in RowVersion
  <2>1. rows[r] \in RowVersion
    BY DEF FieldTypes, RowTable
  <2>2. committed_xmax(rows[r].xmax) \in Nat
    BY <2>1 DEF committed_xmax, RowVersion
  <2> QED
    BY <2>1, <2>2 DEF RowVersion
<1>3. D \subseteq 1..(next_row_id - 1)
    BY DEF FieldTypes, RowTable
<1> HIDE DEF D, val, e
<1>4. RowTable(e.rows, next_row_id)
    BY <1>1, <1>2, <1>3 DEF RowTable
<1> QED
    BY <1>1, <1>4 DEF DiskImage, FieldTypes, e
-----------------------------------------------------------------------------
(* Statements pin and register snapshots. *)

(* Pinning changes nothing but the snapshot, and the registry stays one. *)
LEMMA PinnedType ==
    ASSUME FieldTypes, NEW s \in Session
    PROVE  /\ Pinned(txn[s]) \in Txn
           /\ Registered(txn[s]) \in [DOMAIN Registered(txn[s]) -> Snapshot]
<1> DEFINE t == txn[s]
           q == stmt_snapshot(t)
<1>1. t \in Txn
    BY DEF FieldTypes
<1>2. active \subseteq Nat /\ next_xid \in Nat
    BY DEF FieldTypes
<1>3. q \in Snapshot
    BY <1>1, <1>2 DEF stmt_snapshot, take_snapshot, Snapshot, Txn
<1> HIDE DEF t, q
<1>4. Pinned(t) \in Txn
  <2>1. Pinned(t) = IF t.level = "RC" THEN t ELSE [t EXCEPT !.snapshot = q]
    BY DEF Pinned, q
  <2> QED
    BY <1>1, <1>3, <2>1 DEF Txn
<1>5. Registered(t) \in [DOMAIN Registered(t) -> Snapshot]
  <2>1. Registered(t) = IF t.level = "RC" THEN snapshots ELSE With(snapshots, t.xid, q)
    BY DEF Registered, q
  <2>2. snapshots \in [DOMAIN snapshots -> Snapshot]
    BY DEF FieldTypes
  <2>3. With(snapshots, t.xid, q) \in [DOMAIN snapshots \cup {t.xid} -> Snapshot]
    BY <1>3, <2>2 DEF With
  <2> QED
    BY <2>1, <2>2, <2>3
<1> QED
    BY <1>4, <1>5 DEF t

(* What a statement does to the fields ownership is about. *)
LEMMA PinnedFields ==
    ASSUME FieldTypes, NEW s \in Session
    PROVE  LET t == txn[s] IN
           /\ Pinned(t).xid = t.xid
           /\ Pinned(t).owned_xids = t.owned_xids
           /\ Pinned(t).writes = t.writes
           /\ Pinned(t).savepoints = t.savepoints
           /\ Pinned(t).sub_xids = t.sub_xids
           /\ IF t.level = "RC"
              THEN Pinned(t).snapshot = t.snapshot /\ Registered(t) = snapshots
              ELSE /\ Pinned(t).snapshot # NoSnapshot
                   /\ Registered(t) = With(snapshots, t.xid, Pinned(t).snapshot)
<1> DEFINE t == txn[s]
           q == stmt_snapshot(t)
<1>1. t \in Txn /\ next_xid \in Nat \ {0}
    BY DEF FieldTypes
<1>2. q # NoSnapshot
    BY <1>1 DEF stmt_snapshot, take_snapshot, NoSnapshot
<1> HIDE DEF t, q
<1>3. Pinned(t) = IF t.level = "RC" THEN t ELSE [t EXCEPT !.snapshot = q]
    BY DEF Pinned, q
<1>4. Registered(t) = IF t.level = "RC" THEN snapshots ELSE With(snapshots, t.xid, q)
    BY DEF Registered, q
<1>5. /\ Pinned(t).xid = t.xid
      /\ Pinned(t).owned_xids = t.owned_xids
      /\ Pinned(t).writes = t.writes
      /\ Pinned(t).savepoints = t.savepoints
      /\ Pinned(t).sub_xids = t.sub_xids
    BY <1>1, <1>3 DEF Txn
<1>6. Pinned(t).snapshot = IF t.level = "RC" THEN t.snapshot ELSE q
    BY <1>1, <1>3 DEF Txn
<1> QED
    BY <1>2, <1>4, <1>5, <1>6 DEF t

-----------------------------------------------------------------------------
(***************************************************************************)
(* Ownership of xids, pointwise and as an operator of the three variables   *)
(* it is about, so that each kind of step has one lemma.                    *)
(***************************************************************************)
Owned(act, snaps, tx) ==
    /\ \A s \in Session : tx[s].xid = 0 => tx[s] = NoTxn
    /\ \A x : x \in act <=> \E s \in Session : tx[s].xid # 0 /\ x \in all_xids(tx[s])
    /\ \A s, u \in Session : \A x :
        s # u /\ tx[s].xid # 0 /\ tx[u].xid # 0 /\ x \in all_xids(tx[s])
            => x \notin all_xids(tx[u])
    /\ \A x : x \in DOMAIN snaps <=>
        \E s \in Session : tx[s].snapshot # NoSnapshot /\ x = tx[s].xid
    /\ \A s \in Session : tx[s].snapshot # NoSnapshot => snaps[tx[s].xid] = tx[s].snapshot

(* The three sets of XidOwnership, element by element. *)
LEMMA Elementwise ==
    ASSUME NEW act, NEW snaps, NEW tx
    PROVE  /\ act = UNION {all_xids(tx[s]) : s \in {u \in Session : tx[u].xid # 0}}
              <=> \A x : x \in act <=> \E s \in Session : tx[s].xid # 0 /\ x \in all_xids(tx[s])
           /\ \A s, u \in Session :
                all_xids(tx[s]) \cap all_xids(tx[u]) = {}
                <=> \A x : x \in all_xids(tx[s]) => x \notin all_xids(tx[u])
           /\ DOMAIN snaps = {tx[s].xid : s \in {u \in Session : tx[u].snapshot # NoSnapshot}}
              <=> \A x : x \in DOMAIN snaps <=>
                    \E s \in Session : tx[s].snapshot # NoSnapshot /\ x = tx[s].xid
<1> DEFINE U == UNION {all_xids(tx[s]) : s \in {u \in Session : tx[u].xid # 0}}
           D == {tx[s].xid : s \in {u \in Session : tx[u].snapshot # NoSnapshot}}
<1>1. \A x : x \in U <=> \E s \in Session : tx[s].xid # 0 /\ x \in all_xids(tx[s])
    BY Zenon
<1>2. \A x : x \in D <=> \E s \in Session : tx[s].snapshot # NoSnapshot /\ x = tx[s].xid
    BY Zenon
<1>3. \A s, u \in Session :
        all_xids(tx[s]) \cap all_xids(tx[u]) = {}
        <=> \A x : x \in all_xids(tx[s]) => x \notin all_xids(tx[u])
    BY Zenon
<1>4. act = U <=> \A x : x \in act <=> x \in U
  <2> HIDE DEF U
  <2> QED
    BY Zenon
<1>5. DOMAIN snaps = D <=> \A x : x \in DOMAIN snaps <=> x \in D
  <2> HIDE DEF D
  <2> QED
    BY Zenon
<1> HIDE DEF U, D
<1>6. act = U <=> \A x : x \in act <=> \E s \in Session : tx[s].xid # 0 /\ x \in all_xids(tx[s])
    BY <1>1, <1>4, Zenon
<1>7. DOMAIN snaps = D <=> \A x : x \in DOMAIN snaps <=>
        \E s \in Session : tx[s].snapshot # NoSnapshot /\ x = tx[s].xid
    BY <1>2, <1>5, Zenon
<1> QED
    BY <1>3, <1>6, <1>7 DEF U, D

(* Owned restates XidOwnership, before and after a step. *)
LEMMA OwnedIsXidOwnership ==
    /\ XidOwnership <=> Owned(active, snapshots, txn)
    /\ XidOwnership' <=> Owned(active', snapshots', txn')
<1>1. XidOwnership <=> Owned(active, snapshots, txn)
  <2> USE DEF XidOwnership, Owned, Open
  <2>1. XidOwnership => Owned(active, snapshots, txn)
    BY Elementwise, ZenonT(30)
  <2>2. Owned(active, snapshots, txn) => XidOwnership
    BY Elementwise, ZenonT(30)
  <2> QED
    BY <2>1, <2>2
<1>2. XidOwnership' <=> Owned(active', snapshots', txn')
  <2> USE DEF XidOwnership, Owned, Open
  <2>1. XidOwnership' => Owned(active', snapshots', txn')
    BY Elementwise, ZenonT(30)
  <2>2. Owned(active', snapshots', txn') => XidOwnership'
    BY Elementwise, ZenonT(30)
  <2> QED
    BY <2>1, <2>2
<1> QED
    BY <1>1, <1>2

(* A statement, or RELEASE: the session keeps its xids and pins at most a   *)
(* snapshot.                                                                *)
LEMMA OwnedStatement ==
    ASSUME NEW act, NEW snaps, NEW tx \in [Session -> Txn], Owned(act, snaps, tx),
           NEW s \in Session, tx[s].xid # 0,
           NEW t, t.xid = tx[s].xid, t.owned_xids = tx[s].owned_xids,
           NEW snaps2,
           \/ t.snapshot = tx[s].snapshot /\ snaps2 = snaps
           \/ t.snapshot # NoSnapshot /\ snaps2 = With(snaps, t.xid, t.snapshot)
    PROVE  Owned(act, snaps2, [tx EXCEPT ![s] = t])
<1> DEFINE ty == [tx EXCEPT ![s] = t]
<1>1. ty[s] = t /\ \A u \in Session : u # s => ty[u] = tx[u]
    OBVIOUS
<1> HIDE DEF ty
<1>2. \A u \in Session : ty[u].xid = tx[u].xid /\ all_xids(ty[u]) = all_xids(tx[u])
    BY <1>1 DEF all_xids
<1>3. \A u \in Session : tx[u].xid \in all_xids(tx[u])
    BY DEF all_xids
<1>4. NoTxn.snapshot = NoSnapshot
    BY DEF NoTxn, NewTxn
<1>5. \A u \in Session : u # s /\ tx[u].snapshot # NoSnapshot => tx[u].xid # tx[s].xid
    BY <1>3, <1>4 DEF Owned
<1>6. \A u \in Session : ty[u].xid = 0 => ty[u] = NoTxn
    BY <1>1, <1>2 DEF Owned
<1>7. \A x : x \in act <=> \E u \in Session : ty[u].xid # 0 /\ x \in all_xids(ty[u])
    BY <1>2 DEF Owned
<1>8. \A u, v \in Session : \A x :
        u # v /\ ty[u].xid # 0 /\ ty[v].xid # 0 /\ x \in all_xids(ty[u])
            => x \notin all_xids(ty[v])
    BY <1>2 DEF Owned
<1>9. CASE t.snapshot = tx[s].snapshot /\ snaps2 = snaps
  <2>1. \A u \in Session : ty[u].snapshot = tx[u].snapshot
    BY <1>1, <1>9
  <2> QED
    BY <1>2, <1>6, <1>7, <1>8, <1>9, <2>1 DEF Owned, ty
<1>10. CASE t.snapshot # NoSnapshot /\ snaps2 = With(snaps, t.xid, t.snapshot)
  <2>1. /\ DOMAIN snaps2 = DOMAIN snaps \cup {t.xid}
        /\ snaps2[t.xid] = t.snapshot
        /\ \A x \in DOMAIN snaps : x # t.xid => snaps2[x] = snaps[x]
    BY <1>10 DEF With
  <2>2. \A x : x \in DOMAIN snaps2 <=>
            \E u \in Session : ty[u].snapshot # NoSnapshot /\ x = ty[u].xid
    BY <1>1, <1>2, <1>10, <2>1 DEF Owned
  <2>3. \A u \in Session : ty[u].snapshot # NoSnapshot => snaps2[ty[u].xid] = ty[u].snapshot
    BY <1>1, <1>2, <1>5, <1>10, <2>1 DEF Owned
  <2> QED
    BY <1>6, <1>7, <1>8, <2>2, <2>3 DEF Owned, ty
<1> QED
    BY <1>9, <1>10

(* BEGIN: a session without a transaction gets a fresh xid. *)
LEMMA OwnedBegin ==
    ASSUME NEW act, NEW snaps, NEW tx \in [Session -> Txn], Owned(act, snaps, tx),
           NEW s \in Session, tx[s].xid = 0,
           NEW x, x # 0, x \notin act, NEW level
    PROVE  Owned(act \cup {x}, snaps, [tx EXCEPT ![s] = NewTxn(x, level)])
<1> DEFINE ty == [tx EXCEPT ![s] = NewTxn(x, level)]
<1>1. ty[s] = NewTxn(x, level) /\ \A u \in Session : u # s => ty[u] = tx[u]
    OBVIOUS
<1>2. /\ ty[s].xid = x /\ all_xids(ty[s]) = {x} /\ ty[s].snapshot = NoSnapshot
      /\ tx[s].snapshot = NoSnapshot
    BY <1>1 DEF NewTxn, all_xids, Owned, NoTxn
<1> HIDE DEF ty
<1>3. \A u \in Session : ty[u].xid = 0 => ty[u] = NoTxn
    BY <1>1, <1>2 DEF Owned
<1>4. \A y : y \in act \cup {x} <=> \E u \in Session : ty[u].xid # 0 /\ y \in all_xids(ty[u])
    BY <1>1, <1>2 DEF Owned
<1>5. \A u, v \in Session : \A y :
        u # v /\ ty[u].xid # 0 /\ ty[v].xid # 0 /\ y \in all_xids(ty[u])
            => y \notin all_xids(ty[v])
    BY <1>1, <1>2 DEF Owned
<1>6. \A y : y \in DOMAIN snaps <=>
        \E u \in Session : ty[u].snapshot # NoSnapshot /\ y = ty[u].xid
    BY <1>1, <1>2 DEF Owned
<1>7. \A u \in Session : ty[u].snapshot # NoSnapshot => snaps[ty[u].xid] = ty[u].snapshot
    BY <1>1, <1>2 DEF Owned
<1> QED
    BY <1>3, <1>4, <1>5, <1>6, <1>7 DEF Owned, ty

(* SAVEPOINT and ROLLBACK TO: an open transaction gets one more fresh xid. *)
LEMMA OwnedScope ==
    ASSUME NEW act, NEW snaps, NEW tx \in [Session -> Txn], Owned(act, snaps, tx),
           NEW s \in Session, tx[s].xid # 0,
           NEW x, x \notin act,
           NEW t, t.xid = tx[s].xid, t.owned_xids = tx[s].owned_xids \cup {x},
           t.snapshot = tx[s].snapshot
    PROVE  Owned(act \cup {x}, snaps, [tx EXCEPT ![s] = t])
<1> DEFINE ty == [tx EXCEPT ![s] = t]
<1>1. ty[s] = t /\ \A u \in Session : u # s => ty[u] = tx[u]
    OBVIOUS
<1>2. all_xids(ty[s]) = all_xids(tx[s]) \cup {x}
    BY <1>1 DEF all_xids
<1> HIDE DEF ty
<1>3. \A u \in Session : ty[u].xid = tx[u].xid /\ ty[u].snapshot = tx[u].snapshot
    BY <1>1
<1>4. \A u \in Session : ty[u].xid = 0 => ty[u] = NoTxn
    BY <1>1, <1>3 DEF Owned
<1>5. \A y : y \in act \cup {x} <=> \E u \in Session : ty[u].xid # 0 /\ y \in all_xids(ty[u])
    BY <1>1, <1>2, <1>3 DEF Owned
<1>6. \A u, v \in Session : \A y :
        u # v /\ ty[u].xid # 0 /\ ty[v].xid # 0 /\ y \in all_xids(ty[u])
            => y \notin all_xids(ty[v])
    BY <1>1, <1>2, <1>3 DEF Owned
<1>7. \A y : y \in DOMAIN snaps <=>
        \E u \in Session : ty[u].snapshot # NoSnapshot /\ y = ty[u].xid
    BY <1>3 DEF Owned
<1>8. \A u \in Session : ty[u].snapshot # NoSnapshot => snaps[ty[u].xid] = ty[u].snapshot
    BY <1>3 DEF Owned
<1> QED
    BY <1>4, <1>5, <1>6, <1>7, <1>8 DEF Owned, ty

(* The end of a transaction retires its whole family of xids. *)
LEMMA OwnedRetire ==
    ASSUME NEW act, NEW snaps, NEW tx \in [Session -> Txn], Owned(act, snaps, tx),
           NEW s \in Session, tx[s].xid # 0
    PROVE  Owned(act \ all_xids(tx[s]), Without(snaps, all_xids(tx[s])),
                 [tx EXCEPT ![s] = NoTxn])
<1> DEFINE ty == [tx EXCEPT ![s] = NoTxn]
           gone == all_xids(tx[s])
           sn == Without(snaps, gone)
<1>1. ty[s] = NoTxn /\ \A u \in Session : u # s => ty[u] = tx[u]
    OBVIOUS
<1>2. NoTxn.xid = 0 /\ NoTxn.snapshot = NoSnapshot
    BY DEF NoTxn, NewTxn
<1>3. tx[s].xid \in gone /\ \A u \in Session : tx[u].xid \in all_xids(tx[u])
    BY DEF all_xids
<1>4. DOMAIN sn = DOMAIN snaps \ gone /\ \A x \in DOMAIN sn : sn[x] = snaps[x]
    BY DEF Without
<1> HIDE DEF ty, sn
<1>5. \A u \in Session : ty[u].xid = 0 => ty[u] = NoTxn
    BY <1>1 DEF Owned
<1>6. \A x : x \in act \ gone <=> \E u \in Session : ty[u].xid # 0 /\ x \in all_xids(ty[u])
    BY <1>1, <1>2 DEF Owned
<1>7. \A u, v \in Session : \A x :
        u # v /\ ty[u].xid # 0 /\ ty[v].xid # 0 /\ x \in all_xids(ty[u])
            => x \notin all_xids(ty[v])
    BY <1>1, <1>2 DEF Owned
<1>8. \A u \in Session : u # s /\ tx[u].snapshot # NoSnapshot => tx[u].xid \notin gone
    BY <1>2, <1>3 DEF Owned
<1> HIDE DEF gone
<1>9. \A x : x \in DOMAIN sn <=>
        \E u \in Session : ty[u].snapshot # NoSnapshot /\ x = ty[u].xid
    BY <1>1, <1>2, <1>3, <1>4, <1>8 DEF Owned
<1>10. \A u \in Session : ty[u].snapshot # NoSnapshot => sn[ty[u].xid] = ty[u].snapshot
    BY <1>1, <1>2, <1>4, <1>8, <1>9 DEF Owned
<1> QED
    BY <1>5, <1>6, <1>7, <1>9, <1>10 DEF Owned, ty, sn, gone

-----------------------------------------------------------------------------
(***************************************************************************)
(* The savepoint marks of one transaction holding n row locks, as an        *)
(* operator of the transaction and of n.                                    *)
(***************************************************************************)
MarksAt(t, n) ==
    /\ Len(t.sub_xids) = Len(t.savepoints)
    /\ \A i \in DOMAIN t.savepoints :
        /\ t.savepoints[i].writes_len <= Len(t.writes)
        /\ t.savepoints[i].lock_count <= n
        /\ \A j \in 1..i : /\ t.savepoints[j].writes_len <= t.savepoints[i].writes_len
                           /\ t.savepoints[j].lock_count <= t.savepoints[i].lock_count

LocksIn(order, xid) == IF xid \in DOMAIN order THEN order[xid] ELSE <<>>

Marked(order, tx) ==
    \A s \in Session : tx[s].xid # 0 => MarksAt(tx[s], Len(LocksIn(order, tx[s].xid)))

(* Marked restates SavepointMarks, before and after a step. *)
LEMMA MarkedIsSavepointMarks ==
    /\ SavepointMarks <=> Marked(lock_order, txn)
    /\ SavepointMarks' <=> Marked(lock_order', txn')
<1>1. SavepointMarks <=> Marked(lock_order, txn)
    BY Zenon DEF SavepointMarks, Marked, MarksOK, MarksAt, Open, Locks, LocksIn
<1>2. SavepointMarks' <=> Marked(lock_order', txn')
    BY Zenon DEF SavepointMarks, Marked, MarksOK, MarksAt, Open, Locks, LocksIn
<1> QED
    BY <1>1, <1>2

(* Longer write logs and lock lists keep the marks in range. *)
LEMMA MarksGrow ==
    ASSUME NEW t \in Txn, NEW u \in Txn, NEW n \in Nat, NEW m \in Nat, MarksAt(t, n),
           u.savepoints = t.savepoints, u.sub_xids = t.sub_xids,
           Len(t.writes) <= Len(u.writes), n <= m
    PROVE  MarksAt(u, m)
<1>1. t.savepoints \in Seq(SavepointMark) /\ t.writes \in Seq(WriteOp) /\ u.writes \in Seq(WriteOp)
    BY DEF Txn
<1>2. \A i \in DOMAIN t.savepoints : t.savepoints[i] \in SavepointMark
    BY <1>1, ElementOfSeq, LenProperties
<1>3. Len(t.writes) \in Nat /\ Len(u.writes) \in Nat
    BY <1>1, LenProperties
<1> QED
    BY <1>2, <1>3 DEF MarksAt, SavepointMark

(* SAVEPOINT pushes a mark at the ends of both lists. *)
LEMMA MarksPush ==
    ASSUME NEW t \in Txn, NEW u \in Txn, NEW n \in Nat, NEW x \in Nat, MarksAt(t, n),
           u.savepoints = Append(t.savepoints, [writes_len |-> Len(t.writes), lock_count |-> n]),
           u.sub_xids = Append(t.sub_xids, x), u.writes = t.writes
    PROVE  MarksAt(u, n)
<1> DEFINE sp == t.savepoints
           sq == u.savepoints
           m == [writes_len |-> Len(t.writes), lock_count |-> n]
<1>1. sp \in Seq(SavepointMark) /\ t.sub_xids \in Seq(Nat) /\ Len(t.writes) \in Nat
    BY LenProperties DEF Txn
<1>2. m \in SavepointMark
    BY <1>1 DEF SavepointMark
<1>3. /\ Len(sp) \in Nat /\ DOMAIN sp = 1..Len(sp)
      /\ \A i \in 1..Len(sp) : sp[i] \in SavepointMark
    BY <1>1, ElementOfSeq, LenProperties
<1>4. /\ Len(sq) = Len(sp) + 1 /\ DOMAIN sq = 1..(Len(sp) + 1)
      /\ sq[Len(sp) + 1] = m
      /\ \A i \in 1..Len(sp) : sq[i] = sp[i]
    BY <1>1, <1>2, <1>3, AppendProperties
<1>5. Len(u.sub_xids) = Len(t.sub_xids) + 1
    BY <1>1, AppendProperties
<1> HIDE DEF sp, sq
<1>6. /\ Len(t.sub_xids) = Len(sp)
      /\ \A i \in DOMAIN sp :
           /\ sp[i].writes_len <= Len(t.writes) /\ sp[i].lock_count <= n
           /\ \A j \in 1..i : sp[j].writes_len <= sp[i].writes_len /\ sp[j].lock_count <= sp[i].lock_count
    BY DEF MarksAt, sp
<1>7. m.writes_len = Len(t.writes) /\ m.lock_count = n
    OBVIOUS
<1> HIDE DEF m
<1>8. ASSUME NEW i \in DOMAIN sq
      PROVE  /\ sq[i].writes_len <= Len(t.writes) /\ sq[i].lock_count <= n
             /\ \A j \in 1..i : sq[j].writes_len <= sq[i].writes_len /\ sq[j].lock_count <= sq[i].lock_count
  <2>1. CASE i \in 1..Len(sp)
    <3>1. \A j \in 1..i : j \in 1..Len(sp)
      BY <1>3, <2>1
    <3> QED
      BY <1>3, <1>4, <1>6, <2>1, <3>1
  <2>2. CASE i = Len(sp) + 1
    <3>1. sq[i].writes_len = Len(t.writes) /\ sq[i].lock_count = n
      BY <1>4, <1>7, <2>2
    <3>2. ASSUME NEW j \in 1..i
          PROVE  sq[j].writes_len <= Len(t.writes) /\ sq[j].lock_count <= n
      <4>1. CASE j \in 1..Len(sp)
        BY <1>3, <1>4, <1>6, <4>1
      <4>2. CASE j = i
        BY <1>1, <3>1, <4>2
      <4> QED
        BY <1>3, <2>2, <4>1, <4>2
    <3> QED
      BY <1>1, <3>1, <3>2
  <2> QED
    BY <1>3, <1>4, <2>1, <2>2
<1> QED
    BY <1>4, <1>5, <1>6, <1>8 DEF MarksAt, sq

(* ROLLBACK TO the idx-th savepoint cuts all four lists back to its mark;   *)
(* the scope's sub-xid is replaced by a fresh one.                          *)
LEMMA MarksCut ==
    ASSUME NEW t \in Txn, NEW u \in Txn, NEW n \in Nat, NEW x \in Nat, MarksAt(t, n),
           NEW idx \in DOMAIN t.savepoints,
           u.savepoints = Truncate(t.savepoints, idx),
           u.sub_xids = Append(Truncate(t.sub_xids, idx - 1), x),
           Len(u.writes) = t.savepoints[idx].writes_len
    PROVE  MarksAt(u, t.savepoints[idx].lock_count)
<1> DEFINE sp == t.savepoints
           sq == u.savepoints
<1>1. sp \in Seq(SavepointMark) /\ t.sub_xids \in Seq(Nat)
    BY DEF Txn
<1>2. Len(sp) \in Nat /\ DOMAIN sp = 1..Len(sp) /\ Len(t.sub_xids) = Len(sp)
    BY <1>1, LenProperties DEF MarksAt
<1>3. idx \in 0..Len(sp) /\ idx - 1 \in 0..Len(t.sub_xids) /\ idx \in Nat
    BY <1>2
<1>4. sq \in Seq(SavepointMark) /\ Len(sq) = idx /\ \A i \in 1..idx : sq[i] = sp[i]
  <2>1. sq = Truncate(sp, idx)
    OBVIOUS
  <2> HIDE DEF sp, sq
  <2> QED
    BY <1>1, <1>3, <2>1, TruncateSeq
<1>5. DOMAIN sq = 1..idx
    BY <1>4, LenProperties
<1>6. Len(u.sub_xids) = idx
  <2>1. Truncate(t.sub_xids, idx - 1) \in Seq(Nat) /\ Len(Truncate(t.sub_xids, idx - 1)) = idx - 1
    BY <1>1, <1>3, TruncateSeq
  <2> QED
    BY <1>3, <2>1, AppendProperties
<1>7. \A i \in 1..idx : i \in DOMAIN sp /\ \A j \in 1..i : j \in 1..idx
    BY <1>2, <1>3
<1>8. \A i \in DOMAIN sp :
        /\ sp[i].writes_len <= Len(t.writes) /\ sp[i].lock_count <= n
        /\ \A j \in 1..i : sp[j].writes_len <= sp[i].writes_len /\ sp[j].lock_count <= sp[i].lock_count
    BY DEF MarksAt
<1>9. ASSUME NEW i \in DOMAIN sq
      PROVE  /\ sq[i].writes_len <= sp[idx].writes_len /\ sq[i].lock_count <= sp[idx].lock_count
             /\ \A j \in 1..i : sq[j].writes_len <= sq[i].writes_len /\ sq[j].lock_count <= sq[i].lock_count
  <2> HIDE DEF sp, sq
  <2>1. i \in 1..idx /\ i \in DOMAIN sp /\ sq[i] = sp[i] /\ \A j \in 1..i : sq[j] = sp[j]
    BY <1>4, <1>5, <1>7
  <2>2. idx \in DOMAIN sp /\ i \in 1..idx
    BY <2>1 DEF sp
  <2> QED
    BY <1>8, <2>1, <2>2
<1> QED
    BY <1>4, <1>6, <1>9 DEF MarksAt

(* RELEASE pops marks and scopes alike. *)
LEMMA MarksPop ==
    ASSUME NEW t \in Txn, NEW u \in Txn, NEW n \in Nat, MarksAt(t, n),
           NEW idx \in DOMAIN t.savepoints,
           u.savepoints = Truncate(t.savepoints, idx - 1),
           u.sub_xids = Truncate(t.sub_xids, idx - 1),
           u.writes = t.writes
    PROVE  MarksAt(u, n)
<1> DEFINE sp == t.savepoints
           sq == u.savepoints
           k == idx - 1
<1>1. sp \in Seq(SavepointMark) /\ t.sub_xids \in Seq(Nat)
    BY DEF Txn
<1>2. Len(sp) \in Nat /\ DOMAIN sp = 1..Len(sp) /\ Len(t.sub_xids) = Len(sp)
    BY <1>1, LenProperties DEF MarksAt
<1>3. k \in 0..Len(sp) /\ k \in 0..Len(t.sub_xids)
    BY <1>2
<1> HIDE DEF k
<1>4. sq \in Seq(SavepointMark) /\ Len(sq) = k /\ \A i \in 1..k : sq[i] = sp[i]
  <2>1. sq = Truncate(sp, k)
    BY DEF k
  <2> HIDE DEF sp, sq
  <2> QED
    BY <1>1, <1>3, <2>1, TruncateSeq
<1>5. DOMAIN sq = 1..k
    BY <1>4, LenProperties
<1>6. Len(u.sub_xids) = k
    BY <1>1, <1>3, TruncateSeq DEF k
<1>7. \A i \in 1..k : i \in DOMAIN sp /\ \A j \in 1..i : j \in 1..k
    BY <1>2, <1>3
<1>8. \A i \in DOMAIN sp :
        /\ sp[i].writes_len <= Len(t.writes) /\ sp[i].lock_count <= n
        /\ \A j \in 1..i : sp[j].writes_len <= sp[i].writes_len /\ sp[j].lock_count <= sp[i].lock_count
    BY DEF MarksAt
<1>9. ASSUME NEW i \in DOMAIN sq
      PROVE  /\ sq[i].writes_len <= Len(t.writes) /\ sq[i].lock_count <= n
             /\ \A j \in 1..i : sq[j].writes_len <= sq[i].writes_len /\ sq[j].lock_count <= sq[i].lock_count
  <2> HIDE DEF sp, sq
  <2>1. i \in 1..k /\ i \in DOMAIN sp /\ sq[i] = sp[i] /\ \A j \in 1..i : sq[j] = sp[j]
    BY <1>4, <1>5, <1>7
  <2> QED
    BY <1>8, <2>1
<1> QED
    BY <1>4, <1>6, <1>9 DEF MarksAt

(* A step that touches the marks and the locks of one session only. *)
LEMMA MarkedStep ==
    ASSUME NEW order, NEW order2, NEW act, NEW snaps, NEW tx \in [Session -> Txn],
           Owned(act, snaps, tx), Marked(order, tx),
           NEW s \in Session, NEW t,
           \A x : x # tx[s].xid => LocksIn(order2, x) = LocksIn(order, x),
           t.xid # 0 => MarksAt(t, Len(LocksIn(order2, t.xid)))
    PROVE  Marked(order2, [tx EXCEPT ![s] = t])
<1> DEFINE ty == [tx EXCEPT ![s] = t]
<1>1. ty[s] = t /\ \A u \in Session : u # s => ty[u] = tx[u]
    OBVIOUS
<1> HIDE DEF ty
<1>2. ASSUME NEW u \in Session, u # s, tx[u].xid # 0
      PROVE  MarksAt(tx[u], Len(LocksIn(order2, tx[u].xid)))
  <2>1. tx[s].xid \in all_xids(tx[s]) /\ tx[u].xid \in all_xids(tx[u])
    BY DEF all_xids
  <2>2. tx[u].xid # tx[s].xid
    BY <1>2, <2>1 DEF Owned
  <2> QED
    BY <1>2, <2>2 DEF Marked
<1>3. ASSUME NEW u \in Session, ty[u].xid # 0
      PROVE  MarksAt(ty[u], Len(LocksIn(order2, ty[u].xid)))
  <2>1. CASE u = s
    BY <1>1, <1>3, <2>1
  <2>2. CASE u # s
    BY <1>1, <1>2, <1>3, <2>2
  <2> QED
    BY <2>1, <2>2
<1> QED
    BY <1>3 DEF Marked, ty

(* The length of a lock list. *)
LEMMA LocksLen ==
    ASSUME NEW order, order \in [DOMAIN order -> Seq(Nat)], NEW x
    PROVE  LocksIn(order, x) \in Seq(Nat) /\ Len(LocksIn(order, x)) \in Nat
<1>1. LocksIn(order, x) \in Seq(Nat)
    BY EmptySeq DEF LocksIn
<1> QED
    BY <1>1, LenProperties

-----------------------------------------------------------------------------
(* The actions, one kind of step at a time. *)

(* Every statement of a running transaction. *)
LEMMA StatementStep ==
    ASSUME IInv, NEW s \in Session, Open(s),
           NEW t \in Txn,
           t.xid = txn[s].xid, t.owned_xids = txn[s].owned_xids,
           t.savepoints = txn[s].savepoints, t.sub_xids = txn[s].sub_xids,
           t.snapshot = Pinned(txn[s]).snapshot,
           Len(txn[s].writes) <= Len(t.writes),
           txn' = [txn EXCEPT ![s] = t],
           snapshots' = Registered(txn[s]),
           active' = active,
           lock_order' \in [DOMAIN lock_order' -> Seq(Nat)],
           \A x : x # txn[s].xid => LocksIn(lock_order', x) = LocksIn(lock_order, x),
           Len(LocksIn(lock_order, txn[s].xid)) <= Len(LocksIn(lock_order', txn[s].xid))
    PROVE  /\ txn' \in [Session -> Txn]
           /\ snapshots' \in [DOMAIN snapshots' -> Snapshot]
           /\ XidOwnership'
           /\ SavepointMarks'
<1>1. FieldTypes /\ Owned(active, snapshots, txn) /\ Marked(lock_order, txn)
    BY OwnedIsXidOwnership, MarkedIsSavepointMarks DEF IInv
<1>2. txn \in [Session -> Txn] /\ txn[s].xid # 0 /\ txn[s] \in Txn
    BY <1>1 DEF FieldTypes, Open
<1>3. txn' \in [Session -> Txn]
    BY <1>2
<1>4. snapshots' \in [DOMAIN snapshots' -> Snapshot]
    BY <1>1, PinnedType
<1>5. Owned(active', snapshots', txn')
  <2>1. \/ t.snapshot = txn[s].snapshot /\ snapshots' = snapshots
        \/ t.snapshot # NoSnapshot /\ snapshots' = With(snapshots, t.xid, t.snapshot)
    BY <1>1, PinnedFields
  <2> QED
    BY <1>1, <1>2, <2>1, OwnedStatement
<1>6. Marked(lock_order', txn')
  <2> DEFINE n == Len(LocksIn(lock_order, txn[s].xid))
             m == Len(LocksIn(lock_order', txn[s].xid))
  <2>1. n \in Nat /\ m \in Nat /\ n <= m
    BY <1>1, LocksLen DEF FieldTypes
  <2>2. MarksAt(txn[s], n)
    BY <1>1, <1>2 DEF Marked
  <2> HIDE DEF n, m
  <2>3. MarksAt(t, m)
    BY <1>2, <2>1, <2>2, MarksGrow
  <2> QED
    BY <1>1, <1>2, <2>3, MarkedStep DEF m
<1> QED
    BY <1>3, <1>4, <1>5, <1>6, OwnedIsXidOwnership, MarkedIsSavepointMarks

(* A fresh xid is neither 0 nor active. *)
LEMMA FreshXid ==
    ASSUME FieldTypes
    PROVE  next_xid \in Nat \ {0} /\ next_xid \notin active /\ next_xid + 1 \in Nat \ {0}
           /\ active \cup {next_xid} \subseteq 1..(next_xid + 1 - 1)
    BY DEF FieldTypes

(* BEGIN. *)
LEMMA BeginStep ==
    ASSUME IInv, NEW s \in Session, NEW level \in Level, txn_begin(s, level)
    PROVE  IInv'
<1> DEFINE t == NewTxn(next_xid, level)
<1>1. FieldTypes /\ Owned(active, snapshots, txn) /\ Marked(lock_order, txn)
    BY OwnedIsXidOwnership, MarkedIsSavepointMarks DEF IInv
<1>2. txn \in [Session -> Txn] /\ txn[s].xid = 0 /\ txn' = [txn EXCEPT ![s] = t]
    BY <1>1 DEF FieldTypes, txn_begin, Open
<1>3. t \in Txn
  <2>1. level \in {"RC", "RR"} /\ next_xid \in Nat
    BY <1>1, ConstantsAssumption DEF FieldTypes
  <2>2. NoSnapshot \in Snapshot
    BY DEF NoSnapshot, Snapshot
  <2>3. <<>> \in Seq(WriteOp) /\ <<>> \in Seq(SavepointMark) /\ <<>> \in Seq(Nat)
    BY EmptySeq
  <2> QED
    BY <2>1, <2>2, <2>3 DEF NewTxn, Txn
<1>4. FieldTypes'
  <2>1. txn' \in [Session -> Txn]
    BY <1>2, <1>3
  <2> QED
    BY <1>1, <2>1, FreshXid DEF FieldTypes, txn_begin
<1>5. Owned(active', snapshots', txn')
  <2>1. active' = active \cup {next_xid} /\ snapshots' = snapshots
    BY DEF txn_begin
  <2>2. next_xid # 0 /\ next_xid \notin active
    BY <1>1, FreshXid
  <2>3. Owned(active \cup {next_xid}, snapshots, [txn EXCEPT ![s] = NewTxn(next_xid, level)])
    BY <1>1, <1>2, <2>2, OwnedBegin
  <2> QED
    BY <1>2, <2>1, <2>3
<1>6. Marked(lock_order', txn')
  <2>1. Len(t.sub_xids) = Len(t.savepoints) /\ DOMAIN t.savepoints = {}
    BY DEF NewTxn
  <2>2. \A n : MarksAt(t, n)
    BY <2>1 DEF MarksAt
  <2>3. lock_order' = lock_order
    BY DEF txn_begin
  <2> HIDE DEF t
  <2> QED
    BY <1>1, <1>2, <2>2, <2>3, MarkedStep
<1> QED
    BY <1>4, <1>5, <1>6, OwnedIsXidOwnership, MarkedIsSavepointMarks DEF IInv

(* SELECT, and any statement that fails. *)
LEMMA SelectStep ==
    ASSUME IInv, NEW s \in Session, exec_select(s) \/ StmtError(s)
    PROVE  IInv'
<1>1. FieldTypes /\ txn[s] \in Txn /\ Open(s)
    BY DEF IInv, FieldTypes, exec_select, StmtError, Running
<1> DEFINE p == Pinned(txn[s])
           f == [p EXCEPT !.failed = TRUE]
<1>2. p \in Txn
    BY <1>1, PinnedType
<1>3. PICK t \in {p, f} : txn' = [txn EXCEPT ![s] = t]
    BY DEF exec_select, StmtError
<1>4. /\ p.xid = txn[s].xid /\ p.owned_xids = txn[s].owned_xids
      /\ p.savepoints = txn[s].savepoints /\ p.sub_xids = txn[s].sub_xids
      /\ p.writes = txn[s].writes
    BY <1>1, PinnedFields
<1>5. /\ t \in Txn
      /\ t.xid = txn[s].xid /\ t.owned_xids = txn[s].owned_xids
      /\ t.savepoints = txn[s].savepoints /\ t.sub_xids = txn[s].sub_xids
      /\ t.writes = txn[s].writes /\ t.snapshot = p.snapshot
  <2> HIDE DEF p
  <2> QED
    BY <1>2, <1>3, <1>4 DEF Txn
<1>6. /\ snapshots' = Registered(txn[s])
      /\ UNCHANGED <<next_xid, next_row_id, active, rows, row_locks, lock_order, disk, aborted>>
    BY DEF exec_select, StmtError
<1>7. Len(txn[s].writes) \in Nat /\ Len(LocksIn(lock_order, txn[s].xid)) \in Nat
    BY <1>1, LenProperties, LocksLen DEF Txn, FieldTypes
<1>8. /\ txn' \in [Session -> Txn]
      /\ snapshots' \in [DOMAIN snapshots' -> Snapshot]
      /\ XidOwnership' /\ SavepointMarks'
  <2>1. lock_order' \in [DOMAIN lock_order' -> Seq(Nat)] /\ lock_order' = lock_order
    BY <1>1, <1>6 DEF FieldTypes
  <2> HIDE DEF p, f
  <2>2. t \in Txn /\ txn' = [txn EXCEPT ![s] = t] /\ t.snapshot = Pinned(txn[s]).snapshot
    BY <1>3, <1>5 DEF p
  <2>3. active' = active /\ Len(txn[s].writes) <= Len(t.writes)
    BY <1>5, <1>6, <1>7
  <2>4. /\ \A x : x # txn[s].xid => LocksIn(lock_order', x) = LocksIn(lock_order, x)
        /\ Len(LocksIn(lock_order, txn[s].xid)) <= Len(LocksIn(lock_order', txn[s].xid))
    BY <1>7, <2>1
  <2> QED
    BY <1>1, <1>5, <1>6, <2>1, <2>2, <2>3, <2>4, StatementStep
<1> QED
    BY <1>1, <1>6, <1>8 DEF IInv, FieldTypes, RowTable, DiskImage

(* SELECT ... FOR UPDATE. *)
LEMMA LockStep ==
    ASSUME IInv, NEW s \in Session, NEW r \in DOMAIN rows, acquire_row_locks(s, r)
    PROVE  IInv'
<1> DEFINE x == txn[s].xid
           p == Pinned(txn[s])
           l == LocksIn(lock_order, x)
<1>1. FieldTypes /\ txn[s] \in Txn /\ Open(s) /\ x \in Nat
    BY DEF IInv, FieldTypes, acquire_row_locks, Running, Txn
<1>2. /\ p \in Txn
      /\ p.xid = x /\ p.owned_xids = txn[s].owned_xids
      /\ p.savepoints = txn[s].savepoints /\ p.sub_xids = txn[s].sub_xids
      /\ p.writes = txn[s].writes
    BY <1>1, PinnedType, PinnedFields
<1>3. /\ txn' = [txn EXCEPT ![s] = p]
      /\ snapshots' = Registered(txn[s])
      /\ UNCHANGED <<next_xid, next_row_id, active, rows, disk, aborted>>
    BY DEF acquire_row_locks
<1>4. l \in Seq(Nat) /\ Len(l) \in Nat /\ r \in Nat /\ Len(txn[s].writes) \in Nat
  <2>1. lock_order \in [DOMAIN lock_order -> Seq(Nat)] /\ r \in Nat
    BY <1>1 DEF FieldTypes, RowTable
  <2>2. txn[s].writes \in Seq(WriteOp)
    BY <1>1 DEF Txn
  <2> QED
    BY <2>1, <2>2, LocksLen, LenProperties
<1>5. /\ row_locks' \in [DOMAIN row_locks' -> Nat]
      /\ lock_order' \in [DOMAIN lock_order' -> Seq(Nat)]
      /\ \A y : y # x => LocksIn(lock_order', y) = LocksIn(lock_order, y)
      /\ Len(l) <= Len(LocksIn(lock_order', x))
  <2>1. row_locks \in [DOMAIN row_locks -> Nat] /\ lock_order \in [DOMAIN lock_order -> Seq(Nat)]
    BY <1>1 DEF FieldTypes
  <2>2. CASE row_locks' = row_locks /\ lock_order' = lock_order
    BY <1>4, <2>1, <2>2
  <2>3. CASE row_locks' = With(row_locks, r, x) /\ lock_order' = With(lock_order, x, Append(l, r))
    <3> HIDE DEF x, l
    <3>1. Append(l, r) \in Seq(Nat) /\ Len(Append(l, r)) = Len(l) + 1
      BY <1>4, AppendProperties
    <3>2. row_locks' \in [DOMAIN row_locks' -> Nat]
      BY <1>1, <2>1, <2>3 DEF With
    <3>3. /\ DOMAIN lock_order' = DOMAIN lock_order \cup {x}
          /\ lock_order'[x] = Append(l, r)
          /\ \A y \in DOMAIN lock_order : y # x => lock_order'[y] = lock_order[y]
          /\ lock_order' = [z \in DOMAIN lock_order' |-> lock_order'[z]]
      BY <2>3 DEF With
    <3>4. lock_order' \in [DOMAIN lock_order' -> Seq(Nat)]
      BY <2>1, <3>1, <3>3
    <3>5. \A y : y # x => LocksIn(lock_order', y) = LocksIn(lock_order, y)
      BY <3>3 DEF LocksIn
    <3>6. LocksIn(lock_order', x) = Append(l, r)
      BY <3>3 DEF LocksIn
    <3> QED
      BY <1>4, <3>1, <3>2, <3>4, <3>5, <3>6
  <2> QED
    BY <2>2, <2>3 DEF acquire_row_locks, Locks, LocksIn
<1>6. /\ txn' \in [Session -> Txn]
      /\ snapshots' \in [DOMAIN snapshots' -> Snapshot]
      /\ XidOwnership' /\ SavepointMarks'
  <2> HIDE DEF p
  <2>1. p.snapshot = Pinned(txn[s]).snapshot /\ Len(txn[s].writes) <= Len(p.writes)
        /\ active' = active
    BY <1>2, <1>3, <1>4 DEF p
  <2> QED
    BY <1>1, <1>2, <1>3, <1>5, <2>1, StatementStep
<1> QED
    BY <1>1, <1>3, <1>5, <1>6 DEF IInv, FieldTypes, RowTable, DiskImage

(* INSERT, UPDATE and DELETE in a block. *)
LEMMA WriteStep ==
    ASSUME IInv, NEW s \in Session, Open(s), NEW k \in Key,
           NEW w \in WriteOp, w.new \in {0, next_row_id}, Write(s, w, k)
    PROVE  IInv'
<1> DEFINE p == Pinned(txn[s])
           t == [p EXCEPT !.writes = Append(@, w)]
<1>1. FieldTypes /\ txn[s] \in Txn
    BY DEF IInv, FieldTypes
<1>2. /\ p \in Txn
      /\ p.xid = txn[s].xid /\ p.owned_xids = txn[s].owned_xids
      /\ p.savepoints = txn[s].savepoints /\ p.sub_xids = txn[s].sub_xids
      /\ p.writes = txn[s].writes
    BY <1>1, PinnedType, PinnedFields
<1>3. /\ txn' = [txn EXCEPT ![s] = t]
      /\ snapshots' = Registered(txn[s])
      /\ UNCHANGED <<next_xid, active, row_locks, lock_order, disk, aborted>>
      /\ rows' = Apply(rows, w, k, write_xid(txn[s]))
      /\ next_row_id' = IF w.new = 0 THEN next_row_id ELSE next_row_id + 1
    BY DEF Write
<1>4. p.writes \in Seq(WriteOp)
    BY <1>2 DEF Txn
<1>5. Append(p.writes, w) \in Seq(WriteOp) /\ Len(Append(p.writes, w)) = Len(p.writes) + 1
      /\ Len(p.writes) \in Nat
    BY <1>4, AppendProperties, LenProperties
<1>6. /\ t \in Txn
      /\ t.xid = txn[s].xid /\ t.owned_xids = txn[s].owned_xids
      /\ t.savepoints = txn[s].savepoints /\ t.sub_xids = txn[s].sub_xids
      /\ t.writes = Append(p.writes, w) /\ t.snapshot = p.snapshot
  <2> HIDE DEF p
  <2> QED
    BY <1>2, <1>5 DEF Txn
<1>7. Len(txn[s].writes) <= Len(t.writes)
    BY <1>2, <1>5, <1>6
<1>8. Len(LocksIn(lock_order, txn[s].xid)) \in Nat
    BY <1>1, LocksLen DEF FieldTypes
<1>9. /\ txn' \in [Session -> Txn]
      /\ snapshots' \in [DOMAIN snapshots' -> Snapshot]
      /\ XidOwnership' /\ SavepointMarks'
  <2>1. lock_order' \in [DOMAIN lock_order' -> Seq(Nat)] /\ lock_order' = lock_order
    BY <1>1, <1>3 DEF FieldTypes
  <2> HIDE DEF p, t
  <2>2. t.snapshot = Pinned(txn[s]).snapshot /\ active' = active
    BY <1>3, <1>6 DEF p
  <2>3. /\ \A x : x # txn[s].xid => LocksIn(lock_order', x) = LocksIn(lock_order, x)
        /\ Len(LocksIn(lock_order, txn[s].xid)) <= Len(LocksIn(lock_order', txn[s].xid))
    BY <1>8, <2>1
  <2> QED
    BY <1>3, <1>6, <1>7, <2>1, <2>2, <2>3, StatementStep
<1>10. write_xid(txn[s]) \in Nat
  <2>1. txn[s].sub_xids \in Seq(Nat) /\ txn[s].xid \in Nat
    BY <1>1 DEF Txn
  <2>2. ASSUME txn[s].sub_xids # <<>> PROVE txn[s].sub_xids[Len(txn[s].sub_xids)] \in Nat
    BY <2>1, <2>2, EmptySeq, ElementOfSeq
  <2> QED
    BY <2>1, <2>2 DEF write_xid
<1>11. RowTable(rows', next_row_id') /\ next_row_id' \in Nat
    BY <1>1, <1>3, <1>10, ApplyType DEF FieldTypes
<1> QED
    BY <1>1, <1>3, <1>9, <1>11 DEF IInv, FieldTypes, DiskImage, RowTable

(* The ops the statements log are write ops. *)
LEMMA OpTypes ==
    ASSUME FieldTypes
    PROVE  /\ InsertRow(next_row_id) \in WriteOp /\ InsertRow(next_row_id).new = next_row_id
           /\ \A r \in DOMAIN rows :
                /\ DeleteRow(r) \in WriteOp /\ DeleteRow(r).new = 0
                /\ UpdateRow(r, next_row_id) \in WriteOp
                /\ UpdateRow(r, next_row_id).new = next_row_id
                /\ rows[r].key \in Key
<1>1. ASSUME NEW r \in DOMAIN rows PROVE r \in Nat /\ rows[r].xmax \in Nat /\ rows[r].key \in Key
    BY DEF FieldTypes, RowTable, RowVersion
<1>2. next_row_id \in Nat
    BY DEF FieldTypes
<1> QED
    BY <1>1, <1>2 DEF InsertRow, DeleteRow, UpdateRow, WriteOp

(* exec_insert, exec_delete and exec_update are such writes. *)
LEMMA DmlStep ==
    ASSUME IInv, NEW s \in Session, NEW k \in Key, NEW r,
           \/ exec_insert(s, k)
           \/ r \in DOMAIN rows /\ (exec_delete(s, r) \/ exec_update(s, r, k))
    PROVE  IInv'
<1>1. FieldTypes /\ Open(s)
    BY DEF IInv, exec_insert, exec_delete, exec_update, Running
<1>2. CASE exec_insert(s, k)
    BY <1>1, <1>2, OpTypes, WriteStep DEF exec_insert
<1>3. CASE r \in DOMAIN rows /\ exec_delete(s, r)
    BY <1>1, <1>3, OpTypes, WriteStep DEF exec_delete
<1>4. CASE r \in DOMAIN rows /\ exec_update(s, r, k)
    BY <1>1, <1>4, OpTypes, WriteStep DEF exec_update
<1> QED
    BY <1>2, <1>3, <1>4

(* SAVEPOINT. *)
LEMMA SavepointStep ==
    ASSUME IInv, NEW s \in Session, txn_savepoint(s)
    PROVE  IInv'
<1> DEFINE t == txn[s]
           n == Len(LocksIn(lock_order, t.xid))
           m == [writes_len |-> Len(t.writes), lock_count |-> n]
           u == [t EXCEPT !.savepoints = Append(t.savepoints, m),
                          !.sub_xids = Append(t.sub_xids, next_xid),
                          !.owned_xids = t.owned_xids \cup {next_xid}]
<1>1. FieldTypes /\ Owned(active, snapshots, txn) /\ Marked(lock_order, txn)
    BY OwnedIsXidOwnership, MarkedIsSavepointMarks DEF IInv
<1>2. txn \in [Session -> Txn] /\ t \in Txn /\ t.xid # 0
    BY <1>1 DEF FieldTypes, txn_savepoint, Running, Open
<1>3. txn' = [txn EXCEPT ![s] = u]
    BY DEF txn_savepoint, Locks, LocksIn
<1>4. /\ next_xid' = next_xid + 1 /\ active' = active \cup {next_xid}
      /\ UNCHANGED <<next_row_id, snapshots, rows, row_locks, lock_order, disk, aborted>>
    BY DEF txn_savepoint
<1>5. next_xid \in Nat /\ next_xid \notin active
    BY <1>1, FreshXid
<1>6. n \in Nat /\ m \in SavepointMark
  <2>1. n \in Nat
    BY <1>1, LocksLen DEF FieldTypes
  <2>2. Len(t.writes) \in Nat
    BY <1>2, LenProperties DEF Txn
  <2> HIDE DEF n
  <2> QED
    BY <2>1, <2>2 DEF SavepointMark
<1>7. /\ Append(t.savepoints, m) \in Seq(SavepointMark)
      /\ Append(t.sub_xids, next_xid) \in Seq(Nat)
      /\ t.owned_xids \cup {next_xid} \in SUBSET Nat
  <2> HIDE DEF m
  <2>1. t.savepoints \in Seq(SavepointMark) /\ t.sub_xids \in Seq(Nat) /\ t.owned_xids \in SUBSET Nat
    BY <1>2 DEF Txn
  <2> QED
    BY <1>5, <1>6, <2>1, AppendProperties
<1>8. /\ u \in Txn /\ u.xid = t.xid /\ u.snapshot = t.snapshot /\ u.writes = t.writes
      /\ u.owned_xids = t.owned_xids \cup {next_xid}
      /\ u.savepoints = Append(t.savepoints, m)
      /\ u.sub_xids = Append(t.sub_xids, next_xid)
  <2> HIDE DEF t, m
  <2> QED
    BY <1>2, <1>7 DEF Txn
<1> HIDE DEF u
<1>9. FieldTypes'
  <2>1. txn' \in [Session -> Txn]
    BY <1>2, <1>3, <1>8
  <2> QED
    BY <1>1, <1>4, <2>1, FreshXid DEF FieldTypes
<1>10. Owned(active', snapshots', txn')
    BY <1>1, <1>2, <1>3, <1>4, <1>5, <1>8, OwnedScope
<1>11. Marked(lock_order', txn')
  <2>1. MarksAt(t, n)
    BY <1>1, <1>2 DEF Marked
  <2>2. MarksAt(u, n)
    <3> HIDE DEF n
    <3> QED
      BY <1>2, <1>5, <1>6, <1>8, <2>1, MarksPush
  <2>3. lock_order' = lock_order /\ n = Len(LocksIn(lock_order', u.xid))
    BY <1>4, <1>8
  <2> QED
    BY <1>1, <1>2, <1>3, <2>2, <2>3, MarkedStep
<1> QED
    BY <1>9, <1>10, <1>11, OwnedIsXidOwnership, MarkedIsSavepointMarks DEF IInv

(* RELEASE SAVEPOINT. *)
LEMMA ReleaseStep ==
    ASSUME IInv, NEW s \in Session, NEW idx, txn_release(s, idx)
    PROVE  IInv'
<1> DEFINE t == txn[s]
           n == Len(LocksIn(lock_order, t.xid))
           u == [t EXCEPT !.savepoints = Truncate(t.savepoints, idx - 1),
                          !.sub_xids = Truncate(t.sub_xids, idx - 1)]
<1>1. FieldTypes /\ Owned(active, snapshots, txn) /\ Marked(lock_order, txn)
    BY OwnedIsXidOwnership, MarkedIsSavepointMarks DEF IInv
<1>2. /\ txn \in [Session -> Txn] /\ t \in Txn /\ t.xid # 0
      /\ idx \in DOMAIN t.savepoints
      /\ UNCHANGED <<engine, disk, aborted>>
    BY <1>1 DEF FieldTypes, txn_release, Running, Open
<1>3. txn' = [txn EXCEPT ![s] = u]
    BY <1>2 DEF txn_release, Txn
<1>4. n \in Nat /\ MarksAt(t, n)
    BY <1>1, <1>2, LocksLen DEF FieldTypes, Marked
<1>5. Truncate(t.savepoints, idx - 1) \in Seq(SavepointMark) /\ Truncate(t.sub_xids, idx - 1) \in Seq(Nat)
  <2> DEFINE k == idx - 1
  <2>1. t.savepoints \in Seq(SavepointMark) /\ t.sub_xids \in Seq(Nat)
    BY <1>2 DEF Txn
  <2>2. Len(t.savepoints) \in Nat /\ idx \in 1..Len(t.savepoints) /\ Len(t.sub_xids) = Len(t.savepoints)
    BY <1>2, <1>4, <2>1, LenProperties DEF MarksAt
  <2>3. k \in 0..Len(t.savepoints) /\ k \in 0..Len(t.sub_xids)
    BY <2>2
  <2> HIDE DEF k
  <2>4. Truncate(t.savepoints, k) \in Seq(SavepointMark) /\ Truncate(t.sub_xids, k) \in Seq(Nat)
    BY <2>1, <2>3, TruncateSeq
  <2> QED
    BY <2>4 DEF k
<1>6. /\ u \in Txn /\ u.xid = t.xid /\ u.snapshot = t.snapshot /\ u.writes = t.writes
      /\ u.owned_xids = t.owned_xids
      /\ u.savepoints = Truncate(t.savepoints, idx - 1)
      /\ u.sub_xids = Truncate(t.sub_xids, idx - 1)
  <2> HIDE DEF t
  <2> QED
    BY <1>2, <1>5 DEF Txn
<1> HIDE DEF u
<1>7. FieldTypes'
  <2>1. txn' \in [Session -> Txn]
    BY <1>2, <1>3, <1>6
  <2> QED
    BY <1>1, <1>2, <2>1 DEF FieldTypes, engine
<1>8. Owned(active', snapshots', txn')
  <2>1. active' = active /\ snapshots' = snapshots
    BY <1>2 DEF engine
  <2> QED
    BY <1>1, <1>2, <1>3, <1>6, <2>1, OwnedStatement
<1>9. Marked(lock_order', txn')
  <2>1. lock_order' = lock_order
    BY <1>2 DEF engine
  <2>2. MarksAt(u, n)
    <3> HIDE DEF n
    <3> QED
      BY <1>2, <1>4, <1>6, MarksPop
  <2>3. n = Len(LocksIn(lock_order', u.xid))
    BY <1>6, <2>1
  <2> QED
    BY <1>1, <1>2, <1>3, <2>1, <2>2, <2>3, MarkedStep
<1> QED
    BY <1>7, <1>8, <1>9, OwnedIsXidOwnership, MarkedIsSavepointMarks DEF IInv

(* ROLLBACK TO SAVEPOINT. *)
LEMMA RollbackToStep ==
    ASSUME IInv, NEW s \in Session, NEW idx, txn_rollback_to(s, idx)
    PROVE  IInv'
<1> DEFINE t == txn[s]
           mark == t.savepoints[idx]
           n == Len(LocksIn(lock_order, t.xid))
           u == [t EXCEPT !.writes = Truncate(t.writes, mark.writes_len),
                          !.savepoints = Truncate(t.savepoints, idx),
                          !.sub_xids = Append(Truncate(t.sub_xids, idx - 1), next_xid),
                          !.owned_xids = t.owned_xids \cup {next_xid},
                          !.failed = FALSE]
<1>1. FieldTypes /\ Owned(active, snapshots, txn) /\ Marked(lock_order, txn)
    BY OwnedIsXidOwnership, MarkedIsSavepointMarks DEF IInv
<1>2. /\ txn \in [Session -> Txn] /\ t \in Txn /\ t.xid # 0
      /\ idx \in DOMAIN t.savepoints
    BY <1>1 DEF FieldTypes, txn_rollback_to, Open
<1>3. /\ txn' = [txn EXCEPT ![s] = u]
      /\ next_xid' = next_xid + 1 /\ active' = active \cup {next_xid}
      /\ rows' = undo_all(rows, all_xids(t), UndoneOps(t, idx))
      /\ row_locks' = KeptLocks(t.xid, mark.lock_count)
      /\ lock_order' = KeptOrder(t.xid, mark.lock_count)
      /\ aborted' = aborted \cup {x \in t.owned_xids : x >= t.sub_xids[idx]}
      /\ UNCHANGED <<next_row_id, snapshots, disk>>
    BY DEF txn_rollback_to
<1>4. n \in Nat /\ MarksAt(t, n) /\ next_xid \in Nat /\ next_xid \notin active
    BY <1>1, <1>2, LocksLen, FreshXid DEF FieldTypes, Marked
<1>5. /\ t.savepoints \in Seq(SavepointMark) /\ t.sub_xids \in Seq(Nat)
      /\ t.writes \in Seq(WriteOp) /\ t.owned_xids \in SUBSET Nat
    BY <1>2 DEF Txn
<1>6. /\ Len(t.savepoints) \in Nat /\ idx \in 1..Len(t.savepoints)
      /\ Len(t.sub_xids) = Len(t.savepoints) /\ Len(t.writes) \in Nat
    BY <1>2, <1>4, <1>5, LenProperties DEF MarksAt
<1>7. mark \in SavepointMark
    BY <1>5, <1>6, ElementOfSeq
<1>8. /\ mark.writes_len \in 0..Len(t.writes) /\ mark.lock_count \in 0..n
  <2>1. mark.writes_len \in Nat /\ mark.lock_count \in Nat
    BY <1>7 DEF SavepointMark
  <2>2. mark.writes_len <= Len(t.writes) /\ mark.lock_count <= n
    BY <1>2, <1>4 DEF MarksAt
  <2> HIDE DEF mark, n
  <2> QED
    BY <1>4, <1>6, <2>1, <2>2
<1> HIDE DEF mark
<1>9. /\ Truncate(t.writes, mark.writes_len) \in Seq(WriteOp)
      /\ Len(Truncate(t.writes, mark.writes_len)) = mark.writes_len
    BY <1>5, <1>8, TruncateSeq
<1>10. Truncate(t.savepoints, idx) \in Seq(SavepointMark)
  <2>1. idx \in 0..Len(t.savepoints)
    BY <1>6
  <2> QED
    BY <1>5, <2>1, TruncateSeq
<1>11. Append(Truncate(t.sub_xids, idx - 1), next_xid) \in Seq(Nat)
  <2> DEFINE k == idx - 1
  <2>1. k \in 0..Len(t.sub_xids)
    BY <1>6
  <2> HIDE DEF k
  <2>2. Truncate(t.sub_xids, k) \in Seq(Nat)
    BY <1>5, <2>1, TruncateSeq
  <2> QED
    BY <1>4, <2>2, AppendProperties DEF k
<1>12. /\ u \in Txn /\ u.xid = t.xid /\ u.snapshot = t.snapshot
       /\ u.writes = Truncate(t.writes, mark.writes_len)
       /\ u.owned_xids = t.owned_xids \cup {next_xid}
       /\ u.savepoints = Truncate(t.savepoints, idx)
       /\ u.sub_xids = Append(Truncate(t.sub_xids, idx - 1), next_xid)
  <2> HIDE DEF t
  <2>1. t.owned_xids \cup {next_xid} \in SUBSET Nat
    BY <1>4, <1>5
  <2> QED
    BY <1>2, <1>9, <1>10, <1>11, <2>1 DEF Txn
<1> HIDE DEF u
<1>13. /\ lock_order' \in [DOMAIN lock_order' -> Seq(Nat)]
       /\ \A x : x # t.xid => LocksIn(lock_order', x) = LocksIn(lock_order, x)
       /\ Len(LocksIn(lock_order', t.xid)) = mark.lock_count
  <2>1. lock_order \in [DOMAIN lock_order -> Seq(Nat)]
    BY <1>1 DEF FieldTypes
  <2>2. lock_order' = [x \in DOMAIN lock_order |->
                         IF x = t.xid THEN Truncate(lock_order[x], mark.lock_count)
                         ELSE lock_order[x]]
    BY <1>3 DEF KeptOrder
  <2>3. \A x : x # t.xid => LocksIn(lock_order', x) = LocksIn(lock_order, x)
    BY <2>2 DEF LocksIn
  <2>4. CASE t.xid \in DOMAIN lock_order
    <3>1. LocksIn(lock_order, t.xid) = lock_order[t.xid]
      BY <2>4 DEF LocksIn
    <3>2. lock_order[t.xid] \in Seq(Nat)
      BY <2>1, <2>4
    <3>3. /\ Truncate(lock_order[t.xid], mark.lock_count) \in Seq(Nat)
          /\ Len(Truncate(lock_order[t.xid], mark.lock_count)) = mark.lock_count
      BY <1>8, <3>1, <3>2, TruncateSeq
    <3>4. LocksIn(lock_order', t.xid) = Truncate(lock_order[t.xid], mark.lock_count)
      BY <2>2, <2>4 DEF LocksIn
    <3>5. \A x \in DOMAIN lock_order : lock_order'[x] \in Seq(Nat)
      BY <2>1, <2>2, <3>3
    <3> HIDE DEF t
    <3>6. lock_order' \in [DOMAIN lock_order' -> Seq(Nat)]
      BY <2>2, <3>5
    <3> QED
      BY <2>3, <3>3, <3>4, <3>6
  <2>5. CASE t.xid \notin DOMAIN lock_order
    <3>1. lock_order' = lock_order
      BY <2>1, <2>2, <2>5
    <3>2. n = 0 /\ LocksIn(lock_order', t.xid) = <<>>
      BY <2>5, <3>1, EmptySeq DEF LocksIn
    <3> QED
      BY <1>8, <2>1, <2>3, <3>1, <3>2, EmptySeq
  <2> QED
    BY <2>4, <2>5
<1>14. row_locks' \in [DOMAIN row_locks' -> Nat]
  <2> DEFINE D == {q \in DOMAIN row_locks :
                    ~(/\ q \in {Locks(t.xid)[i] : i \in mark.lock_count + 1 .. Len(Locks(t.xid))}
                      /\ row_locks[q] = t.xid)}
  <2>1. row_locks' = [r \in D |-> row_locks[r]]
    BY <1>3 DEF KeptLocks
  <2>2. D \subseteq DOMAIN row_locks /\ row_locks \in [DOMAIN row_locks -> Nat]
    BY <1>1 DEF FieldTypes
  <2> HIDE DEF D
  <2> QED
    BY <2>1, <2>2
<1>15. RowTable(rows', next_row_id')
  <2>1. UndoneOps(t, idx) \in Seq(WriteOp)
    <3>1. mark.writes_len \in Nat
      BY <1>7 DEF SavepointMark
    <3> QED
      BY <1>5, <3>1, SuffixSeq DEF UndoneOps, mark
  <2> QED
    BY <1>1, <1>3, <2>1, UndoAllType DEF FieldTypes
<1>16. FieldTypes'
  <2>1. txn' \in [Session -> Txn]
    BY <1>2, <1>3, <1>12
  <2>2. aborted' \subseteq Nat
    BY <1>1, <1>3, <1>5 DEF FieldTypes
  <2> QED
    BY <1>1, <1>3, <1>13, <1>14, <1>15, <2>1, <2>2, FreshXid DEF FieldTypes
<1>17. Owned(active', snapshots', txn')
    BY <1>1, <1>2, <1>3, <1>4, <1>12, OwnedScope
<1>18. Marked(lock_order', txn')
  <2>1. Len(u.writes) = mark.writes_len
    BY <1>9, <1>12
  <2>2. MarksAt(u, mark.lock_count)
    <3> HIDE DEF n
    <3> QED
      BY <1>2, <1>4, <1>12, <2>1, MarksCut DEF mark
  <2> QED
    BY <1>1, <1>2, <1>3, <1>12, <1>13, <2>2, MarkedStep
<1> QED
    BY <1>16, <1>17, <1>18, OwnedIsXidOwnership, MarkedIsSavepointMarks DEF IInv

(* The end of a transaction, over the row table rws the engine is left with. *)
LEMMA RetireStep ==
    ASSUME IInv, NEW s \in Session, Open(s),
           NEW rws, RowTable(rws, next_row_id), retire_txn_family(s, rws),
           UNCHANGED <<next_xid, next_row_id>>,
           DiskImage(disk'), aborted' \subseteq Nat
    PROVE  IInv'
<1> DEFINE t == txn[s]
<1>1. FieldTypes /\ Owned(active, snapshots, txn) /\ Marked(lock_order, txn)
    BY OwnedIsXidOwnership, MarkedIsSavepointMarks DEF IInv
<1>2. txn \in [Session -> Txn] /\ t \in Txn /\ t.xid # 0
    BY <1>1 DEF FieldTypes, Open
<1>3. /\ active' = active \ all_xids(t)
      /\ snapshots' = Without(snapshots, all_xids(t))
      /\ lock_order' = Without(lock_order, {t.xid})
      /\ rows' = auto_vacuum(rws, t.writes, active', snapshots')
      /\ txn' = [txn EXCEPT ![s] = NoTxn]
    BY DEF retire_txn_family, retired_xids
<1>4. NoTxn \in Txn /\ NoTxn.xid = 0
  <2>1. NoSnapshot \in Snapshot
    BY DEF NoSnapshot, Snapshot
  <2>2. <<>> \in Seq(WriteOp) /\ <<>> \in Seq(SavepointMark) /\ <<>> \in Seq(Nat)
    BY EmptySeq
  <2> QED
    BY <2>1, <2>2 DEF NoTxn, NewTxn, Txn
<1>5. row_locks' \in [DOMAIN row_locks' -> Nat]
  <2> DEFINE D == {q \in DOMAIN row_locks : row_locks[q] # t.xid}
  <2>1. row_locks' = [r \in D |-> row_locks[r]]
    BY DEF retire_txn_family
  <2>2. D \subseteq DOMAIN row_locks /\ row_locks \in [DOMAIN row_locks -> Nat]
    BY <1>1 DEF FieldTypes
  <2> HIDE DEF D
  <2> QED
    BY <2>1, <2>2
<1>6. /\ lock_order' \in [DOMAIN lock_order' -> Seq(Nat)]
      /\ \A x : x # t.xid => LocksIn(lock_order', x) = LocksIn(lock_order, x)
    BY <1>1, <1>3 DEF Without, FieldTypes, LocksIn
<1>7. snapshots' \in [DOMAIN snapshots' -> Snapshot]
    BY <1>1, <1>3 DEF Without, FieldTypes
<1>8. RowTable(rows', next_row_id')
    BY <1>1, <1>3, VacuumType DEF FieldTypes
<1>9. FieldTypes'
  <2>1. txn' \in [Session -> Txn]
    BY <1>2, <1>3, <1>4
  <2>2. active' \subseteq 1..(next_xid' - 1)
    BY <1>1, <1>3 DEF FieldTypes
  <2> QED
    BY <1>1, <1>5, <1>6, <1>7, <1>8, <2>1, <2>2 DEF FieldTypes
<1>10. Owned(active', snapshots', txn')
    BY <1>1, <1>2, <1>3, OwnedRetire
<1>11. Marked(lock_order', txn')
    BY <1>1, <1>2, <1>3, <1>4, <1>6, MarkedStep
<1> QED
    BY <1>9, <1>10, <1>11, OwnedIsXidOwnership, MarkedIsSavepointMarks DEF IInv

(* ROLLBACK and COMMIT. *)
LEMMA EndStep ==
    ASSUME IInv, NEW s \in Session, txn_rollback(s) \/ commit_taken_txn(s)
    PROVE  IInv'
<1>1. FieldTypes /\ Open(s) /\ txn[s] \in Txn /\ RowTable(rows, next_row_id) /\ DiskImage(disk)
      /\ next_row_id \in Nat /\ next_xid \in Nat
    BY DEF IInv, FieldTypes, txn_rollback, commit_taken_txn, Running
<1>2. txn[s].writes \in Seq(WriteOp) /\ txn[s].xid \in Nat /\ all_xids(txn[s]) \subseteq Nat
    BY <1>1 DEF Txn, all_xids
<1>3. CASE txn_rollback(s)
  <2>1. RowTable(undo_all(rows, all_xids(txn[s]), txn[s].writes), next_row_id)
    BY <1>1, <1>2, UndoAllType
  <2>2. aborted' \subseteq Nat /\ disk' = disk /\ UNCHANGED <<next_xid, next_row_id>>
    BY <1>1, <1>2, <1>3 DEF txn_rollback, FieldTypes
  <2>3. retire_txn_family(s, undo_all(rows, all_xids(txn[s]), txn[s].writes))
    BY <1>3 DEF txn_rollback
  <2> QED
    BY <1>1, <2>1, <2>2, <2>3, RetireStep
<1>4. CASE commit_taken_txn(s)
  <2>1. DiskImage(apply_record(disk, rows, txn[s].writes, txn[s].xid))
    BY <1>1, <1>2, ApplyRecordType
  <2>2. aborted' \subseteq Nat /\ DiskImage(disk') /\ UNCHANGED <<next_xid, next_row_id>>
    BY <1>1, <1>4, <2>1 DEF commit_taken_txn, FieldTypes
  <2>3. retire_txn_family(s, rows)
    BY <1>4 DEF commit_taken_txn
  <2> QED
    BY <1>1, <2>2, <2>3, RetireStep
<1> QED
    BY <1>3, <1>4

(* A step that leaves sessions, xids in use and locks alone. *)
LEMMA QuietStep ==
    ASSUME IInv, UNCHANGED <<active, snapshots, row_locks, lock_order, txn>>,
           next_xid' \in Nat, next_xid' >= next_xid, next_row_id' \in Nat,
           RowTable(rows', next_row_id'), DiskImage(disk'), aborted' \subseteq Nat
    PROVE  IInv'
<1>1. FieldTypes'
  <2>1. next_xid' \in Nat \ {0} /\ active' \subseteq 1..(next_xid' - 1)
    BY DEF IInv, FieldTypes
  <2> QED
    BY <2>1 DEF IInv, FieldTypes
<1>2. Owned(active', snapshots', txn') /\ Marked(lock_order', txn')
    BY OwnedIsXidOwnership, MarkedIsSavepointMarks DEF IInv
<1> QED
    BY <1>1, <1>2, OwnedIsXidOwnership, MarkedIsSavepointMarks DEF IInv

(* Statements outside a block. *)
LEMMA AutocommitStep ==
    ASSUME IInv, NEW s \in Session, NEW k \in Key,
           NEW w \in WriteOp, w.new \in {0, next_row_id}, autocommit_execute(s, w, k)
    PROVE  IInv'
<1> DEFINE rws == Apply(rows, w, k, next_xid)
           n == IF w.new = 0 THEN next_row_id ELSE next_row_id + 1
<1>1. FieldTypes /\ RowTable(rows, next_row_id) /\ DiskImage(disk)
      /\ next_row_id \in Nat /\ next_xid \in Nat /\ aborted \subseteq Nat
    BY DEF IInv, FieldTypes
<1>2. RowTable(rws, n) /\ n \in Nat
    BY <1>1, ApplyType
<1>3. <<w>> \in Seq(WriteOp)
    OBVIOUS
<1>4. /\ next_xid' = next_xid + 1 /\ next_row_id' = n
      /\ UNCHANGED <<active, snapshots, row_locks, lock_order, txn>>
      /\ \/ /\ rows' = auto_vacuum(rws, <<w>>, active, snapshots)
            /\ disk' = apply_record(disk, rws, <<w>>, next_xid)
            /\ UNCHANGED aborted
         \/ /\ rows' = auto_vacuum(undo_all(rws, {next_xid}, <<w>>), <<w>>, active, snapshots)
            /\ aborted' = aborted \cup {next_xid}
            /\ UNCHANGED disk
    BY DEF autocommit_execute
<1> HIDE DEF rws, n
<1>5. RowTable(undo_all(rws, {next_xid}, <<w>>), n)
    BY <1>2, <1>3, UndoAllType
<1>6. RowTable(rows', n)
    BY <1>2, <1>4, <1>5, VacuumType
<1>7. DiskImage(disk') /\ aborted' \subseteq Nat
    BY <1>1, <1>2, <1>3, <1>4, ApplyRecordType
<1>8. next_xid' \in Nat /\ next_xid' >= next_xid
    BY <1>1, <1>4
<1> QED
    BY <1>2, <1>4, <1>6, <1>7, <1>8, QuietStep

(* The four kinds of autocommit statement. *)
LEMMA AutoStep ==
    ASSUME IInv, NEW s \in Session, NEW k \in Key, NEW r,
           \/ auto_insert(s, k) \/ auto_error(s)
           \/ r \in DOMAIN rows /\ (auto_delete(s, r) \/ auto_update(s, r, k))
    PROVE  IInv'
<1>1. FieldTypes
    BY DEF IInv
<1>2. CASE auto_insert(s, k)
    BY <1>1, <1>2, OpTypes, AutocommitStep DEF auto_insert
<1>3. CASE r \in DOMAIN rows /\ auto_delete(s, r)
    BY <1>1, <1>3, OpTypes, AutocommitStep DEF auto_delete
<1>4. CASE r \in DOMAIN rows /\ auto_update(s, r, k)
    BY <1>1, <1>4, OpTypes, AutocommitStep DEF auto_update
<1>5. CASE auto_error(s)
  <2>1. /\ UNCHANGED <<active, snapshots, row_locks, lock_order, txn>>
        /\ next_xid' \in Nat /\ next_xid' >= next_xid /\ next_row_id' \in Nat
        /\ aborted' \subseteq Nat
    BY <1>1, <1>5 DEF auto_error, FieldTypes
  <2>2. RowTable(rows', next_row_id') /\ DiskImage(disk')
    BY <1>1, <1>5 DEF auto_error, FieldTypes
  <2> QED
    BY <2>1, <2>2, QuietStep
<1> QED
    BY <1>2, <1>3, <1>4, <1>5

(* VACUUM and CHECKPOINT. *)
LEMMA MaintenanceStep ==
    ASSUME IInv, NEW s \in Session, txn_vacuum(s) \/ txn_checkpoint(s)
    PROVE  IInv'
<1>1. FieldTypes /\ RowTable(rows, next_row_id) /\ DiskImage(disk)
      /\ next_row_id \in Nat /\ next_xid \in Nat /\ aborted \subseteq Nat
    BY DEF IInv, FieldTypes
<1>2. CASE txn_vacuum(s)
  <2>1. RowTable(rows', next_row_id') /\ disk' = disk
    BY <1>1, <1>2, VacuumType DEF txn_vacuum
  <2> QED
    BY <1>1, <1>2, <2>1, QuietStep DEF txn_vacuum
<1>3. CASE txn_checkpoint(s)
  <2>1. DiskImage(disk')
    BY <1>1, <1>3, CheckpointImageType DEF txn_checkpoint
  <2>2. UNCHANGED <<next_xid, next_row_id, active, snapshots, rows, row_locks, lock_order, txn, aborted>>
    BY <1>3 DEF txn_checkpoint, engine
  <2> QED
    BY <1>1, <2>1, <2>2, QuietStep
<1> QED
    BY <1>2, <1>3

(* Nothing is open: at the start and after a restart. *)
LEMMA NothingOpen ==
    /\ Owned({}, NoEntries, [s \in Session |-> NoTxn])
    /\ Marked(NoEntries, [s \in Session |-> NoTxn])
    /\ [s \in Session |-> NoTxn] \in [Session -> Txn]
    /\ NoEntries \in [DOMAIN NoEntries -> Snapshot]
    /\ NoEntries \in [DOMAIN NoEntries -> Nat]
    /\ NoEntries \in [DOMAIN NoEntries -> Seq(Nat)]
<1> DEFINE tx == [s \in Session |-> NoTxn]
<1>1. NoTxn \in Txn
  <2>1. NoSnapshot \in Snapshot
    BY DEF NoSnapshot, Snapshot
  <2>2. <<>> \in Seq(WriteOp) /\ <<>> \in Seq(SavepointMark) /\ <<>> \in Seq(Nat)
    BY EmptySeq
  <2> QED
    BY <2>1, <2>2 DEF NoTxn, NewTxn, Txn
<1>2. DOMAIN NoEntries = {} /\ NoEntries = [x \in {} |-> x]
    BY DEF NoEntries
<1>3. \A s \in Session : tx[s] = NoTxn /\ tx[s].xid = 0 /\ tx[s].snapshot = NoSnapshot
    BY DEF NoTxn, NewTxn
<1>4. tx \in [Session -> Txn]
    BY <1>1
<1>5. /\ NoEntries \in [DOMAIN NoEntries -> Snapshot]
      /\ NoEntries \in [DOMAIN NoEntries -> Nat]
      /\ NoEntries \in [DOMAIN NoEntries -> Seq(Nat)]
    BY <1>2
<1> HIDE DEF tx
<1>6. Owned({}, NoEntries, tx) /\ Marked(NoEntries, tx)
    BY <1>2, <1>3 DEF Owned, Marked
<1> QED
    BY <1>4, <1>5, <1>6 DEF tx

(* A restart: the counters come from disk. *)
LEMMA RestartStep ==
    ASSUME IInv, Restart
    PROVE  IInv'
<1>1. DiskImage(disk) /\ aborted \subseteq Nat /\ active \subseteq Nat
    BY DEF IInv, FieldTypes
<1>2. FieldTypes'
  <2>1. next_xid' \in Nat \ {0} /\ next_row_id' \in Nat /\ RowTable(rows', next_row_id')
    BY <1>1 DEF Restart, DiskImage
  <2>2. active' \subseteq 1..(next_xid' - 1) /\ DiskImage(disk') /\ aborted' \subseteq Nat
    BY <1>1 DEF Restart
  <2>3. /\ snapshots' = NoEntries /\ row_locks' = NoEntries /\ lock_order' = NoEntries
        /\ txn' = [s \in Session |-> NoTxn]
    BY DEF Restart
  <2> QED
    BY <2>1, <2>2, <2>3, NothingOpen DEF FieldTypes
<1>3. Owned(active', snapshots', txn') /\ Marked(lock_order', txn')
    BY NothingOpen DEF Restart
<1> QED
    BY <1>2, <1>3, OwnedIsXidOwnership, MarkedIsSavepointMarks DEF IInv

(* A freshly created engine satisfies the inductive invariant. *)
LEMMA InitIInv ==
    ASSUME Init
    PROVE  IInv
<1> DEFINE c == Cardinality(InitKeys)
<1>1. c \in Nat
    BY ConstantsAssumption, FS_CardinalityType
<1> HIDE DEF c
<1>2. RowTable(rows, next_row_id) /\ next_row_id \in Nat
  <2>1. PICK f \in Loads : rows = [i \in DOMAIN f |-> [key |-> f[i], xmin |-> 1, xmax |-> 0]]
    BY DEF Init
  <2>2. f \in [1..c -> InitKeys]
    BY DEF Loads, c
  <2>3. next_row_id = c + 1
    BY DEF Init, c
  <2>4. \A i \in 1..c : f[i] \in Key
    BY <2>2, ConstantsAssumption
  <2>5. DOMAIN rows = 1..c /\ \A i \in 1..c : rows[i] = [key |-> f[i], xmin |-> 1, xmax |-> 0]
    BY <2>1, <2>2
  <2>6. \A i \in 1..c : rows[i] \in RowVersion
    BY <2>4, <2>5 DEF RowVersion
  <2>7. rows \in [DOMAIN rows -> RowVersion]
    BY <2>1, <2>5, <2>6
  <2> QED
    BY <1>1, <2>3, <2>5, <2>7 DEF RowTable
<1>3. FieldTypes
  <2>1. DiskImage(disk)
    BY <1>2 DEF Init, DiskImage
  <2> QED
    BY <1>2, <2>1, NothingOpen DEF Init, FieldTypes
<1>4. Owned(active, snapshots, txn) /\ Marked(lock_order, txn)
    BY NothingOpen DEF Init
<1> QED
    BY <1>3, <1>4, OwnedIsXidOwnership, MarkedIsSavepointMarks DEF IInv

(* Every step keeps the inductive invariant. *)
LEMMA NextIInv ==
    ASSUME IInv, [Next]_vars
    PROVE  IInv'
<1>1. CASE UNCHANGED vars
  <2>1. FieldTypes'
    BY <1>1 DEF IInv, FieldTypes, vars, engine
  <2>2. Owned(active', snapshots', txn') /\ Marked(lock_order', txn')
    BY <1>1, OwnedIsXidOwnership, MarkedIsSavepointMarks DEF IInv, vars, engine
  <2> QED
    BY <2>1, <2>2, OwnedIsXidOwnership, MarkedIsSavepointMarks DEF IInv
<1>2. CASE Restart
    BY <1>2, RestartStep
<1>3. ASSUME NEW s \in Session, NEW level \in Level, txn_begin(s, level) PROVE IInv'
    BY <1>3, BeginStep
<1>4. ASSUME NEW s \in Session, exec_select(s) \/ StmtError(s) \/ CommitFails(s) PROVE IInv'
    BY <1>4, SelectStep DEF CommitFails
<1>5. ASSUME NEW s \in Session, NEW r \in DOMAIN rows, acquire_row_locks(s, r) PROVE IInv'
    BY <1>5, LockStep
<1>6. ASSUME NEW s \in Session, NEW r \in DOMAIN rows, exec_delete(s, r) \/ auto_delete(s, r)
      PROVE  IInv'
  <2>1. rows[r].key \in Key
    BY OpTypes DEF IInv
  <2> QED
    BY <1>6, <2>1, DmlStep, AutoStep
<1>7. ASSUME NEW s \in Session, NEW k \in Key, exec_insert(s, k) \/ auto_insert(s, k)
      PROVE  IInv'
    BY <1>7, DmlStep, AutoStep
<1>8. ASSUME NEW s \in Session, NEW r \in DOMAIN rows, NEW k \in Key,
             exec_update(s, r, k) \/ auto_update(s, r, k)
      PROVE  IInv'
    BY <1>8, DmlStep, AutoStep
<1>9. ASSUME NEW s \in Session, txn_savepoint(s) PROVE IInv'
    BY <1>9, SavepointStep
<1>10. ASSUME NEW s \in Session, NEW idx, txn_rollback_to(s, idx) \/ txn_release(s, idx)
       PROVE  IInv'
    BY <1>10, RollbackToStep, ReleaseStep
<1>11. ASSUME NEW s \in Session, txn_rollback(s) \/ commit_taken_txn(s) PROVE IInv'
    BY <1>11, EndStep
<1>12. ASSUME NEW s \in Session, auto_error(s) PROVE IInv'
  <2>1. /\ UNCHANGED <<active, snapshots, row_locks, lock_order, txn>>
        /\ next_xid' \in Nat /\ next_xid' >= next_xid /\ next_row_id' \in Nat
        /\ aborted' \subseteq Nat
    BY <1>12 DEF auto_error, IInv, FieldTypes
  <2>2. RowTable(rows', next_row_id') /\ DiskImage(disk')
    BY <1>12 DEF auto_error, IInv, FieldTypes
  <2> QED
    BY <2>1, <2>2, QuietStep
<1>13. ASSUME NEW s \in Session, txn_vacuum(s) \/ txn_checkpoint(s) PROVE IInv'
    BY <1>13, MaintenanceStep
<1> QED
    BY <1>1, <1>2, <1>3, <1>4, <1>5, <1>6, <1>7, <1>8, <1>9, <1>10, <1>11, <1>12, <1>13
    DEF Next

-----------------------------------------------------------------------------
(***************************************************************************)
(* The inductive invariant holds in every reachable state, whatever the     *)
(* number of sessions, rows, xids and savepoints.                           *)
(***************************************************************************)
THEOREM Invariance == Spec => []IInv
<1>1. Init => IInv
    BY InitIInv
<1>2. IInv /\ [Next]_vars => IInv'
    BY NextIInv
<1> QED
    BY <1>1, <1>2, PTL DEF Spec

(* begin_txn, retire_txn_family and register_snapshot keep the active set   *)
(* and the snapshot registry exactly those of the open transactions.        *)
THEOREM XidsOwned == Spec => []XidOwnership
<1>1. IInv => XidOwnership
    BY DEF IInv
<1> QED
    BY <1>1, Invariance, PTL

(* txn_rollback_to and txn_release never index past the write log, the lock *)
(* list or the stack of sub-xids.                                           *)
THEOREM MarksInRange == Spec => []SavepointMarks
<1>1. IInv => SavepointMarks
    BY DEF IInv
<1> QED
    BY <1>1, Invariance, PTL

-----------------------------------------------------------------------------
(***************************************************************************)
(* An aborted transaction, or a savepoint scope rolled back, leaves no row  *)
(* version behind, in memory or on disk, for every number of sessions and   *)
(* every depth of savepoints.                                               *)
(*                                                                         *)
(* What carries the induction: every version of an open transaction is in   *)
(* its write log, at a position above the mark of each savepoint whose      *)
(* sub-xid (or a later one) the version carries.  So the suffix ROLLBACK TO *)
(* undoes holds every version of the scopes it aborts, and the whole log    *)
(* holds every version ROLLBACK has to remove.                              *)
(***************************************************************************)

(* Sub-xids are handed out in order, after the transaction's own xid. *)
Scopes(t) ==
    /\ \A x \in t.owned_xids : t.xid < x
    /\ \A i \in DOMAIN t.sub_xids : t.sub_xids[i] \in t.owned_xids
    /\ \A i, j \in DOMAIN t.sub_xids : i < j => t.sub_xids[i] < t.sub_xids[j]

(* Every version of t in rws is logged, behind the marks of its scope. *)
Logged(t, rws) ==
    \A r \in DOMAIN rws : rws[r].xmin \in all_xids(t) =>
        \E i \in DOMAIN t.writes :
            /\ t.writes[i].new = r
            /\ \A k \in DOMAIN t.savepoints :
                i <= t.savepoints[k].writes_len => rws[r].xmin < t.sub_xids[k]

(* The xids t still writes under are not aborted. *)
Unaborted(t, ab) ==
    /\ t.xid \notin ab
    /\ \A i \in DOMAIN t.sub_xids : t.sub_xids[i] \notin ab

Undoable(t, rws, ab) == Scopes(t) /\ Logged(t, rws) /\ Unaborted(t, ab)

(* Versions carry xids handed out and not aborted; those on disk, moreover, *)
(* xids no longer active and below the counter a restart would resume from. *)
Clean(rws, d, act, n, ab) ==
    /\ \A r \in DOMAIN rws : rws[r].xmin < n /\ rws[r].xmin \notin ab
    /\ \A r \in DOMAIN d.rows : /\ d.rows[r].xmin < d.next_xid
                                /\ d.rows[r].xmin \notin ab /\ d.rows[r].xmin \notin act
    /\ d.next_xid <= n
    /\ \A x \in ab : x < n

AInv ==
    /\ Clean(rows, disk, active, next_xid, aborted)
    /\ \A s \in Session : txn[s].xid # 0 => Undoable(txn[s], rows, aborted)

-----------------------------------------------------------------------------
(* What the row-table operators do to xmin. *)

(* rws2 has only versions of rws, with their xmin. *)
Shrinks(rws, rws2) ==
    \A r \in DOMAIN rws2 : r \in DOMAIN rws /\ rws2[r].xmin = rws[r].xmin

(* Undo removes the versions the ops created under owns and keeps xmins. *)
LEMMA UndoXmin ==
    ASSUME NEW n \in Nat, NEW rws, RowTable(rws, n), NEW owns, NEW ops
    PROVE  /\ Shrinks(rws, undo_all(rws, owns, ops))
           /\ \A r \in DOMAIN undo_all(rws, owns, ops) :
                ~(rws[r].xmin \in owns /\ \E i \in DOMAIN ops : ops[i].new = r)
<1> DEFINE gone == {r \in DOMAIN rws : /\ rws[r].xmin \in owns
                                       /\ \E i \in DOMAIN ops : ops[i].new = r}
           val(r) == IF rws[r].xmax \in owns /\ \E i \in DOMAIN ops : ops[i].old = r
                     THEN [rws[r] EXCEPT !.xmax = ops[NewestStamp(ops, r)].prev]
                     ELSE rws[r]
<1>1. undo_all(rws, owns, ops) = [r \in DOMAIN rws \ gone |-> val(r)]
    BY DEF undo_all
<1>2. ASSUME NEW r \in DOMAIN rws PROVE val(r).xmin = rws[r].xmin
  <2>1. rws[r] \in RowVersion
    BY DEF RowTable
  <2> QED
    BY <2>1 DEF RowVersion
<1> HIDE DEF val
<1>3. DOMAIN undo_all(rws, owns, ops) = DOMAIN rws \ gone
    BY <1>1
<1>4. \A r \in DOMAIN rws \ gone : undo_all(rws, owns, ops)[r] = val(r)
    BY <1>1
<1> QED
    BY <1>2, <1>3, <1>4 DEF Shrinks

(* VACUUM removes versions and changes none. *)
LEMMA VacuumXmin ==
    ASSUME NEW rws, NEW act, NEW snaps, NEW writes
    PROVE  /\ Shrinks(rws, vacuum_table(rws, act, snaps))
           /\ Shrinks(rws, auto_vacuum(rws, writes, act, snaps))
    BY DEF Shrinks, vacuum_table, auto_vacuum

(* A write creates at most the version w.new, under xid. *)
LEMMA ApplyXmin ==
    ASSUME NEW n \in Nat, NEW rws, RowTable(rws, n),
           NEW w \in WriteOp, w.new \in {0, n}, NEW k, NEW xid
    PROVE  \A r \in DOMAIN Apply(rws, w, k, xid) :
            \/ r \in DOMAIN rws /\ Apply(rws, w, k, xid)[r].xmin = rws[r].xmin
            \/ r = w.new /\ r # 0 /\ Apply(rws, w, k, xid)[r].xmin = xid
<1> DEFINE D == DOMAIN rws \cup ({w.new} \ {0})
           val(r) == IF r = w.new THEN [key |-> k, xmin |-> xid, xmax |-> 0]
                     ELSE IF r = w.old THEN [rws[r] EXCEPT !.xmax = xid]
                     ELSE rws[r]
<1>1. Apply(rws, w, k, xid) = [r \in D |-> val(r)]
    BY DEF Apply
<1>2. ASSUME NEW r \in DOMAIN rws
      PROVE  rws[r] \in RowVersion /\ r # w.new
    BY DEF RowTable
<1>3. ASSUME NEW r \in DOMAIN rws
      PROVE  val(r).xmin = rws[r].xmin
    BY <1>2 DEF RowVersion
<1>4. val(w.new).xmin = xid
    OBVIOUS
<1> HIDE DEF val
<1>5. DOMAIN Apply(rws, w, k, xid) = D /\ \A r \in D : Apply(rws, w, k, xid)[r] = val(r)
    BY <1>1
<1> QED
    BY <1>3, <1>4, <1>5

(* Replay adds versions under the committing xid only, and keeps the        *)
(* counter above it.                                                        *)
LEMMA ReplayXmin ==
    ASSUME NEW d, DiskImage(d), NEW rws, NEW writes, NEW own \in Nat,
           NEW e, e = apply_record(d, rws, writes, own)
    PROVE  /\ \A r \in DOMAIN e.rows :
                \/ r \in DOMAIN d.rows /\ e.rows[r].xmin = d.rows[r].xmin
                \/ e.rows[r].xmin = own /\ own < e.next_xid
           /\ e.next_xid >= d.next_xid
           /\ e.next_xid = d.next_xid \/ e.next_xid = own + 1
<1> DEFINE logged  == records_for_commit(rws, writes, own)
           created == {writes[i].new : i \in logged} \ {0}
           stamped == {writes[i].old : i \in {j \in logged : Replayable(d, writes, logged, j)}}
           named   == created \cup {writes[i].old : i \in {j \in logged : writes[j].op = "update"}}
           base(r) == IF r \in DOMAIN d.rows THEN d.rows[r]
                      ELSE [key |-> rws[r].key, xmin |-> own, xmax |-> 0]
           val(r) == IF r \in stamped THEN [base(r) EXCEPT !.xmax = own] ELSE base(r)
           nx == IF logged = {} THEN d.next_xid ELSE Above(d.next_xid, {own})
<1>1. e = [rows |-> [r \in DOMAIN d.rows \cup created |-> val(r)],
           next_xid |-> nx,
           next_row_id |-> Above(d.next_row_id, named)]
    BY DEF apply_record, ResumeXid
<1>2. d.next_xid \in Nat /\ \A r \in DOMAIN d.rows : d.rows[r] \in RowVersion
    BY DEF DiskImage, RowTable
<1>3. ASSUME NEW r PROVE val(r).xmin = IF r \in DOMAIN d.rows THEN d.rows[r].xmin ELSE own
  <2>1. CASE r \in DOMAIN d.rows
    <3>1. base(r) = d.rows[r] /\ d.rows[r] \in RowVersion
      BY <1>2, <2>1
    <3> HIDE DEF base
    <3> QED
      BY <2>1, <3>1 DEF RowVersion
  <2>2. CASE r \notin DOMAIN d.rows
    <3>1. base(r) = [key |-> rws[r].key, xmin |-> own, xmax |-> 0]
      BY <2>2
    <3> HIDE DEF base
    <3> QED
      BY <2>2, <3>1
  <2> QED
    BY <2>1, <2>2
<1>4. Above(d.next_xid, {own}) = IF own >= d.next_xid THEN own + 1 ELSE d.next_xid
  <2>1. (CHOOSE x \in {own} : \A y \in {own} : y <= x) = own
    OBVIOUS
  <2> QED
    BY <2>1 DEF Above
<1>5. \A r \in created : logged # {}
    OBVIOUS
<1>6. \A r \in created : own < nx
    BY <1>2, <1>4, <1>5
<1>7. nx >= d.next_xid /\ (nx = d.next_xid \/ nx = own + 1)
    BY <1>2, <1>4
<1> HIDE DEF val, nx, created, logged, named
<1>8. /\ e.next_xid = nx
      /\ DOMAIN e.rows = DOMAIN d.rows \cup created
      /\ \A r \in DOMAIN e.rows : e.rows[r] = val(r)
    BY <1>1
<1> QED
    BY <1>3, <1>6, <1>7, <1>8

-----------------------------------------------------------------------------
(* One session's step. *)

(* The write log and the xids decide whether a transaction can be undone,   *)
(* the snapshot and the failed flag do not.                                 *)
LEMMA SameLog ==
    ASSUME NEW t, NEW u, NEW rws, NEW ab, Undoable(t, rws, ab),
           u.xid = t.xid, u.owned_xids = t.owned_xids, u.writes = t.writes,
           u.savepoints = t.savepoints, u.sub_xids = t.sub_xids
    PROVE  Undoable(u, rws, ab)
    BY DEF Undoable, Scopes, Logged, Unaborted, all_xids

(* A step of other xids Z: it may create versions under Z, remove any, and  *)
(* abort Z.                                                                 *)
LEMMA ForeignStep ==
    ASSUME NEW t, NEW rws, NEW ab, Undoable(t, rws, ab),
           NEW Z, \A x \in Z : x \notin all_xids(t),
           NEW rws2,
           \A r \in DOMAIN rws2 : \/ r \in DOMAIN rws /\ rws2[r].xmin = rws[r].xmin
                                  \/ rws2[r].xmin \in Z,
           NEW ab2, \A x \in ab2 : x \in ab \/ x \in Z
    PROVE  Undoable(t, rws2, ab2)
<1>1. Scopes(t) /\ Logged(t, rws) /\ Unaborted(t, ab)
    BY DEF Undoable
<1>2. t.xid \in all_xids(t) /\ \A i \in DOMAIN t.sub_xids : t.sub_xids[i] \in all_xids(t)
    BY <1>1 DEF Scopes, all_xids
<1>3. Unaborted(t, ab2)
    BY <1>1, <1>2 DEF Unaborted
<1>4. Logged(t, rws2)
  <2>1. SUFFICES ASSUME NEW r \in DOMAIN rws2, rws2[r].xmin \in all_xids(t)
                 PROVE  \E i \in DOMAIN t.writes :
                            /\ t.writes[i].new = r
                            /\ \A k \in DOMAIN t.savepoints :
                                i <= t.savepoints[k].writes_len => rws2[r].xmin < t.sub_xids[k]
    BY DEF Logged
  <2>2. r \in DOMAIN rws /\ rws2[r].xmin = rws[r].xmin
    BY <2>1
  <2> QED
    BY <1>1, <2>1, <2>2 DEF Logged
<1> QED
    BY <1>1, <1>3, <1>4 DEF Undoable

(* Two open transactions, or an open one and a fresh xid, share no xid. *)
LEMMA DisjointXids ==
    ASSUME IInv, NEW s \in Session, NEW u \in Session, u # s, txn[u].xid # 0,
           NEW x \in all_xids(txn[s]) \cup {next_xid}
    PROVE  x \notin all_xids(txn[u])
<1>1. Owned(active, snapshots, txn) /\ FieldTypes
    BY OwnedIsXidOwnership DEF IInv
<1>2. \A y \in all_xids(txn[u]) : y \in active
    BY <1>1 DEF Owned
<1>3. 0 \notin active /\ next_xid \notin active
    BY <1>1 DEF FieldTypes
<1>4. CASE txn[s].xid = 0
  <2>1. all_xids(txn[s]) = {0}
    BY <1>1, <1>4 DEF Owned, NoTxn, NewTxn, all_xids
  <2> QED
    BY <1>2, <1>3, <2>1
<1>5. CASE txn[s].xid # 0
    BY <1>1, <1>2, <1>3, <1>5 DEF Owned
<1> QED
    BY <1>4, <1>5

(* A step of session s keeps every other session's transaction undoable. *)
LEMMA UndoableStep ==
    ASSUME IInv, AInv, NEW s \in Session, NEW t,
           txn' = [txn EXCEPT ![s] = t],
           t.xid # 0 => Undoable(t, rows', aborted'),
           \A r \in DOMAIN rows' :
                \/ r \in DOMAIN rows /\ rows'[r].xmin = rows[r].xmin
                \/ rows'[r].xmin \in all_xids(txn[s]) \cup {next_xid},
           \A x \in aborted' : x \in aborted \/ x \in all_xids(txn[s]) \cup {next_xid}
    PROVE  \A u \in Session : txn'[u].xid # 0 => Undoable(txn'[u], rows', aborted')
<1> SUFFICES ASSUME NEW u \in Session, txn'[u].xid # 0
             PROVE  Undoable(txn'[u], rows', aborted')
    OBVIOUS
<1>1. txn \in [Session -> Txn]
    BY DEF IInv, FieldTypes
<1>2. CASE u = s
    BY <1>1, <1>2
<1>3. CASE u # s
  <2>1. txn'[u] = txn[u]
    BY <1>1, <1>3
  <2>2. Undoable(txn[u], rows, aborted)
    BY <2>1 DEF AInv
  <2>3. \A x \in all_xids(txn[s]) \cup {next_xid} : x \notin all_xids(txn[u])
    BY <1>3, <2>1, DisjointXids
  <2> DEFINE Z == all_xids(txn[s]) \cup {next_xid}
  <2> HIDE DEF Z
  <2>4. \A x \in Z : x \notin all_xids(txn[u])
    BY <2>3 DEF Z
  <2>5. /\ \A r \in DOMAIN rows' : \/ r \in DOMAIN rows /\ rows'[r].xmin = rows[r].xmin
                                   \/ rows'[r].xmin \in Z
        /\ \A x \in aborted' : x \in aborted \/ x \in Z
    BY DEF Z
  <2> QED
    BY <2>1, <2>2, <2>4, <2>5, ForeignStep, ZenonT(40)
<1> QED
    BY <1>2, <1>3

(* An open transaction's xids are handed out, and so active. *)
LEMMA OpenXids ==
    ASSUME IInv, NEW s \in Session, txn[s].xid # 0
    PROVE  \A x \in all_xids(txn[s]) : x \in active /\ x \in Nat /\ x < next_xid
<1>1. Owned(active, snapshots, txn) /\ FieldTypes
    BY OwnedIsXidOwnership DEF IInv
<1>2. \A x \in all_xids(txn[s]) : x \in active
    BY <1>1 DEF Owned
<1>3. \A x \in active : x \in Nat /\ x < next_xid
    BY <1>1 DEF FieldTypes
<1> QED
    BY <1>2, <1>3

-----------------------------------------------------------------------------
(* The actions. *)

(* A step after which the versions in memory are among those before it, or  *)
(* new under x, keeps the tables clean when nothing left is aborted.        *)
LEMMA CleanStep ==
    ASSUME NEW rws, NEW d, NEW act, NEW n \in Nat, NEW ab, Clean(rws, d, act, n, ab),
           DiskImage(d), NEW m \in Nat, n <= m,
           NEW rws2,
           \A r \in DOMAIN rws2 : \/ r \in DOMAIN rws /\ rws2[r].xmin = rws[r].xmin
                                  \/ rws2[r].xmin < m /\ rws2[r].xmin \notin ab,
           \A r \in DOMAIN rws : rws[r].xmin \in Nat, \A x \in ab : x \in Nat,
           NEW act2, \A x \in act2 : x \in act \/ x >= n
    PROVE  Clean(rws2, d, act2, m, ab)
<1>1. \A r \in DOMAIN rws2 : rws2[r].xmin < m /\ rws2[r].xmin \notin ab
    BY DEF Clean
<1>2. d.next_xid \in Nat /\ \A r \in DOMAIN d.rows : d.rows[r].xmin \in Nat
    BY DEF DiskImage, RowTable, RowVersion
<1>3. \A r \in DOMAIN d.rows : d.rows[r].xmin \notin act2
    BY <1>2 DEF Clean
<1>4. d.next_xid <= m
    BY <1>2 DEF Clean
<1>5. ASSUME NEW x \in ab PROVE x < m
  <2>1. x < n
    BY DEF Clean
  <2> QED
    BY <2>1
<1> QED
    BY <1>1, <1>3, <1>4, <1>5 DEF Clean

(* The xmins and the counters are numbers. *)
LEMMA Numbers ==
    ASSUME FieldTypes
    PROVE  /\ \A r \in DOMAIN rows : rows[r].xmin \in Nat
           /\ \A r \in DOMAIN disk.rows : disk.rows[r].xmin \in Nat
           /\ disk.next_xid \in Nat /\ next_xid \in Nat /\ DiskImage(disk)
           /\ aborted \subseteq Nat
    BY DEF FieldTypes, DiskImage, RowTable, RowVersion

(* BEGIN: the fresh xid is on no version. *)
LEMMA BeginAInv ==
    ASSUME IInv, AInv, NEW s \in Session, NEW level, txn_begin(s, level)
    PROVE  AInv'
<1> DEFINE t == NewTxn(next_xid, level)
<1>1. /\ txn' = [txn EXCEPT ![s] = t] /\ next_xid' = next_xid + 1
      /\ active' = active \cup {next_xid} /\ UNCHANGED <<rows, disk, aborted>>
    BY DEF txn_begin
<1>2. Clean(rows, disk, active, next_xid, aborted) /\ FieldTypes
    BY DEF AInv, IInv
<1>3. Undoable(t, rows, aborted)
  <2>1. /\ t.xid = next_xid /\ t.owned_xids = {} /\ DOMAIN t.sub_xids = {}
        /\ all_xids(t) = {next_xid}
    BY DEF NewTxn, all_xids
  <2>2. \A r \in DOMAIN rows : rows[r].xmin # next_xid
    BY <1>2, Numbers DEF Clean
  <2>3. next_xid \notin aborted
    BY <1>2, Numbers DEF Clean
  <2> HIDE DEF t
  <2> QED
    BY <2>1, <2>2, <2>3 DEF Undoable, Scopes, Logged, Unaborted
<1> HIDE DEF t
<1>4. \A u \in Session : txn'[u].xid # 0 => Undoable(txn'[u], rows', aborted')
    BY <1>1, <1>3, UndoableStep
<1>5. Clean(rows', disk', active', next_xid', aborted')
  <2>1. next_xid' \in Nat /\ next_xid <= next_xid' /\ \A x \in active' : x \in active \/ x >= next_xid
    BY <1>1, <1>2, Numbers
  <2> QED
    BY <1>1, <1>2, <2>1, Numbers, CleanStep
<1> QED
    BY <1>4, <1>5 DEF AInv

(* SELECT, a failing statement, FOR UPDATE, RELEASE: the log stays. *)
LEMMA LogKeptAInv ==
    ASSUME IInv, AInv, NEW s \in Session, NEW t, txn' = [txn EXCEPT ![s] = t],
           txn[s].xid # 0, Undoable(t, rows, aborted),
           UNCHANGED <<next_xid, active, rows, disk, aborted>>
    PROVE  AInv'
<1>1. \A u \in Session : txn'[u].xid # 0 => Undoable(txn'[u], rows', aborted')
    BY UndoableStep
<1> QED
    BY <1>1 DEF AInv

(* SELECT, a failing statement and FOR UPDATE only pin the snapshot. *)
LEMMA PinAInv ==
    ASSUME IInv, AInv, NEW s \in Session, NEW r,
           exec_select(s) \/ StmtError(s) \/ acquire_row_locks(s, r)
    PROVE  AInv'
<1>1. FieldTypes /\ txn[s] \in Txn /\ txn[s].xid # 0
    BY DEF IInv, FieldTypes, exec_select, StmtError, acquire_row_locks, Running, Open
<1> DEFINE p == Pinned(txn[s])
           f == [p EXCEPT !.failed = TRUE]
<1>2. p \in Txn
    BY <1>1, PinnedType
<1>3. PICK t \in {p, f} : txn' = [txn EXCEPT ![s] = t]
    BY DEF exec_select, StmtError, acquire_row_locks
<1>4. /\ p.xid = txn[s].xid /\ p.owned_xids = txn[s].owned_xids
      /\ p.savepoints = txn[s].savepoints /\ p.sub_xids = txn[s].sub_xids
      /\ p.writes = txn[s].writes
    BY <1>1, PinnedFields
<1>5. /\ t.xid = txn[s].xid /\ t.owned_xids = txn[s].owned_xids
      /\ t.savepoints = txn[s].savepoints /\ t.sub_xids = txn[s].sub_xids
      /\ t.writes = txn[s].writes
  <2> HIDE DEF p
  <2> QED
    BY <1>2, <1>3, <1>4 DEF Txn
<1>6. UNCHANGED <<next_xid, active, rows, disk, aborted>>
    BY DEF exec_select, StmtError, acquire_row_locks
<1>7. Undoable(t, rows, aborted)
  <2>1. Undoable(txn[s], rows, aborted)
    BY <1>1 DEF AInv
  <2> QED
    BY <1>5, <2>1, SameLog
<1> HIDE DEF p, f
<1> QED
    BY <1>1, <1>3, <1>6, <1>7, LogKeptAInv
(* A write: its op lies above every mark, and the new version carries the   *)
(* innermost scope's xid.                                                   *)
LEMMA WriteUndoable ==
    ASSUME NEW t \in Txn, NEW u, NEW n, MarksAt(t, n), NEW rws, NEW ab, Undoable(t, rws, ab),
           NEW w \in WriteOp, u.writes = Append(t.writes, w),
           u.xid = t.xid, u.owned_xids = t.owned_xids,
           u.savepoints = t.savepoints, u.sub_xids = t.sub_xids,
           NEW rws2,
           \A r \in DOMAIN rws2 : \/ r \in DOMAIN rws /\ rws2[r].xmin = rws[r].xmin
                                  \/ r = w.new
    PROVE  Undoable(u, rws2, ab)
<1>1. Scopes(t) /\ Logged(t, rws) /\ Unaborted(t, ab)
    BY DEF Undoable
<1>2. Scopes(u) /\ Unaborted(u, ab)
    BY <1>1 DEF Scopes, Unaborted
<1>3. t.writes \in Seq(WriteOp) /\ t.savepoints \in Seq(SavepointMark)
    BY DEF Txn
<1>4. /\ Len(t.writes) \in Nat /\ DOMAIN t.writes = 1..Len(t.writes)
      /\ Len(u.writes) = Len(t.writes) + 1
      /\ DOMAIN u.writes = 1..Len(t.writes) + 1
      /\ \A i \in 1..Len(t.writes) : u.writes[i] = t.writes[i]
      /\ u.writes[Len(t.writes) + 1] = w
    BY <1>3, AppendProperties, LenProperties
<1>5. \A k \in DOMAIN t.savepoints :
        t.savepoints[k].writes_len \in Nat /\ t.savepoints[k].writes_len <= Len(t.writes)
  <2>1. \A k \in DOMAIN t.savepoints : t.savepoints[k] \in SavepointMark
    BY <1>3, ElementOfSeq, LenProperties
  <2> QED
    BY <2>1 DEF MarksAt, SavepointMark
<1>6. all_xids(u) = all_xids(t)
    BY DEF all_xids
<1>7. Logged(u, rws2)
  <2>1. SUFFICES ASSUME NEW r \in DOMAIN rws2, rws2[r].xmin \in all_xids(t)
                 PROVE  \E i \in DOMAIN u.writes :
                            /\ u.writes[i].new = r
                            /\ \A k \in DOMAIN t.savepoints :
                                i <= t.savepoints[k].writes_len => rws2[r].xmin < t.sub_xids[k]
    BY <1>6 DEF Logged
  <2>2. CASE r = w.new
    <3>1. Len(t.writes) + 1 \in DOMAIN u.writes
      BY <1>4
    <3>2. \A k \in DOMAIN t.savepoints : ~(Len(t.writes) + 1 <= t.savepoints[k].writes_len)
      BY <1>4, <1>5
    <3> QED
      BY <1>4, <2>2, <3>1, <3>2
  <2>3. CASE r \in DOMAIN rws /\ rws2[r].xmin = rws[r].xmin
    <3>1. PICK i \in DOMAIN t.writes :
            /\ t.writes[i].new = r
            /\ \A k \in DOMAIN t.savepoints :
                i <= t.savepoints[k].writes_len => rws[r].xmin < t.sub_xids[k]
      BY <1>1, <2>1, <2>3 DEF Logged
    <3>2. i \in DOMAIN u.writes /\ u.writes[i] = t.writes[i]
      BY <1>4
    <3> QED
      BY <2>3, <3>1, <3>2
  <2> QED
    BY <2>2, <2>3
<1> QED
    BY <1>2, <1>7 DEF Undoable

(* write_xid is the transaction's own xid or its innermost sub-xid. *)
LEMMA WriteXid ==
    ASSUME NEW t \in Txn, NEW rws, NEW ab, Undoable(t, rws, ab)
    PROVE  write_xid(t) \in all_xids(t) /\ write_xid(t) \notin ab
<1>1. Scopes(t) /\ Unaborted(t, ab) /\ t.sub_xids \in Seq(Nat)
    BY DEF Undoable, Txn
<1>2. CASE t.sub_xids = <<>>
    BY <1>1, <1>2 DEF write_xid, all_xids, Unaborted
<1>3. CASE t.sub_xids # <<>>
  <2>1. Len(t.sub_xids) \in DOMAIN t.sub_xids
    BY <1>1, <1>3, EmptySeq, LenProperties
  <2> QED
    BY <1>1, <1>3, <2>1 DEF write_xid, all_xids, Scopes, Unaborted
<1> QED
    BY <1>2, <1>3

(* INSERT, UPDATE and DELETE inside a block. *)
LEMMA WriteAInv ==
    ASSUME IInv, AInv, NEW s \in Session, Open(s), NEW k,
           NEW w \in WriteOp, w.new \in {0, next_row_id}, Write(s, w, k)
    PROVE  AInv'
<1> DEFINE p == Pinned(txn[s])
           u == [p EXCEPT !.writes = Append(@, w)]
           x == write_xid(txn[s])
<1>1. /\ FieldTypes /\ txn[s] \in Txn /\ txn[s].xid # 0 /\ Undoable(txn[s], rows, aborted)
      /\ Clean(rows, disk, active, next_xid, aborted)
      /\ RowTable(rows, next_row_id) /\ next_row_id \in Nat
    BY DEF IInv, FieldTypes, AInv, Open
<1>2. /\ p \in Txn
      /\ p.xid = txn[s].xid /\ p.owned_xids = txn[s].owned_xids
      /\ p.savepoints = txn[s].savepoints /\ p.sub_xids = txn[s].sub_xids
      /\ p.writes = txn[s].writes
    BY <1>1, PinnedType, PinnedFields
<1>3. /\ txn' = [txn EXCEPT ![s] = u]
      /\ rows' = Apply(rows, w, k, x)
      /\ UNCHANGED <<next_xid, active, disk, aborted>>
    BY DEF Write
<1>4. /\ u.xid = txn[s].xid /\ u.owned_xids = txn[s].owned_xids
      /\ u.savepoints = txn[s].savepoints /\ u.sub_xids = txn[s].sub_xids
      /\ u.writes = Append(txn[s].writes, w)
  <2> HIDE DEF p
  <2> QED
    BY <1>2 DEF Txn
<1>5. x \in all_xids(txn[s]) /\ x \notin aborted
    BY <1>1, WriteXid
<1>6. x \in Nat /\ x < next_xid
    BY <1>1, <1>5, OpenXids
<1> HIDE DEF p, u, x
<1>7. \A r \in DOMAIN rows' :
        \/ r \in DOMAIN rows /\ rows'[r].xmin = rows[r].xmin
        \/ r = w.new /\ rows'[r].xmin = x
    BY <1>1, <1>3, ApplyXmin
<1>8. MarksAt(txn[s], Len(LocksIn(lock_order, txn[s].xid)))
    BY <1>1, MarkedIsSavepointMarks DEF IInv, Marked
<1>9. Undoable(u, rows', aborted')
  <2>1. \A r \in DOMAIN rows' : \/ r \in DOMAIN rows /\ rows'[r].xmin = rows[r].xmin
                                \/ r = w.new
    BY <1>7
  <2>2. Undoable(u, rows', aborted)
    BY <1>1, <1>4, <1>8, <2>1, WriteUndoable, ZenonT(40)
  <2> QED
    BY <1>3, <2>2
<1>10. \A v \in Session : txn'[v].xid # 0 => Undoable(txn'[v], rows', aborted')
  <2>1. \A r \in DOMAIN rows' :
          \/ r \in DOMAIN rows /\ rows'[r].xmin = rows[r].xmin
          \/ rows'[r].xmin \in all_xids(txn[s]) \cup {next_xid}
    BY <1>5, <1>7
  <2>2. \A y \in aborted' : y \in aborted \/ y \in all_xids(txn[s]) \cup {next_xid}
    BY <1>3
  <2> QED
    BY <1>3, <1>9, <2>1, <2>2, UndoableStep
<1>11. Clean(rows', disk', active', next_xid', aborted')
  <2>1. \A r \in DOMAIN rows' :
          \/ r \in DOMAIN rows /\ rows'[r].xmin = rows[r].xmin
          \/ rows'[r].xmin < next_xid /\ rows'[r].xmin \notin aborted
    BY <1>5, <1>6, <1>7
  <2>2. next_xid \in Nat /\ next_xid <= next_xid /\ \A y \in active : y \in active \/ y >= next_xid
    BY <1>1, Numbers
  <2>3. Clean(rows', disk, active, next_xid, aborted)
    BY <1>1, <2>1, <2>2, Numbers, CleanStep
  <2> QED
    BY <1>3, <2>3
<1> QED
    BY <1>10, <1>11 DEF AInv
(* INSERT, DELETE and UPDATE inside a block log what they write. *)
LEMMA DmlAInv ==
    ASSUME IInv, AInv, NEW s \in Session, NEW k, NEW r,
           \/ exec_insert(s, k)
           \/ r \in DOMAIN rows /\ (exec_delete(s, r) \/ exec_update(s, r, k))
    PROVE  AInv'
<1>1. FieldTypes /\ Open(s)
    BY DEF IInv, exec_insert, exec_delete, exec_update, Running
<1>2. CASE exec_insert(s, k)
    BY <1>1, <1>2, OpTypes, WriteAInv DEF exec_insert
<1>3. CASE r \in DOMAIN rows /\ exec_delete(s, r)
    BY <1>1, <1>3, OpTypes, WriteAInv DEF exec_delete
<1>4. CASE r \in DOMAIN rows /\ exec_update(s, r, k)
    BY <1>1, <1>4, OpTypes, WriteAInv DEF exec_update
<1> QED
    BY <1>2, <1>3, <1>4

(* SAVEPOINT: the new scope's xid is above everything written so far. *)
LEMMA PushUndoable ==
    ASSUME NEW t \in Txn, NEW u, NEW n, MarksAt(t, n), NEW rws, NEW ab, Undoable(t, rws, ab),
           NEW x \in Nat, x \notin ab, \A y \in all_xids(t) : y < x,
           \A r \in DOMAIN rws : rws[r].xmin < x,
           NEW m, u.savepoints = Append(t.savepoints, m), m \in SavepointMark,
           u.sub_xids = Append(t.sub_xids, x), u.owned_xids = t.owned_xids \cup {x},
           u.xid = t.xid, u.writes = t.writes
    PROVE  Undoable(u, rws, ab)
<1> DEFINE l == Len(t.savepoints)
<1>1. Scopes(t) /\ Logged(t, rws) /\ Unaborted(t, ab)
    BY DEF Undoable
<1>2. t.savepoints \in Seq(SavepointMark) /\ t.sub_xids \in Seq(Nat)
    BY DEF Txn
<1>3. /\ l \in Nat /\ DOMAIN t.savepoints = 1..l /\ DOMAIN t.sub_xids = 1..l
      /\ Len(t.sub_xids) = l
    BY <1>2, LenProperties DEF MarksAt
<1>4. /\ DOMAIN u.savepoints = 1..l + 1
      /\ \A k \in 1..l : u.savepoints[k] = t.savepoints[k]
    BY <1>2, <1>3, AppendProperties, LenProperties
<1>5. /\ DOMAIN u.sub_xids = 1..l + 1
      /\ \A k \in 1..l : u.sub_xids[k] = t.sub_xids[k]
      /\ u.sub_xids[l + 1] = x
    BY <1>2, <1>3, AppendProperties, LenProperties
<1> HIDE DEF l
<1>6. \A k \in 1..l + 1 : k \in 1..l \/ k = l + 1
    BY <1>3
<1>7. Scopes(u)
  <2>1. \A y \in u.owned_xids : u.xid < y
    BY <1>1 DEF Scopes, all_xids
  <2>2. \A i \in DOMAIN u.sub_xids : u.sub_xids[i] \in u.owned_xids
    BY <1>1, <1>3, <1>5, <1>6 DEF Scopes
  <2>3. ASSUME NEW i \in DOMAIN u.sub_xids, NEW j \in DOMAIN u.sub_xids, i < j
        PROVE  u.sub_xids[i] < u.sub_xids[j]
    <3>1. i \in 1..l
      BY <1>3, <1>5, <2>3
    <3>2. CASE j \in 1..l
      BY <1>1, <1>3, <1>5, <2>3, <3>1, <3>2 DEF Scopes
    <3>3. CASE j = l + 1
      BY <1>1, <1>3, <1>5, <3>1, <3>3 DEF Scopes, all_xids
    <3> QED
      BY <1>5, <1>6, <3>2, <3>3
  <2> QED
    BY <2>1, <2>2, <2>3 DEF Scopes
<1>8. Unaborted(u, ab)
    BY <1>1, <1>3, <1>5, <1>6 DEF Unaborted
<1>9. Logged(u, rws)
  <2>1. SUFFICES ASSUME NEW r \in DOMAIN rws, rws[r].xmin \in all_xids(u)
                 PROVE  \E i \in DOMAIN t.writes :
                            /\ t.writes[i].new = r
                            /\ \A k \in DOMAIN u.savepoints :
                                i <= u.savepoints[k].writes_len => rws[r].xmin < u.sub_xids[k]
    BY DEF Logged
  <2>2. rws[r].xmin < x /\ rws[r].xmin # x
    <3>1. rws[r].xmin < x
      OBVIOUS
    <3>2. ~(x < x)
      OBVIOUS
    <3> QED
      BY <3>1, <3>2
  <2>3. rws[r].xmin \in all_xids(t)
    BY <2>1, <2>2 DEF all_xids
  <2>4. PICK i \in DOMAIN t.writes :
          /\ t.writes[i].new = r
          /\ \A k \in DOMAIN t.savepoints :
              i <= t.savepoints[k].writes_len => rws[r].xmin < t.sub_xids[k]
    BY <1>1, <2>3 DEF Logged
  <2>5. \A k \in DOMAIN u.savepoints :
          i <= u.savepoints[k].writes_len => rws[r].xmin < u.sub_xids[k]
    BY <1>3, <1>4, <1>5, <1>6, <2>2, <2>4
  <2> QED
    BY <2>4, <2>5
<1> QED
    BY <1>7, <1>8, <1>9 DEF Undoable

(* SAVEPOINT. *)
LEMMA SavepointAInv ==
    ASSUME IInv, AInv, NEW s \in Session, txn_savepoint(s)
    PROVE  AInv'
<1> DEFINE t == txn[s]
           n == Len(LocksIn(lock_order, t.xid))
           m == [writes_len |-> Len(t.writes), lock_count |-> n]
           u == [t EXCEPT !.savepoints = Append(t.savepoints, m),
                          !.sub_xids = Append(t.sub_xids, next_xid),
                          !.owned_xids = t.owned_xids \cup {next_xid}]
<1>1. /\ FieldTypes /\ t \in Txn /\ t.xid # 0 /\ Undoable(t, rows, aborted)
      /\ Clean(rows, disk, active, next_xid, aborted)
    BY DEF IInv, FieldTypes, AInv, txn_savepoint, Running, Open
<1>2. txn' = [txn EXCEPT ![s] = u]
    BY DEF txn_savepoint, Locks, LocksIn
<1>3. /\ next_xid' = next_xid + 1 /\ active' = active \cup {next_xid}
      /\ UNCHANGED <<rows, disk, aborted>>
    BY DEF txn_savepoint
<1>4. /\ u.xid = t.xid /\ u.writes = t.writes
      /\ u.owned_xids = t.owned_xids \cup {next_xid}
      /\ u.savepoints = Append(t.savepoints, m)
      /\ u.sub_xids = Append(t.sub_xids, next_xid)
  <2> HIDE DEF t, m
  <2> QED
    BY <1>1 DEF Txn
<1>5. m \in SavepointMark /\ MarksAt(t, n)
  <2>1. n \in Nat
    BY <1>1, LocksLen DEF FieldTypes
  <2>2. Len(t.writes) \in Nat
    BY <1>1, LenProperties DEF Txn
  <2>3. MarksAt(t, n)
    BY <1>1, MarkedIsSavepointMarks DEF IInv, Marked
  <2> HIDE DEF n
  <2> QED
    BY <2>1, <2>2, <2>3 DEF SavepointMark
<1>6. next_xid \notin aborted /\ next_xid \in Nat /\ \A r \in DOMAIN rows : rows[r].xmin < next_xid
    BY <1>1, Numbers DEF Clean
<1>7. \A y \in all_xids(t) : y < next_xid
    BY <1>1, OpenXids
<1> HIDE DEF u, m, n
<1>8. Undoable(u, rows, aborted)
    BY <1>1, <1>4, <1>5, <1>6, <1>7, PushUndoable
<1>9. \A v \in Session : txn'[v].xid # 0 => Undoable(txn'[v], rows', aborted')
    BY <1>2, <1>3, <1>8, UndoableStep
<1>10. Clean(rows', disk', active', next_xid', aborted')
  <2>1. next_xid' \in Nat /\ next_xid <= next_xid' /\ \A x \in active' : x \in active \/ x >= next_xid
    BY <1>1, <1>3, Numbers
  <2> QED
    BY <1>1, <1>3, <2>1, Numbers, CleanStep
<1> QED
    BY <1>9, <1>10 DEF AInv
(* The kept prefix of a sequence, position by position. *)
LEMMA TruncateDomain ==
    ASSUME NEW S, NEW q \in Seq(S), NEW n \in 0..Len(q)
    PROVE  /\ DOMAIN Truncate(q, n) = 1..n
           /\ \A i \in 1..n : Truncate(q, n)[i] = q[i]
<1>1. Truncate(q, n) \in Seq(S) /\ Len(Truncate(q, n)) = n
    BY TruncateSeq
<1>2. \A i \in 1..n : Truncate(q, n)[i] = q[i]
    BY TruncateSeq
<1> QED
    BY <1>1, <1>2, LenProperties

(* A sequence extended by one element, position by position. *)
LEMMA AppendDomain ==
    ASSUME NEW S, NEW q \in Seq(S), NEW x \in S
    PROVE  /\ Len(q) \in Nat /\ DOMAIN Append(q, x) = 1..Len(q) + 1
           /\ Append(q, x)[Len(q) + 1] = x
           /\ \A i \in 1..Len(q) : Append(q, x)[i] = q[i]
    BY AppendProperties, LenProperties

(* The stack of sub-xids after ROLLBACK TO: its top is replaced by x. *)
Restarted(q, idx, x) == Append(Truncate(q, idx - 1), x)

(* It keeps the scopes below. *)
LEMMA RestartedScope ==
    ASSUME NEW q \in Seq(Nat), NEW idx \in 1..Len(q), NEW x \in Nat
    PROVE  /\ DOMAIN Restarted(q, idx, x) = 1..idx
           /\ Restarted(q, idx, x)[idx] = x
           /\ \A i \in 1..idx - 1 : Restarted(q, idx, x)[i] = q[i]
<1> DEFINE c == idx - 1
           h == Truncate(q, c)
<1>1. Len(q) \in Nat
    BY LenProperties
<1>2. c \in 0..Len(q) /\ c + 1 = idx
    BY <1>1
<1> HIDE DEF c
<1>3. h \in Seq(Nat) /\ Len(h) = c /\ \A i \in 1..c : h[i] = q[i]
    BY <1>2, TruncateSeq
<1> HIDE DEF h
<1>4. /\ DOMAIN Append(h, x) = 1..Len(h) + 1 /\ Append(h, x)[Len(h) + 1] = x
      /\ \A i \in 1..Len(h) : Append(h, x)[i] = h[i]
    BY <1>3, AppendDomain
<1>5. /\ DOMAIN Append(h, x) = 1..idx /\ Append(h, x)[idx] = x
      /\ \A i \in 1..c : Append(h, x)[i] = q[i]
    BY <1>2, <1>3, <1>4
<1> QED
    BY <1>5 DEF h, c, Restarted

(* RELEASE: fewer marks to lie above, the same log. *)
LEMMA PopUndoable ==
    ASSUME NEW t \in Txn, NEW u, NEW n, MarksAt(t, n), NEW rws, NEW ab, Undoable(t, rws, ab),
           NEW c \in 0..Len(t.savepoints),
           u.savepoints = Truncate(t.savepoints, c), u.sub_xids = Truncate(t.sub_xids, c),
           u.xid = t.xid, u.owned_xids = t.owned_xids, u.writes = t.writes
    PROVE  Undoable(u, rws, ab)
<1>1. Scopes(t) /\ Logged(t, rws) /\ Unaborted(t, ab)
    BY DEF Undoable
<1>2. t.savepoints \in Seq(SavepointMark) /\ t.sub_xids \in Seq(Nat)
    BY DEF Txn
<1>3. /\ Len(t.savepoints) \in Nat /\ DOMAIN t.savepoints = 1..Len(t.savepoints)
      /\ DOMAIN t.sub_xids = 1..Len(t.savepoints) /\ c \in 0..Len(t.sub_xids)
    BY <1>2, LenProperties DEF MarksAt
<1>4. /\ DOMAIN u.savepoints = 1..c /\ \A k \in 1..c : u.savepoints[k] = t.savepoints[k]
      /\ DOMAIN u.sub_xids = 1..c /\ \A k \in 1..c : u.sub_xids[k] = t.sub_xids[k]
  <2>1. /\ DOMAIN Truncate(t.savepoints, c) = 1..c
        /\ \A k \in 1..c : Truncate(t.savepoints, c)[k] = t.savepoints[k]
    BY <1>2, TruncateDomain
  <2>2. /\ DOMAIN Truncate(t.sub_xids, c) = 1..c
        /\ \A k \in 1..c : Truncate(t.sub_xids, c)[k] = t.sub_xids[k]
    BY <1>2, <1>3, TruncateDomain
  <2> QED
    BY <2>1, <2>2
<1>5. 1..c \subseteq DOMAIN t.savepoints /\ 1..c \subseteq DOMAIN t.sub_xids
    BY <1>3
<1>6. Scopes(u)
    BY <1>1, <1>4, <1>5 DEF Scopes
<1>7. Unaborted(u, ab)
    BY <1>1, <1>4, <1>5 DEF Unaborted
<1>8. Logged(u, rws)
  <2>1. SUFFICES ASSUME NEW r \in DOMAIN rws, rws[r].xmin \in all_xids(t)
                 PROVE  \E i \in DOMAIN t.writes :
                            /\ t.writes[i].new = r
                            /\ \A k \in DOMAIN u.savepoints :
                                i <= u.savepoints[k].writes_len => rws[r].xmin < u.sub_xids[k]
    BY DEF Logged, all_xids
  <2>2. PICK i \in DOMAIN t.writes :
          /\ t.writes[i].new = r
          /\ \A k \in DOMAIN t.savepoints :
              i <= t.savepoints[k].writes_len => rws[r].xmin < t.sub_xids[k]
    BY <1>1, <2>1 DEF Logged
  <2> QED
    BY <1>4, <1>5, <2>2
<1> QED
    BY <1>6, <1>7, <1>8 DEF Undoable

(* RELEASE SAVEPOINT. *)
LEMMA ReleaseAInv ==
    ASSUME IInv, AInv, NEW s \in Session, NEW idx, txn_release(s, idx)
    PROVE  AInv'
<1> DEFINE t == txn[s]
           c == idx - 1
           u == [t EXCEPT !.savepoints = Truncate(t.savepoints, c),
                          !.sub_xids = Truncate(t.sub_xids, c)]
<1>1. /\ FieldTypes /\ t \in Txn /\ t.xid # 0 /\ Undoable(t, rows, aborted)
      /\ idx \in DOMAIN t.savepoints
      /\ UNCHANGED <<next_xid, active, rows, disk, aborted>>
    BY DEF IInv, FieldTypes, AInv, txn_release, Running, Open, engine
<1>2. txn' = [txn EXCEPT ![s] = u]
    BY <1>1 DEF txn_release, Txn
<1>3. MarksAt(t, Len(LocksIn(lock_order, t.xid)))
    BY <1>1, MarkedIsSavepointMarks DEF IInv, Marked
<1>4. c \in 0..Len(t.savepoints)
  <2>1. t.savepoints \in Seq(SavepointMark)
    BY <1>1 DEF Txn
  <2> QED
    BY <1>1, <2>1, LenProperties
<1> HIDE DEF c
<1>5. /\ u.xid = t.xid /\ u.writes = t.writes /\ u.owned_xids = t.owned_xids
      /\ u.savepoints = Truncate(t.savepoints, c)
      /\ u.sub_xids = Truncate(t.sub_xids, c)
  <2> HIDE DEF t
  <2> QED
    BY <1>1 DEF Txn
<1> HIDE DEF u
<1>6. Undoable(u, rows, aborted)
    BY <1>1, <1>3, <1>4, <1>5, PopUndoable
<1> QED
    BY <1>1, <1>2, <1>6, LogKeptAInv

(* ROLLBACK TO: a version of the transaction that survives was logged below *)
(* the mark, so it carries an xid below the scope's, and that xid stays     *)
(* unaborted.                                                               *)
LEMMA CutUndoable ==
    ASSUME NEW t \in Txn, NEW u, NEW n, MarksAt(t, n), NEW rws, NEW ab, Undoable(t, rws, ab),
           NEW idx \in DOMAIN t.savepoints,
           NEW x \in Nat, x \notin ab, \A y \in all_xids(t) : y \in Nat /\ y < x,
           \A r \in DOMAIN rws : rws[r].xmin \in Nat /\ rws[r].xmin < x,
           u.writes = Truncate(t.writes, t.savepoints[idx].writes_len),
           u.savepoints = Truncate(t.savepoints, idx),
           u.sub_xids = Restarted(t.sub_xids, idx, x),
           \A y : y \in u.owned_xids <=> y \in t.owned_xids \/ y = x, u.xid = t.xid,
           NEW rws2, Shrinks(rws, rws2),
           \A r \in DOMAIN rws2 : ~(/\ rws[r].xmin \in all_xids(t)
                                    /\ \E i \in DOMAIN UndoneOps(t, idx) :
                                            UndoneOps(t, idx)[i].new = r),
           NEW ab2,
           \A y \in ab2 : y \in ab \/ (y \in t.owned_xids /\ y >= t.sub_xids[idx])
    PROVE  /\ Undoable(u, rws2, ab2)
           /\ \A r \in DOMAIN rws2 : rws2[r].xmin \in all_xids(t) => rws2[r].xmin < t.sub_xids[idx]
<1> DEFINE l == Len(t.savepoints)
           b == t.savepoints[idx].writes_len
           c == idx - 1
           y0 == t.sub_xids[idx]
<1>1. Scopes(t) /\ Logged(t, rws) /\ Unaborted(t, ab)
    BY DEF Undoable
<1>2. /\ t.savepoints \in Seq(SavepointMark) /\ t.sub_xids \in Seq(Nat)
      /\ t.writes \in Seq(WriteOp)
    BY DEF Txn
<1>3. /\ l \in Nat /\ DOMAIN t.savepoints = 1..l /\ DOMAIN t.sub_xids = 1..l
      /\ Len(t.sub_xids) = l /\ idx \in 1..l
      /\ Len(t.writes) \in Nat /\ DOMAIN t.writes = 1..Len(t.writes)
    BY <1>2, LenProperties DEF MarksAt
<1>4. b \in 0..Len(t.writes)
  <2>1. t.savepoints[idx] \in SavepointMark
    BY <1>2, <1>3, ElementOfSeq
  <2>2. b \in Nat /\ b <= Len(t.writes)
    BY <2>1 DEF SavepointMark, MarksAt
  <2> HIDE DEF b
  <2> QED
    BY <1>3, <2>2
<1>5. y0 \in Nat /\ y0 \in t.owned_xids
    BY <1>1, <1>2, <1>3, ElementOfSeq DEF Scopes
<1>6. c \in 0..l /\ idx \in 0..l /\ idx = c + 1 /\ c \in Nat
    BY <1>3
<1>7. /\ DOMAIN u.savepoints = 1..idx /\ \A k \in 1..idx : u.savepoints[k] = t.savepoints[k]
      /\ DOMAIN u.writes = 1..b /\ \A i \in 1..b : u.writes[i] = t.writes[i]
  <2> HIDE DEF b
  <2>1. u.writes = Truncate(t.writes, b)
    BY DEF b
  <2>2. /\ DOMAIN Truncate(t.writes, b) = 1..b
        /\ \A i \in 1..b : Truncate(t.writes, b)[i] = t.writes[i]
    BY <1>2, <1>4, TruncateDomain
  <2>3. /\ DOMAIN Truncate(t.savepoints, idx) = 1..idx
        /\ \A k \in 1..idx : Truncate(t.savepoints, idx)[k] = t.savepoints[k]
    BY <1>2, <1>6, TruncateDomain
  <2> QED
    BY <2>1, <2>2, <2>3
<1> HIDE DEF l, b, c, y0
<1>8. /\ DOMAIN u.sub_xids = 1..idx
      /\ \A k \in 1..c : u.sub_xids[k] = t.sub_xids[k]
      /\ u.sub_xids[idx] = x
  <2>1. idx \in 1..Len(t.sub_xids) /\ c = idx - 1
    BY <1>3 DEF c
  <2>2. DOMAIN u.sub_xids = 1..idx /\ u.sub_xids[idx] = x
    BY <1>2, <2>1, RestartedScope
  <2>3. \A i \in 1..idx - 1 : u.sub_xids[i] = t.sub_xids[i]
    BY <1>2, <2>1, RestartedScope
  <2> QED
    BY <2>1, <2>2, <2>3
<1>9. \A k \in 1..idx : k \in 1..l /\ (k \in 1..c \/ k = idx)
    BY <1>3, <1>6
<1>10. \A k \in 1..c : k \in 1..l /\ t.sub_xids[k] < y0 /\ t.sub_xids[k] \in Nat /\ t.sub_xids[k] < x
  <2>1. \A k \in 1..c : k \in 1..l /\ k < idx
    BY <1>3, <1>6
  <2>2. \A k \in 1..c : t.sub_xids[k] < y0
    BY <1>1, <1>3, <2>1 DEF Scopes, y0
  <2>3. \A k \in 1..c : t.sub_xids[k] \in all_xids(t)
    BY <1>1, <1>3, <2>1 DEF Scopes, all_xids
  <2> QED
    BY <2>1, <2>2, <2>3
<1>11. Scopes(u)
  <2>1. \A y \in u.owned_xids : u.xid < y
    BY <1>1 DEF Scopes, all_xids
  <2>2. \A i \in DOMAIN u.sub_xids : u.sub_xids[i] \in u.owned_xids
    BY <1>1, <1>3, <1>8, <1>9 DEF Scopes
  <2>3. ASSUME NEW i \in DOMAIN u.sub_xids, NEW j \in DOMAIN u.sub_xids, i < j
        PROVE  u.sub_xids[i] < u.sub_xids[j]
    <3>1. i \in 1..c
      BY <1>6, <1>8, <2>3
    <3>2. CASE j \in 1..c
      BY <1>1, <1>3, <1>8, <1>10, <2>3, <3>1, <3>2 DEF Scopes
    <3>3. CASE j = idx
      BY <1>8, <1>10, <3>1, <3>3
    <3> QED
      BY <1>8, <1>9, <3>2, <3>3
  <2> QED
    BY <2>1, <2>2, <2>3 DEF Scopes
<1>12. Unaborted(u, ab2)
  <2>1. u.xid \notin ab2
    <3>1. t.xid \in Nat /\ ~(t.xid < t.xid)
      BY DEF Txn
    <3>2. t.xid \notin t.owned_xids
      BY <1>1, <3>1 DEF Scopes
    <3> QED
      BY <1>1, <3>2 DEF Unaborted
  <2>2. \A k \in 1..c : u.sub_xids[k] \notin ab2
    <3>1. SUFFICES ASSUME NEW k \in 1..c PROVE t.sub_xids[k] \notin ab2
      BY <1>8
    <3>2. t.sub_xids[k] \notin ab
      BY <1>1, <1>3, <1>10 DEF Unaborted
    <3>3. ~(t.sub_xids[k] >= y0)
      BY <1>5, <1>10
    <3> QED
      BY <3>2, <3>3 DEF y0
  <2>3. x \notin ab2
    BY DEF all_xids
  <2> QED
    BY <1>8, <1>9, <2>1, <2>2, <2>3 DEF Unaborted
<1>13. ASSUME NEW r \in DOMAIN rws2, rws2[r].xmin \in all_xids(t)
       PROVE  \E i \in 1..b :
                /\ t.writes[i].new = r
                /\ rws2[r].xmin < y0
                /\ \A k \in DOMAIN t.savepoints :
                    i <= t.savepoints[k].writes_len => rws2[r].xmin < t.sub_xids[k]
  <2>1. r \in DOMAIN rws /\ rws2[r].xmin = rws[r].xmin
    BY DEF Shrinks
  <2>2. PICK i \in DOMAIN t.writes :
          /\ t.writes[i].new = r
          /\ \A k \in DOMAIN t.savepoints :
              i <= t.savepoints[k].writes_len => rws[r].xmin < t.sub_xids[k]
    BY <1>1, <1>13, <2>1 DEF Logged
  <2>3. i \in 1..b
    <3>1. SUFFICES ASSUME ~(i <= b) PROVE FALSE
      BY <1>3, <1>4, <2>2
    <3> DEFINE o == UndoneOps(t, idx)
    <3>2. o = SubSeq(t.writes, b + 1, Len(t.writes))
      BY DEF UndoneOps, b
    <3>3. \A j \in b + 1 .. Len(t.writes) : t.writes[j] \in WriteOp
      BY <1>2, <1>3, <1>4, ElementOfSeq
    <3>4. /\ o \in Seq(WriteOp) /\ Len(o) = Len(t.writes) - b
          /\ \A j \in 1 .. Len(t.writes) - b : o[j] = t.writes[b + j]
      <4> HIDE DEF o
      <4>1. b + 1 \in Int /\ Len(t.writes) \in Int /\ b + 1 \in 1 .. Len(t.writes) + 1
        BY <1>3, <1>4
      <4> QED
        BY <1>3, <1>4, <3>2, <3>3, <4>1, SubSeqProperties
    <3> HIDE DEF o
    <3>5. DOMAIN o = 1 .. Len(t.writes) - b
      BY <3>4, LenProperties
    <3>6. i - b \in DOMAIN o /\ b + (i - b) = i
      BY <1>3, <1>4, <2>2, <3>1, <3>5, SMTT(20)
    <3>7. o[i - b].new = r
      BY <2>2, <3>4, <3>5, <3>6
    <3> QED
      BY <1>13, <2>1, <3>6, <3>7 DEF o
  <2>4. rws[r].xmin < y0
    <3>1. idx \in DOMAIN t.savepoints /\ i <= t.savepoints[idx].writes_len
      BY <1>4, <2>3 DEF b
    <3> QED
      BY <2>2, <3>1 DEF y0
  <2> QED
    BY <2>1, <2>2, <2>3, <2>4
<1>14. Logged(u, rws2)
  <2>1. SUFFICES ASSUME NEW r \in DOMAIN rws2, rws2[r].xmin \in all_xids(u)
                 PROVE  \E i \in DOMAIN u.writes :
                            /\ u.writes[i].new = r
                            /\ \A k \in DOMAIN u.savepoints :
                                i <= u.savepoints[k].writes_len => rws2[r].xmin < u.sub_xids[k]
    BY DEF Logged
  <2>2. rws2[r].xmin \in Nat /\ rws2[r].xmin < x
    BY DEF Shrinks
  <2>3. rws2[r].xmin \in all_xids(t)
    BY <2>1, <2>2 DEF all_xids
  <2>4. PICK i \in 1..b :
          /\ t.writes[i].new = r
          /\ \A k \in DOMAIN t.savepoints :
              i <= t.savepoints[k].writes_len => rws2[r].xmin < t.sub_xids[k]
    BY <1>13, <2>3
  <2>5. ASSUME NEW k \in DOMAIN u.savepoints, i <= u.savepoints[k].writes_len
        PROVE  rws2[r].xmin < u.sub_xids[k]
    <3>1. CASE k \in 1..c
      BY <1>3, <1>7, <1>8, <1>9, <2>4, <2>5, <3>1
    <3>2. CASE k = idx
      BY <1>8, <2>2, <3>2
    <3> QED
      BY <1>7, <1>9, <3>1, <3>2
  <2> QED
    BY <1>7, <2>4, <2>5
<1> QED
    BY <1>11, <1>12, <1>13, <1>14 DEF Undoable, y0
(* A step that aborts running or fresh xids keeps the tables clean when no  *)
(* version left in memory carries one of them.                              *)
LEMMA CleanAbort ==
    ASSUME NEW rws, NEW d, NEW act, NEW n \in Nat, NEW ab, Clean(rws, d, act, n, ab),
           DiskImage(d), NEW m \in Nat, n <= m,
           \A x \in act : x \in Nat /\ x < n, \A x \in ab : x \in Nat,
           NEW ab2, \A x \in ab2 : x \in ab \/ x \in act \/ (x = n /\ n < m),
           NEW rws2, \A r \in DOMAIN rws2 : rws2[r].xmin < m /\ rws2[r].xmin \notin ab2,
           NEW act2, \A x \in act2 : x \in act \/ x = n
    PROVE  Clean(rws2, d, act2, m, ab2)
<1>1. d.next_xid \in Nat /\ \A r \in DOMAIN d.rows : d.rows[r].xmin \in Nat
    BY DEF DiskImage, RowTable, RowVersion
<1>2. ASSUME NEW r \in DOMAIN d.rows
      PROVE  /\ d.rows[r].xmin < d.next_xid
             /\ d.rows[r].xmin \notin ab2 /\ d.rows[r].xmin \notin act2
  <2>1. /\ d.rows[r].xmin < d.next_xid /\ d.next_xid <= n
        /\ d.rows[r].xmin \notin ab /\ d.rows[r].xmin \notin act
    BY DEF Clean
  <2>2. d.rows[r].xmin # n
    BY <1>1, <2>1
  <2> QED
    BY <2>1, <2>2
<1>3. d.next_xid <= m
    BY <1>1 DEF Clean
<1>4. ASSUME NEW x \in ab2 PROVE x < m
  <2>1. CASE x \in ab
    BY <2>1 DEF Clean
  <2>2. CASE x \in act
    BY <2>2
  <2> QED
    BY <2>1, <2>2
<1> QED
    BY <1>2, <1>3, <1>4 DEF Clean

(* ROLLBACK TO SAVEPOINT. *)
LEMMA RollbackToAInv ==
    ASSUME IInv, AInv, NEW s \in Session, NEW idx, txn_rollback_to(s, idx)
    PROVE  AInv'
<1> DEFINE t == txn[s]
           n == Len(LocksIn(lock_order, t.xid))
           ops == UndoneOps(t, idx)
           u == [t EXCEPT !.writes = Truncate(t.writes, t.savepoints[idx].writes_len),
                          !.savepoints = Truncate(t.savepoints, idx),
                          !.sub_xids = Restarted(t.sub_xids, idx, next_xid),
                          !.owned_xids = t.owned_xids \cup {next_xid},
                          !.failed = FALSE]
<1>1. /\ FieldTypes /\ t \in Txn /\ t.xid # 0 /\ Undoable(t, rows, aborted)
      /\ idx \in DOMAIN t.savepoints
      /\ Clean(rows, disk, active, next_xid, aborted)
    BY DEF IInv, FieldTypes, AInv, txn_rollback_to, Open
<1>2. /\ txn' = [txn EXCEPT ![s] = u]
      /\ next_xid' = next_xid + 1 /\ active' = active \cup {next_xid}
      /\ rows' = undo_all(rows, all_xids(t), ops)
      /\ aborted' = aborted \cup {x \in t.owned_xids : x >= t.sub_xids[idx]}
      /\ UNCHANGED disk
    BY DEF txn_rollback_to, Restarted
<1>3. /\ u.xid = t.xid
      /\ u.writes = Truncate(t.writes, t.savepoints[idx].writes_len)
      /\ u.owned_xids = t.owned_xids \cup {next_xid}
      /\ u.savepoints = Truncate(t.savepoints, idx)
      /\ u.sub_xids = Restarted(t.sub_xids, idx, next_xid)
  <2> HIDE DEF t
  <2> QED
    BY <1>1 DEF Txn
<1>4. MarksAt(t, n)
    BY <1>1, MarkedIsSavepointMarks DEF IInv, Marked
<1> HIDE DEF u, n, t
<1>5. /\ next_xid \in Nat /\ next_xid \notin aborted
      /\ \A r \in DOMAIN rows : rows[r].xmin \in Nat /\ rows[r].xmin < next_xid
    BY <1>1, Numbers DEF Clean
<1>6. \A y \in all_xids(t) : y \in active /\ y \in Nat /\ y < next_xid
    BY <1>1, OpenXids DEF t
<1>7. /\ Shrinks(rows, rows')
      /\ \A r \in DOMAIN rows' : ~(/\ rows[r].xmin \in all_xids(t)
                                   /\ \E i \in DOMAIN ops : ops[i].new = r)
    BY <1>1, <1>2, UndoXmin DEF FieldTypes
<1>8. /\ Undoable(u, rows', aborted')
      /\ \A r \in DOMAIN rows' : rows'[r].xmin \in all_xids(t) => rows'[r].xmin < t.sub_xids[idx]
  <2>1. /\ \A y \in all_xids(t) : y \in Nat /\ y < next_xid
        /\ \A y \in aborted' : y \in aborted \/ (y \in t.owned_xids /\ y >= t.sub_xids[idx])
        /\ \A y : y \in u.owned_xids <=> y \in t.owned_xids \/ y = next_xid
    BY <1>2, <1>3, <1>6
  <2> QED
    BY <1>1, <1>3, <1>4, <1>5, <1>7, <2>1, CutUndoable
<1>9. \A v \in Session : txn'[v].xid # 0 => Undoable(txn'[v], rows', aborted')
  <2>1. \A x \in aborted' : x \in aborted \/ x \in all_xids(txn[s]) \cup {next_xid}
    BY <1>2 DEF all_xids, t
  <2> QED
    BY <1>2, <1>7, <1>8, <2>1, UndoableStep DEF Shrinks
<1>10. Clean(rows', disk', active', next_xid', aborted')
  <2>1. /\ next_xid' \in Nat /\ next_xid <= next_xid'
        /\ \A x \in active' : x \in active \/ x = next_xid
    BY <1>2, <1>5
  <2>2. \A x \in active : x \in Nat /\ x < next_xid
    BY <1>1 DEF FieldTypes
  <2>3. \A x \in aborted' : x \in aborted \/ x \in active \/ (x = next_xid /\ next_xid < next_xid')
    BY <1>2, <1>6 DEF all_xids
  <2>4. ASSUME NEW r \in DOMAIN rows'
        PROVE  rows'[r].xmin < next_xid' /\ rows'[r].xmin \notin aborted'
    <3>1. /\ rows'[r].xmin \in Nat /\ rows'[r].xmin < next_xid
          /\ rows'[r].xmin \notin aborted
      BY <1>1, <1>5, <1>7 DEF Shrinks, Clean
    <3>2. t.sub_xids[idx] \in Nat
      <4>1. t.sub_xids \in Seq(Nat) /\ t.savepoints \in Seq(SavepointMark)
        BY <1>1 DEF Txn
      <4>2. idx \in 1..Len(t.sub_xids)
        BY <1>1, <1>4, <4>1, LenProperties DEF MarksAt
      <4> QED
        BY <4>1, <4>2, ElementOfSeq
    <3>3. rows'[r].xmin \notin {x \in t.owned_xids : x >= t.sub_xids[idx]}
      BY <1>8, <3>1, <3>2 DEF all_xids
    <3> QED
      BY <1>2, <1>5, <3>1, <3>3
  <2>5. Clean(rows', disk, active', next_xid', aborted')
    BY <1>1, <1>5, <2>1, <2>2, <2>3, <2>4, Numbers, CleanAbort
  <2> QED
    BY <1>2, <2>5
<1> QED
    BY <1>9, <1>10 DEF AInv

(* ROLLBACK, COMMIT of a failed transaction, disconnect: the whole log is   *)
(* undone, and it names every version of the transaction.                   *)
LEMMA RollbackAInv ==
    ASSUME IInv, AInv, NEW s \in Session, txn_rollback(s)
    PROVE  AInv'
<1> DEFINE t == txn[s]
           z == undo_all(rows, all_xids(t), t.writes)
<1>1. /\ FieldTypes /\ t \in Txn /\ t.xid # 0 /\ Undoable(t, rows, aborted)
      /\ Clean(rows, disk, active, next_xid, aborted)
    BY DEF IInv, FieldTypes, AInv, txn_rollback, Open
<1>2. /\ txn' = [txn EXCEPT ![s] = NoTxn]
      /\ active' = active \ all_xids(t)
      /\ rows' = auto_vacuum(z, t.writes, active', snapshots')
      /\ aborted' = aborted \cup all_xids(t)
      /\ UNCHANGED <<next_xid, disk>>
    BY DEF txn_rollback, retire_txn_family, retired_xids
<1> HIDE DEF t
<1>3. /\ Shrinks(rows, z)
      /\ \A r \in DOMAIN z : ~(/\ rows[r].xmin \in all_xids(t)
                               /\ \E i \in DOMAIN t.writes : t.writes[i].new = r)
    BY <1>1, UndoXmin DEF FieldTypes
<1> HIDE DEF z
<1>4. Shrinks(z, rows')
    BY <1>2, VacuumXmin
<1>5. Logged(t, rows)
    BY <1>1 DEF Undoable
<1>6. ASSUME NEW r \in DOMAIN rows'
      PROVE  /\ r \in DOMAIN rows /\ rows'[r].xmin = rows[r].xmin
             /\ rows'[r].xmin \notin all_xids(t)
  <2>1. r \in DOMAIN rows /\ r \in DOMAIN z /\ rows'[r].xmin = rows[r].xmin
    BY <1>3, <1>4 DEF Shrinks
  <2> QED
    BY <1>3, <1>5, <2>1 DEF Logged
<1>7. \A v \in Session : txn'[v].xid # 0 => Undoable(txn'[v], rows', aborted')
  <2>1. NoTxn.xid = 0
    BY DEF NoTxn, NewTxn
  <2>2. \A x \in aborted' : x \in aborted \/ x \in all_xids(txn[s]) \cup {next_xid}
    BY <1>2 DEF t
  <2> QED
    BY <1>2, <1>6, <2>1, <2>2, UndoableStep
<1>8. Clean(rows', disk', active', next_xid', aborted')
  <2>1. \A x \in all_xids(t) : x \in active
    BY <1>1, OpenXids DEF t
  <2>2. \A x \in active : x \in Nat /\ x < next_xid
    BY <1>1 DEF FieldTypes
  <2>3. /\ \A x \in aborted' : x \in aborted \/ x \in active \/ (x = next_xid /\ next_xid < next_xid)
        /\ \A x \in active' : x \in active \/ x = next_xid
    BY <1>2, <2>1
  <2>4. next_xid \in Nat /\ next_xid <= next_xid
    BY <1>1, Numbers
  <2>5. \A r \in DOMAIN rows' : rows'[r].xmin < next_xid /\ rows'[r].xmin \notin aborted'
    BY <1>1, <1>2, <1>6 DEF Clean
  <2>6. Clean(rows', disk, active', next_xid, aborted')
    BY <1>1, <2>2, <2>3, <2>4, <2>5, Numbers, CleanAbort
  <2> QED
    BY <1>2, <2>6
<1> QED
    BY <1>7, <1>8 DEF AInv
(* Replay of a commit frame of xid own keeps the disk clean. *)
LEMMA CleanReplay ==
    ASSUME NEW d, DiskImage(d), NEW rws, NEW writes, NEW own \in Nat,
           NEW e, e = apply_record(d, rws, writes, own), DiskImage(e),
           NEW r0, NEW act, NEW n \in Nat, NEW ab, Clean(r0, d, act, n, ab),
           NEW m \in Nat, n <= m, own < m, own \notin ab,
           NEW act2, \A x \in act2 : x \in act, own \notin act2,
           \A x \in ab : x \in Nat,
           NEW rws2, \A r \in DOMAIN rws2 : rws2[r].xmin < m /\ rws2[r].xmin \notin ab
    PROVE  Clean(rws2, e, act2, m, ab)
<1>1. /\ d.next_xid \in Nat /\ e.next_xid \in Nat
      /\ \A r \in DOMAIN d.rows : d.rows[r].xmin \in Nat
    BY DEF DiskImage, RowTable, RowVersion
<1>2. /\ \A r \in DOMAIN e.rows :
            \/ r \in DOMAIN d.rows /\ e.rows[r].xmin = d.rows[r].xmin
            \/ e.rows[r].xmin = own /\ own < e.next_xid
      /\ e.next_xid >= d.next_xid
      /\ e.next_xid = d.next_xid \/ e.next_xid = own + 1
    BY ReplayXmin
<1>3. d.next_xid <= n /\ \A x \in ab : x < n
    BY DEF Clean
<1>4. \A r \in DOMAIN d.rows : /\ d.rows[r].xmin < d.next_xid
                               /\ d.rows[r].xmin \notin ab /\ d.rows[r].xmin \notin act
    BY DEF Clean
<1>5. ASSUME NEW r \in DOMAIN e.rows
      PROVE  /\ e.rows[r].xmin < e.next_xid
             /\ e.rows[r].xmin \notin ab /\ e.rows[r].xmin \notin act2
  <2>1. CASE r \in DOMAIN d.rows /\ e.rows[r].xmin = d.rows[r].xmin
    BY <1>1, <1>2, <1>4, <2>1
  <2>2. CASE e.rows[r].xmin = own /\ own < e.next_xid
    BY <2>2
  <2> QED
    BY <1>2, <2>1, <2>2
<1>6. e.next_xid <= m
    BY <1>1, <1>2, <1>3
<1>7. \A x \in ab : x < m
    BY <1>3
<1> QED
    BY <1>5, <1>6, <1>7 DEF Clean

(* COMMIT: the versions stay, under xids that are not aborted. *)
LEMMA CommitAInv ==
    ASSUME IInv, AInv, NEW s \in Session, commit_taken_txn(s)
    PROVE  AInv'
<1> DEFINE t == txn[s]
<1>1. /\ FieldTypes /\ t \in Txn /\ t.xid # 0 /\ Undoable(t, rows, aborted)
      /\ Clean(rows, disk, active, next_xid, aborted)
    BY DEF IInv, FieldTypes, AInv, commit_taken_txn, Running, Open
<1>2. /\ txn' = [txn EXCEPT ![s] = NoTxn]
      /\ active' = active \ all_xids(t)
      /\ rows' = auto_vacuum(rows, t.writes, active', snapshots')
      /\ disk' = apply_record(disk, rows, t.writes, t.xid)
      /\ UNCHANGED <<next_xid, aborted>>
    BY DEF commit_taken_txn, retire_txn_family, retired_xids
<1> HIDE DEF t
<1>3. Shrinks(rows, rows')
    BY <1>2, VacuumXmin
<1>4. \A v \in Session : txn'[v].xid # 0 => Undoable(txn'[v], rows', aborted')
  <2>1. NoTxn.xid = 0
    BY DEF NoTxn, NewTxn
  <2> QED
    BY <1>2, <1>3, <2>1, UndoableStep DEF Shrinks
<1>5. Clean(rows', disk', active', next_xid', aborted')
  <2>1. t.xid \in all_xids(t) /\ t.xid \notin aborted
    BY <1>1 DEF Undoable, Unaborted, all_xids
  <2>2. t.xid \in Nat /\ t.xid < next_xid
    BY <1>1, <2>1, OpenXids DEF t
  <2>3. /\ DiskImage(disk) /\ next_xid \in Nat /\ next_xid <= next_xid
        /\ \A x \in aborted : x \in Nat
    BY <1>1, Numbers
  <2>4. DiskImage(disk')
    <3>1. t.writes \in Seq(WriteOp)
      BY <1>1 DEF Txn
    <3> QED
      BY <1>1, <1>2, <2>2, <3>1, ApplyRecordType DEF FieldTypes
  <2>5. \A r \in DOMAIN rows' : rows'[r].xmin < next_xid /\ rows'[r].xmin \notin aborted
    BY <1>1, <1>3 DEF Shrinks, Clean
  <2>6. (\A x \in active' : x \in active) /\ t.xid \notin active'
    BY <1>2, <2>1
  <2>7. Clean(rows', disk', active', next_xid, aborted)
    <3>1. disk' = apply_record(disk, rows, t.writes, t.xid)
      BY <1>2
    <3>2. Clean(rows, disk, active, next_xid, aborted)
      BY <1>1
    <3>3. t.xid \notin aborted
      BY <2>1
    <3> QED
      BY <2>2, <2>3, <2>4, <2>5, <2>6, <3>1, <3>2, <3>3, CleanReplay
  <2> QED
    BY <1>2, <2>7
<1> QED
    BY <1>4, <1>5 DEF AInv

(* A step that opens and ends no transaction block keeps every open one     *)
(* undoable: it writes and aborts under the fresh xid only.                 *)
LEMMA QuietUndoable ==
    ASSUME IInv, AInv, NEW s \in Session, UNCHANGED txn,
           \A r \in DOMAIN rows' :
                \/ r \in DOMAIN rows /\ rows'[r].xmin = rows[r].xmin
                \/ rows'[r].xmin = next_xid,
           \A x \in aborted' : x \in aborted \/ x = next_xid
    PROVE  \A u \in Session : txn'[u].xid # 0 => Undoable(txn'[u], rows', aborted')
<1> SUFFICES ASSUME NEW u \in Session, txn'[u].xid # 0
             PROVE  Undoable(txn'[u], rows', aborted')
    OBVIOUS
<1>1. txn'[u] = txn[u] /\ Undoable(txn[u], rows, aborted)
    BY DEF AInv
<1>2. next_xid \notin all_xids(txn[u])
  <2>1. next_xid \in Nat /\ ~(next_xid < next_xid)
    BY DEF IInv, FieldTypes
  <2> QED
    BY <1>1, <2>1, OpenXids
<1> DEFINE Z == {next_xid}
<1>3. /\ \A x \in Z : x \notin all_xids(txn[u])
      /\ \A r \in DOMAIN rows' : \/ r \in DOMAIN rows /\ rows'[r].xmin = rows[r].xmin
                                 \/ rows'[r].xmin \in Z
      /\ \A x \in aborted' : x \in aborted \/ x \in Z
    BY <1>2
<1> HIDE DEF Z
<1> QED
    BY <1>1, <1>3, ForeignStep

(* Statements outside a block, acknowledged or undone. *)
LEMMA AutocommitAInv ==
    ASSUME IInv, AInv, NEW s \in Session, NEW k \in Key,
           NEW w \in WriteOp, w.new \in {0, next_row_id}, autocommit_execute(s, w, k)
    PROVE  AInv'
<1> DEFINE rws == Apply(rows, w, k, next_xid)
           n == IF w.new = 0 THEN next_row_id ELSE next_row_id + 1
           z == undo_all(rws, {next_xid}, <<w>>)
<1>1. /\ FieldTypes /\ RowTable(rows, next_row_id) /\ next_row_id \in Nat
      /\ Clean(rows, disk, active, next_xid, aborted)
    BY DEF IInv, FieldTypes, AInv
<1>2. /\ next_xid \in Nat /\ DiskImage(disk) /\ \A x \in aborted : x \in Nat
      /\ \A r \in DOMAIN rows : rows[r].xmin \in Nat
    BY <1>1, Numbers
<1>3. next_xid \notin aborted /\ \A r \in DOMAIN rows : /\ rows[r].xmin < next_xid
                                                       /\ rows[r].xmin \notin aborted
                                                       /\ rows[r].xmin # next_xid
    BY <1>1, <1>2 DEF Clean
<1>4. \A x \in active : x \in Nat /\ x < next_xid
    BY <1>1 DEF FieldTypes
<1>5. RowTable(rws, n) /\ n \in Nat
    BY <1>1, <1>2, ApplyType
<1>6. \A r \in DOMAIN rws :
        \/ r \in DOMAIN rows /\ rws[r].xmin = rows[r].xmin
        \/ r = w.new /\ rws[r].xmin = next_xid
    BY <1>1, ApplyXmin
<1>7. next_xid' = next_xid + 1 /\ UNCHANGED <<active, txn>>
    BY DEF autocommit_execute
<1>8. \/ /\ rows' = auto_vacuum(rws, <<w>>, active, snapshots)
         /\ disk' = apply_record(disk, rws, <<w>>, next_xid)
         /\ UNCHANGED aborted
      \/ /\ rows' = auto_vacuum(z, <<w>>, active, snapshots)
         /\ aborted' = aborted \cup {next_xid}
         /\ UNCHANGED disk
    BY DEF autocommit_execute
<1> HIDE DEF rws, n
<1>9. next_xid + 1 \in Nat /\ next_xid <= next_xid + 1 /\ next_xid < next_xid + 1
      /\ next_xid \notin active
    BY <1>2, <1>4
<1>10. CASE /\ rows' = auto_vacuum(rws, <<w>>, active, snapshots)
            /\ disk' = apply_record(disk, rws, <<w>>, next_xid)
            /\ UNCHANGED aborted
  <2> HIDE DEF z
  <2>1. Shrinks(rws, rows')
    BY <1>10, VacuumXmin
  <2>2. \A r \in DOMAIN rows' :
          \/ r \in DOMAIN rows /\ rows'[r].xmin = rows[r].xmin
          \/ rows'[r].xmin = next_xid
    BY <1>6, <2>1 DEF Shrinks
  <2>3. \A u \in Session : txn'[u].xid # 0 => Undoable(txn'[u], rows', aborted')
    BY <1>7, <1>10, <2>2, QuietUndoable
  <2>4. \A r \in DOMAIN rows' : rows'[r].xmin < next_xid + 1 /\ rows'[r].xmin \notin aborted
    BY <1>2, <1>3, <2>2
  <2>5. DiskImage(disk')
    <3>1. <<w>> \in Seq(WriteOp)
      OBVIOUS
    <3> QED
      BY <1>2, <1>5, <1>10, <3>1, ApplyRecordType
  <2>6. Clean(rows', disk', active, next_xid + 1, aborted)
    <3>1. disk' = apply_record(disk, rws, <<w>>, next_xid)
      BY <1>10
    <3>2. Clean(rows, disk, active, next_xid, aborted)
      BY <1>1
    <3>3. next_xid \notin aborted
      BY <1>3
    <3> QED
      BY <1>2, <1>9, <2>4, <2>5, <3>1, <3>2, <3>3, CleanReplay
  <2>7. Clean(rows', disk', active', next_xid', aborted')
    BY <1>7, <1>10, <2>6
  <2> QED
    BY <2>3, <2>7 DEF AInv
<1>11. CASE /\ rows' = auto_vacuum(z, <<w>>, active, snapshots)
            /\ aborted' = aborted \cup {next_xid}
            /\ UNCHANGED disk
  <2>1. /\ Shrinks(rws, z)
        /\ \A r \in DOMAIN z : ~(/\ rws[r].xmin \in {next_xid}
                                 /\ \E i \in DOMAIN <<w>> : <<w>>[i].new = r)
    BY <1>5, UndoXmin
  <2> HIDE DEF z
  <2>2. Shrinks(z, rows')
    BY <1>11, VacuumXmin
  <2>3. ASSUME NEW r \in DOMAIN rows'
        PROVE  r \in DOMAIN rows /\ rows'[r].xmin = rows[r].xmin
    <3>1. r \in DOMAIN rws /\ r \in DOMAIN z /\ rows'[r].xmin = rws[r].xmin
      BY <2>1, <2>2 DEF Shrinks
    <3>2. ~(r = w.new /\ rws[r].xmin = next_xid)
      <4>1. 1 \in DOMAIN <<w>> /\ <<w>>[1] = w
        OBVIOUS
      <4> QED
        BY <2>1, <3>1, <4>1
    <3> QED
      BY <1>6, <3>1, <3>2
  <2>4. \A u \in Session : txn'[u].xid # 0 => Undoable(txn'[u], rows', aborted')
    BY <1>7, <1>11, <2>3, QuietUndoable
  <2>5. \A r \in DOMAIN rows' : rows'[r].xmin < next_xid + 1 /\ rows'[r].xmin \notin aborted'
    BY <1>2, <1>3, <1>11, <2>3
  <2>6. /\ \A x \in aborted' : \/ x \in aborted \/ x \in active
                               \/ (x = next_xid /\ next_xid < next_xid + 1)
        /\ \A x \in active : x \in active \/ x = next_xid
    BY <1>9, <1>11
  <2>7. Clean(rows', disk, active, next_xid + 1, aborted')
    BY <1>1, <1>2, <1>4, <1>9, <2>5, <2>6, CleanAbort
  <2>8. Clean(rows', disk', active', next_xid', aborted')
    BY <1>7, <1>11, <2>7
  <2> QED
    BY <2>4, <2>8 DEF AInv
<1> QED
    BY <1>8, <1>10, <1>11
(* INSERT, DELETE and UPDATE outside a block. *)
LEMMA AutoAInv ==
    ASSUME IInv, AInv, NEW s \in Session, NEW k \in Key, NEW r,
           \/ auto_insert(s, k)
           \/ r \in DOMAIN rows /\ (auto_delete(s, r) \/ auto_update(s, r, k))
    PROVE  AInv'
<1>1. FieldTypes
    BY DEF IInv
<1>2. CASE auto_insert(s, k)
    BY <1>1, <1>2, OpTypes, AutocommitAInv DEF auto_insert
<1>3. CASE r \in DOMAIN rows /\ auto_delete(s, r)
    BY <1>1, <1>3, OpTypes, AutocommitAInv DEF auto_delete
<1>4. CASE r \in DOMAIN rows /\ auto_update(s, r, k)
    BY <1>1, <1>4, OpTypes, AutocommitAInv DEF auto_update
<1> QED
    BY <1>2, <1>3, <1>4

(* An autocommit statement that fails before it writes retires its xid. *)
LEMMA AutoErrorAInv ==
    ASSUME IInv, AInv, NEW s \in Session, auto_error(s)
    PROVE  AInv'
<1>1. FieldTypes /\ Clean(rows, disk, active, next_xid, aborted)
    BY DEF IInv, AInv
<1>2. /\ next_xid' = next_xid + 1 /\ aborted' = aborted \cup {next_xid}
      /\ UNCHANGED <<active, rows, txn, disk>>
    BY DEF auto_error
<1>3. /\ next_xid \in Nat /\ DiskImage(disk) /\ \A x \in aborted : x \in Nat
      /\ \A r \in DOMAIN rows : rows[r].xmin \in Nat
    BY <1>1, Numbers
<1>4. \A x \in active : x \in Nat /\ x < next_xid
    BY <1>1 DEF FieldTypes
<1>5. \A u \in Session : txn'[u].xid # 0 => Undoable(txn'[u], rows', aborted')
    BY <1>2, QuietUndoable
<1>6. /\ next_xid + 1 \in Nat /\ next_xid <= next_xid + 1
      /\ \A x \in aborted' : \/ x \in aborted \/ x \in active
                             \/ (x = next_xid /\ next_xid < next_xid + 1)
      /\ \A x \in active : x \in active \/ x = next_xid
    BY <1>2, <1>3
<1>7. \A r \in DOMAIN rows : rows[r].xmin < next_xid + 1 /\ rows[r].xmin \notin aborted'
  <2>1. \A r \in DOMAIN rows : rows[r].xmin < next_xid /\ rows[r].xmin \notin aborted
    BY <1>1 DEF Clean
  <2> QED
    BY <1>2, <1>3, <2>1
<1>8. Clean(rows, disk, active, next_xid + 1, aborted')
    BY <1>1, <1>3, <1>4, <1>6, <1>7, CleanAbort
<1>9. Clean(rows', disk', active', next_xid', aborted')
    BY <1>2, <1>8
<1> QED
    BY <1>5, <1>9 DEF AInv

(* VACUUM only removes versions; CHECKPOINT writes committed ones only. *)
LEMMA MaintenanceAInv ==
    ASSUME IInv, AInv, NEW s \in Session, txn_vacuum(s) \/ txn_checkpoint(s)
    PROVE  AInv'
<1>1. FieldTypes /\ Clean(rows, disk, active, next_xid, aborted)
    BY DEF IInv, AInv
<1>2. UNCHANGED <<next_xid, active, txn, aborted>>
    BY DEF txn_vacuum, txn_checkpoint, engine
<1>3. Shrinks(rows, rows')
  <2>1. CASE txn_vacuum(s)
    BY <2>1, VacuumXmin DEF txn_vacuum
  <2>2. CASE txn_checkpoint(s)
    BY <2>2 DEF txn_checkpoint, engine, Shrinks
  <2> QED
    BY <2>1, <2>2
<1>4. \A u \in Session : txn'[u].xid # 0 => Undoable(txn'[u], rows', aborted')
    BY <1>2, <1>3, QuietUndoable DEF Shrinks
<1>5. \A r \in DOMAIN rows' : rows'[r].xmin < next_xid /\ rows'[r].xmin \notin aborted
    BY <1>1, <1>3 DEF Shrinks, Clean
<1>6. Clean(rows', disk', active, next_xid, aborted)
  <2>1. CASE txn_vacuum(s)
    <3>1. disk' = disk
      BY <2>1 DEF txn_vacuum
    <3> QED
      BY <1>1, <1>5, <3>1 DEF Clean
  <2>2. CASE txn_checkpoint(s)
    <3> DEFINE D == {q \in DOMAIN rows : xid_committed(rows[q].xmin)}
               val(r) == [rows[r] EXCEPT !.xmax = committed_xmax(rows[r].xmax)]
    <3>1. disk' = [rows |-> [r \in D |-> val(r)], next_xid |-> next_xid, next_row_id |-> next_row_id]
      BY <2>2 DEF txn_checkpoint, CheckpointImage
    <3>2. ASSUME NEW r \in DOMAIN rows PROVE val(r).xmin = rows[r].xmin
      <4>1. rows[r] \in RowVersion
        BY <1>1 DEF FieldTypes, RowTable
      <4> QED
        BY <4>1 DEF RowVersion
    <3>3. \A r \in D : r \in DOMAIN rows /\ rows[r].xmin < next_xid /\ rows[r].xmin \notin active
      BY DEF xid_committed, SeenCommitted, take_snapshot
    <3> HIDE DEF D, val
    <3>4. /\ disk'.next_xid = next_xid /\ DOMAIN disk'.rows = D
          /\ \A r \in D : disk'.rows[r] = val(r)
      BY <3>1
    <3>5. next_xid <= next_xid
      BY <1>1, Numbers
    <3>6. \A r \in DOMAIN disk'.rows : /\ disk'.rows[r].xmin < disk'.next_xid
                                       /\ disk'.rows[r].xmin \notin aborted
                                       /\ disk'.rows[r].xmin \notin active
      BY <1>1, <3>2, <3>3, <3>4 DEF Clean
    <3> QED
      BY <1>1, <1>5, <3>4, <3>5, <3>6 DEF Clean
  <2> QED
    BY <2>1, <2>2
<1> QED
    BY <1>2, <1>4, <1>6 DEF AInv

(* A restart loads the image, which holds no version of a running or        *)
(* aborted transaction.                                                     *)
LEMMA RestartAInv ==
    ASSUME IInv, AInv, Restart
    PROVE  AInv'
<1>1. FieldTypes /\ Clean(rows, disk, active, next_xid, aborted)
    BY DEF IInv, AInv
<1>2. /\ rows' = disk.rows /\ next_xid' = disk.next_xid /\ active' = {} /\ disk' = disk
      /\ aborted' = {x \in aborted \cup active : x < disk.next_xid}
      /\ txn' = [s \in Session |-> NoTxn]
    BY DEF Restart
<1>3. \A u \in Session : txn'[u].xid = 0
    BY <1>2 DEF NoTxn, NewTxn
<1>4. disk.next_xid <= disk.next_xid
    BY <1>1, Numbers
<1>5. \A r \in DOMAIN disk.rows : disk.rows[r].xmin < disk.next_xid /\ disk.rows[r].xmin \notin aborted'
    BY <1>1, <1>2 DEF Clean
<1>6. Clean(rows', disk', active', next_xid', aborted')
    BY <1>2, <1>4, <1>5 DEF Clean
<1> QED
    BY <1>3, <1>6 DEF AInv

(* The rows loaded by transaction 1. *)
LEMMA InitAInv ==
    ASSUME Init
    PROVE  AInv
<1>1. PICK f \in Loads : rows = [i \in DOMAIN f |-> [key |-> f[i], xmin |-> 1, xmax |-> 0]]
    BY DEF Init
<1>2. \A r \in DOMAIN rows : rows[r].xmin = 1
    BY <1>1
<1>3. /\ next_xid = 2 /\ disk.rows = rows /\ disk.next_xid = 2
      /\ active = {} /\ aborted = {} /\ txn = [s \in Session |-> NoTxn]
    BY DEF Init
<1>4. \A s \in Session : txn[s].xid = 0
    BY <1>3 DEF NoTxn, NewTxn
<1> QED
    BY <1>2, <1>3, <1>4 DEF AInv, Clean

(* Every step keeps the strengthened invariant. *)
LEMMA NextAInv ==
    ASSUME IInv, AInv, [Next]_vars
    PROVE  AInv'
<1>1. CASE UNCHANGED vars
    BY <1>1 DEF AInv, vars, engine
<1>2. CASE Restart
    BY <1>2, RestartAInv
<1>3. ASSUME NEW s \in Session, NEW level \in Level, txn_begin(s, level) PROVE AInv'
    BY <1>3, BeginAInv
<1>4. ASSUME NEW s \in Session, exec_select(s) \/ StmtError(s) \/ CommitFails(s) PROVE AInv'
    BY <1>4, PinAInv DEF CommitFails
<1>5. ASSUME NEW s \in Session, NEW r \in DOMAIN rows, acquire_row_locks(s, r) PROVE AInv'
    BY <1>5, PinAInv
<1>6. ASSUME NEW s \in Session, NEW r \in DOMAIN rows, exec_delete(s, r) \/ auto_delete(s, r)
      PROVE  AInv'
  <2>1. rows[r].key \in Key
    BY OpTypes DEF IInv
  <2> QED
    BY <1>6, <2>1, DmlAInv, AutoAInv
<1>7. ASSUME NEW s \in Session, NEW k \in Key, exec_insert(s, k) \/ auto_insert(s, k)
      PROVE  AInv'
    BY <1>7, DmlAInv, AutoAInv
<1>8. ASSUME NEW s \in Session, NEW r \in DOMAIN rows, NEW k \in Key,
             exec_update(s, r, k) \/ auto_update(s, r, k)
      PROVE  AInv'
    BY <1>8, DmlAInv, AutoAInv
<1>9. ASSUME NEW s \in Session, txn_savepoint(s) PROVE AInv'
    BY <1>9, SavepointAInv
<1>10. ASSUME NEW s \in Session, NEW idx, txn_rollback_to(s, idx) \/ txn_release(s, idx)
       PROVE  AInv'
    BY <1>10, RollbackToAInv, ReleaseAInv
<1>11. ASSUME NEW s \in Session, txn_rollback(s) \/ commit_taken_txn(s) PROVE AInv'
    BY <1>11, RollbackAInv, CommitAInv
<1>12. ASSUME NEW s \in Session, auto_error(s) PROVE AInv'
    BY <1>12, AutoErrorAInv
<1>13. ASSUME NEW s \in Session, txn_vacuum(s) \/ txn_checkpoint(s) PROVE AInv'
    BY <1>13, MaintenanceAInv
<1> QED
    BY <1>1, <1>2, <1>3, <1>4, <1>5, <1>6, <1>7, <1>8, <1>9, <1>10, <1>11, <1>12, <1>13
    DEF Next

-----------------------------------------------------------------------------
(* Whatever ROLLBACK, ROLLBACK TO, a failed autocommit statement or a crash *)
(* aborts leaves no row version in memory (undo_all) or on disk             *)
(* (records_for_commit, checkpoint): xid_committed, which takes every xid   *)
(* that is not active for committed, can make no aborted row visible.       *)
THEOREM NothingAbortedRemains == Spec => []AbortedLeaveNoVersion
<1>1. Init => AInv
    BY InitAInv
<1>2. IInv /\ AInv /\ [Next]_vars => AInv'
    BY NextAInv
<1>3. AInv => AbortedLeaveNoVersion
    BY DEF AInv, Clean, AbortedLeaveNoVersion
<1> QED
    BY <1>1, <1>2, <1>3, Invariance, PTL DEF Spec

-----------------------------------------------------------------------------
(* Row locks and what they are for.  The lock table and the lock lists       *)
(* agree, whatever the clients do.  When a block writes only rows it has    *)
(* locked or made itself, no version's xmax is ever overwritten, so that    *)
(* snapshots are stable, locked rows stay, and COMMIT, ROLLBACK and         *)
(* ROLLBACK TO do to the committed rows what they promise.                  *)
(*                                                                         *)
(* What carries the induction: a version stamped by an open transaction is  *)
(* its own or is locked by it, at a position of its lock list that no       *)
(* ROLLBACK TO that keeps the stamp gives up.                               *)

(* LockTable, with the lock list named after its session's top-level xid.   *)

LockInv(locks, order, tx) ==
    /\ \A r \in DOMAIN locks :
        /\ locks[r] \in DOMAIN order
        /\ \E i \in DOMAIN order[locks[r]] : order[locks[r]][i] = r
    /\ \A x \in DOMAIN order :
        /\ \E s \in Session : tx[s].xid # 0 /\ tx[s].xid = x
        /\ \A i \in DOMAIN order[x] :
            /\ order[x][i] \in DOMAIN locks
            /\ locks[order[x][i]] = x
            /\ \A j \in DOMAIN order[x] : order[x][i] = order[x][j] => i = j

(* A step that leaves the locks alone and every holder open. *)
LEMMA LocksKept ==
    ASSUME NEW locks, NEW order, NEW tx, LockInv(locks, order, tx), NEW ty,
           \A s \in Session : tx[s].xid # 0 => ty[s].xid = tx[s].xid
    PROVE  LockInv(locks, order, ty)
    BY DEF LockInv

(* FOR UPDATE: r, locked by nobody, goes to the end of x's list. *)
LEMMA LocksAcquired ==
    ASSUME NEW locks, NEW order, order \in [DOMAIN order -> Seq(Nat)],
           NEW tx, LockInv(locks, order, tx),
           NEW s \in Session, NEW x, tx[s].xid = x, x # 0,
           NEW r \in Nat, r \notin DOMAIN locks,
           NEW ty, \A u \in Session : ty[u].xid = tx[u].xid
    PROVE  LockInv(With(locks, r, x), With(order, x, Append(LocksIn(order, x), r)), ty)
<1> DEFINE l == LocksIn(order, x)
           m == Append(l, r)
           lk == With(locks, r, x)
           od == With(order, x, m)
<1>1. l \in Seq(Nat) /\ Len(l) \in Nat
    BY LocksLen
<1>2. /\ DOMAIN l = 1..Len(l) /\ DOMAIN m = 1..Len(l) + 1 /\ m[Len(l) + 1] = r
      /\ \A i \in 1..Len(l) : m[i] = l[i]
    BY <1>1, AppendDomain, LenProperties
<1>3. \A i \in DOMAIN l : /\ l[i] \in DOMAIN locks /\ locks[l[i]] = x
                          /\ \A j \in DOMAIN l : l[i] = l[j] => i = j
    BY EmptySeq DEF LockInv, LocksIn
<1>4. /\ DOMAIN lk = DOMAIN locks \cup {r} /\ lk[r] = x
      /\ \A q \in DOMAIN locks : lk[q] = locks[q]
    BY DEF With
<1>5. /\ DOMAIN od = DOMAIN order \cup {x} /\ od[x] = m
      /\ \A y \in DOMAIN order : y # x => od[y] = order[y]
    BY DEF With
<1>6. x \in DOMAIN order => order[x] = l
    BY DEF LocksIn
<1> HIDE DEF l, m, lk, od
<1>7. ASSUME NEW q \in DOMAIN lk
      PROVE  lk[q] \in DOMAIN od /\ \E i \in DOMAIN od[lk[q]] : od[lk[q]][i] = q
  <2>1. CASE q = r
    <3>1. Len(l) + 1 \in DOMAIN m
      BY <1>1, <1>2
    <3> QED
      BY <1>2, <1>4, <1>5, <2>1, <3>1
  <2>2. CASE q # r
    <3>1. q \in DOMAIN locks /\ lk[q] = locks[q]
      BY <1>4, <2>2
    <3>2. PICK i \in DOMAIN order[locks[q]] : locks[q] \in DOMAIN order /\ order[locks[q]][i] = q
      BY <3>1 DEF LockInv
    <3>3. CASE locks[q] = x
      <4>1. i \in 1..Len(l) /\ l[i] = q
        BY <1>2, <1>6, <3>2, <3>3
      <4>2. i \in DOMAIN m /\ m[i] = q
        BY <1>1, <1>2, <4>1
      <4> QED
        BY <1>5, <3>1, <3>3, <4>2
    <3>4. CASE locks[q] # x
      BY <1>5, <3>1, <3>2, <3>4
    <3> QED
      BY <3>3, <3>4
  <2> QED
    BY <2>1, <2>2
<1>8. ASSUME NEW y \in DOMAIN od
      PROVE  /\ \E u \in Session : ty[u].xid # 0 /\ ty[u].xid = y
             /\ \A i \in DOMAIN od[y] :
                    /\ od[y][i] \in DOMAIN lk /\ lk[od[y][i]] = y
                    /\ \A j \in DOMAIN od[y] : od[y][i] = od[y][j] => i = j
  <2>1. CASE y = x
    <3>1. ASSUME NEW i \in DOMAIN m
          PROVE  m[i] \in DOMAIN lk /\ lk[m[i]] = x
      <4>1. CASE i \in 1..Len(l)
        <5>1. m[i] = l[i] /\ l[i] \in DOMAIN locks /\ locks[l[i]] = x
          BY <1>2, <1>3, <4>1
        <5> QED
          BY <1>4, <5>1
      <4>2. CASE i = Len(l) + 1
        BY <1>2, <1>4, <4>2
      <4> QED
        BY <1>1, <1>2, <4>1, <4>2
    <3>2. ASSUME NEW i \in DOMAIN m, NEW j \in DOMAIN m, m[i] = m[j]
          PROVE  i = j
      <4>1. \A k \in 1..Len(l) : m[k] \in DOMAIN locks
        BY <1>2, <1>3
      <4>2. CASE i \in 1..Len(l) /\ j \in 1..Len(l)
        BY <1>2, <1>3, <3>2, <4>2
      <4>3. CASE i = Len(l) + 1 \/ j = Len(l) + 1
        BY <1>1, <1>2, <3>2, <4>1, <4>3
      <4> QED
        BY <1>1, <1>2, <4>2, <4>3
    <3> QED
      BY <1>5, <2>1, <3>1, <3>2
  <2>2. CASE y # x
    <3>1. y \in DOMAIN order /\ od[y] = order[y]
      BY <1>5, <2>2
    <3>2. \E u \in Session : ty[u].xid # 0 /\ ty[u].xid = y
      BY <3>1 DEF LockInv
    <3>3. \A i \in DOMAIN order[y] :
                /\ order[y][i] \in DOMAIN locks /\ locks[order[y][i]] = y
                /\ \A j \in DOMAIN order[y] : order[y][i] = order[y][j] => i = j
      BY <3>1 DEF LockInv
    <3> QED
      BY <1>4, <3>1, <3>2, <3>3
  <2> QED
    BY <2>1, <2>2
<1> QED
    BY <1>7, <1>8 DEF LockInv, lk, od, m, l

(* What ROLLBACK TO does to the table and to the lists of x. *)
ReleasedAfter(locks, l, x, n, lk) ==
    /\ \A q \in DOMAIN lk : q \in DOMAIN locks /\ lk[q] = locks[q]
    /\ \A q \in DOMAIN locks : q \in DOMAIN lk <=>
            ~(locks[q] = x /\ \E i \in n + 1 .. Len(l) : q = l[i])

CutAfter(order, x, n, od) ==
    /\ DOMAIN od = DOMAIN order
    /\ \A y \in DOMAIN order : od[y] = IF y = x THEN Truncate(order[y], n) ELSE order[y]

(* What the end of x's transaction does to them. *)
ReleasedAll(locks, x, lk) ==
    /\ \A q \in DOMAIN lk : q \in DOMAIN locks /\ locks[q] # x /\ lk[q] = locks[q]
    /\ \A q \in DOMAIN locks : locks[q] # x => q \in DOMAIN lk

(* ROLLBACK TO: x keeps the first n locks of its list, and only those.      *)
LEMMA LocksReleasedAfter ==
    ASSUME NEW locks, NEW order, order \in [DOMAIN order -> Seq(Nat)],
           NEW tx, LockInv(locks, order, tx),
           NEW x, NEW n \in Nat, n <= Len(LocksIn(order, x)),
           NEW lk, ReleasedAfter(locks, LocksIn(order, x), x, n, lk),
           NEW od, CutAfter(order, x, n, od),
           NEW ty, \A u \in Session : ty[u].xid = tx[u].xid
    PROVE  LockInv(lk, od, ty)
<1> DEFINE l == LocksIn(order, x)
<1>1. l \in Seq(Nat) /\ Len(l) \in Nat /\ DOMAIN l = 1..Len(l)
    BY LocksLen, LenProperties
<1>2. /\ DOMAIN Truncate(l, n) = 1..n
      /\ \A i \in 1..n : Truncate(l, n)[i] = l[i]
    BY <1>1, TruncateDomain
<1>3. x \in DOMAIN order => order[x] = l
    BY DEF LocksIn
<1>4. /\ \A q \in DOMAIN lk : q \in DOMAIN locks /\ lk[q] = locks[q]
      /\ \A q \in DOMAIN locks : q \in DOMAIN lk <=>
            ~(locks[q] = x /\ \E i \in n + 1 .. Len(l) : q = l[i])
    BY Zenon DEF ReleasedAfter
<1>5. /\ DOMAIN od = DOMAIN order
      /\ x \in DOMAIN order => od[x] = Truncate(l, n)
      /\ \A y \in DOMAIN order : y # x => od[y] = order[y]
    BY <1>3 DEF CutAfter
<1>6. n <= Len(l) /\ n \in Nat
    OBVIOUS
<1> HIDE DEF l
<1>7. ASSUME NEW q \in DOMAIN lk
      PROVE  lk[q] \in DOMAIN od /\ \E i \in DOMAIN od[lk[q]] : od[lk[q]][i] = q
  <2>1. q \in DOMAIN locks /\ lk[q] = locks[q]
    BY <1>4
  <2>2. PICK i \in DOMAIN order[locks[q]] : locks[q] \in DOMAIN order /\ order[locks[q]][i] = q
    BY <2>1 DEF LockInv
  <2>3. CASE locks[q] = x
    <3>1. i \in 1..Len(l) /\ l[i] = q
      BY <1>1, <1>3, <2>2, <2>3
    <3>2. i \in 1..n
      BY <1>1, <1>4, <2>1, <2>3, <3>1
    <3> QED
      BY <1>2, <1>5, <2>1, <2>2, <2>3, <3>1, <3>2
  <2>4. CASE locks[q] # x
    BY <1>5, <2>1, <2>2, <2>4
  <2> QED
    BY <2>3, <2>4
<1>8. ASSUME NEW y \in DOMAIN od
      PROVE  /\ \E u \in Session : ty[u].xid # 0 /\ ty[u].xid = y
             /\ \A i \in DOMAIN od[y] :
                    /\ od[y][i] \in DOMAIN lk /\ lk[od[y][i]] = y
                    /\ \A j \in DOMAIN od[y] : od[y][i] = od[y][j] => i = j
  <2>1. y \in DOMAIN order /\ \E u \in Session : ty[u].xid # 0 /\ ty[u].xid = y
    BY <1>5 DEF LockInv
  <2>2. \A i \in DOMAIN order[y] :
            /\ order[y][i] \in DOMAIN locks /\ locks[order[y][i]] = y
            /\ \A j \in DOMAIN order[y] : order[y][i] = order[y][j] => i = j
    BY <2>1 DEF LockInv
  <2>3. CASE y = x
    <3>1. \A i \in 1..n : i \in DOMAIN l /\ od[x][i] = l[i]
      BY <1>1, <1>2, <1>5, <1>6, <2>1, <2>3
    <3>2. DOMAIN od[x] = 1..n
      BY <1>2, <1>5, <2>1, <2>3
    <3>3. ASSUME NEW i \in 1..n
          PROVE  l[i] \in DOMAIN lk /\ lk[l[i]] = x
      <4>1. i \in DOMAIN l /\ l[i] \in DOMAIN locks /\ locks[l[i]] = x
        BY <1>3, <2>1, <2>2, <2>3, <3>1
      <4>2. ASSUME NEW j \in n + 1 .. Len(l) PROVE l[i] # l[j]
        <5>1. j \in DOMAIN l /\ i # j
          BY <1>1
        <5> QED
          BY <1>3, <2>1, <2>2, <2>3, <4>1, <5>1
      <4> QED
        BY <1>4, <4>1, <4>2
    <3>4. ASSUME NEW i \in 1..n, NEW j \in 1..n, l[i] = l[j] PROVE i = j
      BY <1>3, <2>1, <2>2, <2>3, <3>1, <3>4
    <3> QED
      BY <2>1, <2>3, <3>1, <3>2, <3>3, <3>4
  <2>4. CASE y # x
    <3>1. od[y] = order[y]
      BY <1>5, <2>1, <2>4
    <3>2. ASSUME NEW i \in DOMAIN order[y]
          PROVE  order[y][i] \in DOMAIN lk /\ lk[order[y][i]] = y
      BY <1>4, <2>2, <2>4
    <3> QED
      BY <2>1, <2>2, <3>1, <3>2
  <2> QED
    BY <2>3, <2>4
<1> QED
    BY <1>7, <1>8 DEF LockInv

(* The end of a transaction: its locks and its list go. *)
LEMMA LocksRetired ==
    ASSUME NEW locks, NEW order, NEW tx \in [Session -> Txn], LockInv(locks, order, tx),
           NEW s \in Session, NEW x, tx[s].xid = x,
           NEW lk, ReleasedAll(locks, x, lk)
    PROVE  LockInv(lk, Without(order, {x}), [tx EXCEPT ![s] = NoTxn])
<1> DEFINE od == Without(order, {x})
           ty == [tx EXCEPT ![s] = NoTxn]
<1>1. /\ \A q \in DOMAIN lk : q \in DOMAIN locks /\ locks[q] # x /\ lk[q] = locks[q]
      /\ \A q \in DOMAIN locks : locks[q] # x => q \in DOMAIN lk
    BY DEF ReleasedAll
<1>2. \A y : y \in DOMAIN od <=> y \in DOMAIN order /\ y # x
    BY DEF Without
<1>3. \A y \in DOMAIN od : od[y] = order[y]
    BY DEF Without
<1>4. \A u \in Session : u # s => ty[u] = tx[u]
    OBVIOUS
<1>5. ASSUME NEW y \in DOMAIN od PROVE \E u \in Session : ty[u].xid # 0 /\ ty[u].xid = y
  <2>1. PICK u \in Session : tx[u].xid # 0 /\ tx[u].xid = y
    BY <1>2 DEF LockInv
  <2>2. u # s
    BY <1>2, <2>1
  <2> QED
    BY <1>4, <2>1, <2>2
<1> HIDE DEF od, ty
<1>6. ASSUME NEW q \in DOMAIN lk
      PROVE  lk[q] \in DOMAIN od /\ \E i \in DOMAIN od[lk[q]] : od[lk[q]][i] = q
    BY <1>1, <1>2, <1>3 DEF LockInv
<1>7. ASSUME NEW y \in DOMAIN od, NEW i \in DOMAIN od[y]
      PROVE  /\ od[y][i] \in DOMAIN lk /\ lk[od[y][i]] = y
             /\ \A j \in DOMAIN od[y] : od[y][i] = od[y][j] => i = j
    BY <1>1, <1>2, <1>3 DEF LockInv
<1>8. LockInv(lk, od, ty)
    BY <1>5, <1>6, <1>7 DEF LockInv
<1> QED
    BY <1>8 DEF od, ty

(* No lock is held in a freshly started engine. *)
LEMMA NoLocks ==
    ASSUME NEW tx
    PROVE  LockInv(NoEntries, NoEntries, tx)
    BY DEF LockInv, NoEntries

LInv == LockInv(row_locks, lock_order, txn)

(* Statements other than FOR UPDATE, the savepoint commands and BEGIN leave *)
(* the locks alone, and every open session keeps its top-level xid.         *)
LEMMA LInvKept ==
    ASSUME IInv, LInv, NEW s \in Session, NEW t, txn' = [txn EXCEPT ![s] = t],
           txn[s].xid # 0 => t.xid = txn[s].xid,
           UNCHANGED <<row_locks, lock_order>>
    PROVE  LInv'
<1>1. txn \in [Session -> Txn]
    BY DEF IInv, FieldTypes
<1>2. \A u \in Session : txn[u].xid # 0 => txn'[u].xid = txn[u].xid
    BY <1>1
<1> QED
    BY <1>2, LocksKept DEF LInv

(* FOR UPDATE.  A lock whose holder is not active does not exist: the       *)
(* holder is an open transaction's xid.                                     *)
LEMMA LInvLock ==
    ASSUME IInv, LInv, NEW s \in Session, NEW r \in DOMAIN rows, acquire_row_locks(s, r)
    PROVE  LInv'
<1> DEFINE x == txn[s].xid
           p == Pinned(txn[s])
<1>1. FieldTypes /\ txn[s] \in Txn /\ x # 0 /\ r \in Nat
    BY DEF IInv, FieldTypes, RowTable, acquire_row_locks, Running, Open
<1>2. p.xid = x /\ txn' = [txn EXCEPT ![s] = p]
    BY <1>1, PinnedFields DEF acquire_row_locks
<1>3. txn \in [Session -> Txn] /\ lock_order \in [DOMAIN lock_order -> Seq(Nat)]
    BY <1>1 DEF FieldTypes
<1> HIDE DEF p
<1>4. CASE UNCHANGED <<row_locks, lock_order>>
    BY <1>2, <1>4, LInvKept
<1>5. CASE /\ ~(r \in DOMAIN row_locks /\ row_locks[r] = x)
           /\ row_locks' = With(row_locks, r, x)
           /\ lock_order' = With(lock_order, x, Append(LocksIn(lock_order, x), r))
  <2>1. r \notin DOMAIN row_locks
    <3> SUFFICES ASSUME r \in DOMAIN row_locks PROVE FALSE
      OBVIOUS
    <3>1. row_locks[r] \notin active
      BY <1>5 DEF acquire_row_locks, check_row_lock
    <3>2. PICK u \in Session : txn[u].xid # 0 /\ txn[u].xid = row_locks[r]
      BY DEF LInv, LockInv
    <3>3. row_locks[r] \in all_xids(txn[u])
      BY <3>2 DEF all_xids
    <3> QED
      BY <3>1, <3>2, <3>3, OpenXids
  <2>2. \A u \in Session : txn'[u].xid = txn[u].xid
    BY <1>2, <1>3
  <2> QED
    BY <1>1, <1>3, <1>5, <2>1, <2>2, LocksAcquired DEF LInv
<1> QED
    BY <1>4, <1>5 DEF acquire_row_locks, Locks, LocksIn

(* ROLLBACK TO gives up the locks taken since the savepoint. *)
LEMMA LInvRollbackTo ==
    ASSUME IInv, LInv, NEW s \in Session, NEW idx, txn_rollback_to(s, idx)
    PROVE  LInv'
<1> DEFINE t == txn[s]
           x == t.xid
           n == t.savepoints[idx].lock_count
           l == LocksIn(lock_order, x)
<1>1. /\ FieldTypes /\ t \in Txn /\ x # 0 /\ idx \in DOMAIN t.savepoints
      /\ txn \in [Session -> Txn]
    BY DEF IInv, FieldTypes, txn_rollback_to, Open
<1>2. MarksAt(t, Len(l))
    BY <1>1, MarkedIsSavepointMarks DEF IInv, Marked
<1>3. n \in Nat /\ n <= Len(l)
  <2>1. t.savepoints[idx] \in SavepointMark
    BY <1>1, ElementOfSeq, LenProperties DEF Txn
  <2> QED
    BY <1>1, <1>2, <2>1 DEF MarksAt, SavepointMark
<1>4. \A u \in Session : txn'[u].xid = txn[u].xid
    BY <1>1 DEF txn_rollback_to, Txn
<1>5. ReleasedAfter(row_locks, l, x, n, row_locks')
  <2> DEFINE gone == {l[i] : i \in n + 1 .. Len(l)}
             D == {q \in DOMAIN row_locks : ~(q \in gone /\ row_locks[q] = x)}
  <2>1. row_locks' = [r \in D |-> row_locks[r]]
    BY DEF txn_rollback_to, KeptLocks, Locks, LocksIn
  <2>2. \A q : q \in gone <=> \E i \in n + 1 .. Len(l) : q = l[i]
    BY Zenon
  <2> HIDE DEF gone
  <2>3. \A q : q \in D <=> q \in DOMAIN row_locks /\ ~(q \in gone /\ row_locks[q] = x)
    OBVIOUS
  <2> HIDE DEF D
  <2>4. DOMAIN row_locks' = D /\ \A q \in D : row_locks'[q] = row_locks[q]
    BY <2>1
  <2> QED
    BY <2>2, <2>3, <2>4, Zenon DEF ReleasedAfter
<1>6. CutAfter(lock_order, x, n, lock_order')
    BY DEF txn_rollback_to, KeptOrder, CutAfter
<1>7. lock_order \in [DOMAIN lock_order -> Seq(Nat)]
    BY <1>1 DEF FieldTypes
<1>8. LockInv(row_locks, lock_order, txn)
    BY DEF LInv
<1> HIDE DEF n, x, t
<1>9. LockInv(row_locks', lock_order', txn')
    BY <1>3, <1>4, <1>5, <1>6, <1>7, <1>8, LocksReleasedAfter
<1> QED
    BY <1>9 DEF LInv

(* The end of a transaction. *)
LEMMA LInvEnd ==
    ASSUME IInv, LInv, NEW s \in Session, txn_rollback(s) \/ commit_taken_txn(s)
    PROVE  LInv'
<1>1. txn \in [Session -> Txn] /\ LockInv(row_locks, lock_order, txn)
    BY DEF IInv, FieldTypes, LInv
<1>2. ReleasedAll(row_locks, txn[s].xid, row_locks')
    BY DEF txn_rollback, commit_taken_txn, retire_txn_family, ReleasedAll
<1>3. lock_order' = Without(lock_order, {txn[s].xid}) /\ txn' = [txn EXCEPT ![s] = NoTxn]
    BY DEF txn_rollback, commit_taken_txn, retire_txn_family
<1> QED
    BY <1>1, <1>2, <1>3, LocksRetired DEF LInv

(* Every step keeps the lock table and the lock lists in agreement. *)
LEMMA NextLInv ==
    ASSUME IInv, LInv, [Next]_vars
    PROVE  LInv'
<1>0. FieldTypes /\ \A s \in Session : txn[s] \in Txn
    BY DEF IInv, FieldTypes
<1>1. CASE UNCHANGED vars
    BY <1>1 DEF LInv, vars, engine
<1>2. CASE Restart
    BY <1>2, NoLocks DEF LInv, Restart
<1>3. ASSUME NEW s \in Session, NEW level \in Level, txn_begin(s, level) PROVE LInv'
    BY <1>3, LInvKept DEF txn_begin, Open
<1>4. ASSUME NEW s \in Session, exec_select(s) \/ StmtError(s) PROVE LInv'
  <2>1. Pinned(txn[s]) \in Txn /\ Pinned(txn[s]).xid = txn[s].xid
    BY <1>0, PinnedType, PinnedFields
  <2> DEFINE p == Pinned(txn[s])
             f == [p EXCEPT !.failed = TRUE]
  <2>2. f.xid = p.xid
    BY <2>1 DEF Txn
  <2> HIDE DEF p, f
  <2>3. txn' = [txn EXCEPT ![s] = p] \/ txn' = [txn EXCEPT ![s] = f]
    BY <1>4 DEF exec_select, StmtError, p, f
  <2>4. UNCHANGED <<row_locks, lock_order>>
    BY <1>4 DEF exec_select, StmtError
  <2> QED
    BY <2>1, <2>2, <2>3, <2>4, LInvKept DEF p
<1>5. ASSUME NEW s \in Session, NEW r \in DOMAIN rows, acquire_row_locks(s, r) PROVE LInv'
    BY <1>5, LInvLock
<1>6. ASSUME NEW s \in Session, NEW w, NEW k, Write(s, w, k) PROVE LInv'
  <2> DEFINE p == Pinned(txn[s])
             u == [p EXCEPT !.writes = Append(@, w)]
  <2>1. p \in Txn /\ p.xid = txn[s].xid
    BY <1>0, PinnedType, PinnedFields
  <2>2. u.xid = p.xid
    BY <2>1 DEF Txn
  <2>3. txn' = [txn EXCEPT ![s] = u] /\ UNCHANGED <<row_locks, lock_order>>
    BY <1>6 DEF Write
  <2> HIDE DEF u, p
  <2> QED
    BY <2>1, <2>2, <2>3, LInvKept
<1>7. ASSUME NEW s \in Session, NEW w, NEW k, autocommit_execute(s, w, k) PROVE LInv'
    BY <1>7 DEF LInv, autocommit_execute
<1>8. ASSUME NEW s \in Session, txn_savepoint(s) PROVE LInv'
  <2> DEFINE t == txn[s]
             u == [t EXCEPT !.savepoints = Append(@, [writes_len |-> Len(t.writes),
                                                      lock_count |-> Len(Locks(t.xid))]),
                            !.sub_xids = Append(@, next_xid),
                            !.owned_xids = @ \cup {next_xid}]
  <2>1. u.xid = t.xid
    BY <1>0 DEF Txn
  <2>2. txn' = [txn EXCEPT ![s] = u] /\ UNCHANGED <<row_locks, lock_order>>
    BY <1>8 DEF txn_savepoint
  <2> HIDE DEF u
  <2> QED
    BY <2>1, <2>2, LInvKept
<1>9. ASSUME NEW s \in Session, NEW idx, txn_release(s, idx) PROVE LInv'
  <2> DEFINE t == txn[s]
             u == [t EXCEPT !.savepoints = Truncate(t.savepoints, idx - 1),
                            !.sub_xids = Truncate(t.sub_xids, idx - 1)]
  <2>1. u.xid = t.xid
    BY <1>0 DEF Txn
  <2>2. txn' = [txn EXCEPT ![s] = u] /\ UNCHANGED <<row_locks, lock_order>>
    BY <1>0, <1>9 DEF txn_release, Txn, engine
  <2> HIDE DEF u
  <2> QED
    BY <2>1, <2>2, LInvKept
<1>10. ASSUME NEW s \in Session, NEW idx, txn_rollback_to(s, idx) PROVE LInv'
    BY <1>10, LInvRollbackTo
<1>11. ASSUME NEW s \in Session, txn_rollback(s) \/ commit_taken_txn(s) PROVE LInv'
    BY <1>11, LInvEnd
<1>12. ASSUME NEW s \in Session, auto_error(s) \/ txn_vacuum(s) \/ txn_checkpoint(s) PROVE LInv'
    BY <1>12 DEF LInv, auto_error, txn_vacuum, txn_checkpoint, engine
<1> QED
    BY <1>1, <1>2, <1>3, <1>4, <1>5, <1>6, <1>7, <1>8, <1>9, <1>10, <1>11, <1>12
    DEF Next, CommitFails, exec_insert, exec_delete, exec_update,
        auto_insert, auto_delete, auto_update

(* acquire_row_locks, release_locks_after and retire_txn_family keep the    *)
(* lock table and the lock lists in agreement: no lock outlives its         *)
(* transaction, none is listed twice, and ROLLBACK TO releases what it      *)
(* should.                                                                  *)
THEOREM LocksAgree == Spec => []LockTable
<1>1. Init => LInv
    BY NoLocks DEF Init, LInv
<1>2. IInv /\ LInv /\ [Next]_vars => LInv'
    BY NextLInv
<1>3. IInv /\ LInv => LockTable
  <2> SUFFICES ASSUME IInv, LInv PROVE LockTable
    OBVIOUS
  <2>1. \A x \in DOMAIN lock_order : x \in active /\ Locks(x) = lock_order[x]
    <3> SUFFICES ASSUME NEW x \in DOMAIN lock_order PROVE x \in active /\ Locks(x) = lock_order[x]
      OBVIOUS
    <3>1. PICK s \in Session : txn[s].xid # 0 /\ txn[s].xid = x
      BY DEF LInv, LockInv
    <3>2. x \in all_xids(txn[s])
      BY <3>1 DEF all_xids
    <3> QED
      BY <3>1, <3>2, OpenXids DEF Locks
  <2> QED
    BY <2>1 DEF LInv, LockInv, LockTable, Open
<1> QED
    BY <1>1, <1>2, <1>3, Invariance, PTL DEF Spec

-----------------------------------------------------------------------------
(* The row-table operators, version by version.                             *)

(* Apply under x: w.old is stamped, w.new is created. *)
Wrote(rws, w, k, x, z) ==
    /\ \A r : r \in DOMAIN z <=> r \in DOMAIN rws \/ (r = w.new /\ r # 0)
    /\ \A r \in DOMAIN rws : /\ r # w.new
                             /\ z[r].key = rws[r].key /\ z[r].xmin = rws[r].xmin
                             /\ z[r].xmax = IF r = w.old THEN x ELSE rws[r].xmax
                             /\ r # w.old => z[r] = rws[r]
    /\ w.new # 0 => z[w.new].key = k /\ z[w.new].xmin = x /\ z[w.new].xmax = 0

(* undo_all of ops that stamped live versions: the stamps become 0. *)
Undone(rws, owns, ops, z) ==
    /\ \A r : r \in DOMAIN z <=>
            r \in DOMAIN rws /\ ~(rws[r].xmin \in owns /\ \E i \in DOMAIN ops : ops[i].new = r)
    /\ \A r \in DOMAIN z :
        /\ z[r].key = rws[r].key /\ z[r].xmin = rws[r].xmin
        /\ IF rws[r].xmax \in owns /\ \E i \in DOMAIN ops : ops[i].old = r
           THEN z[r].xmax = 0 ELSE z[r] = rws[r]

(* VACUUM: what goes is dead to every registered snapshot. *)
Vacuumed(rws, act, snaps, z) ==
    /\ \A r \in DOMAIN z : r \in DOMAIN rws /\ z[r] = rws[r]
    /\ \A r \in DOMAIN rws : r \notin DOMAIN z => version_dead_to_all(rws[r], act, snaps)

(* Apply does what Wrote says. *)
LEMMA ApplyWrites ==
    ASSUME NEW n \in Nat, NEW rws, RowTable(rws, n), NEW w, w.new \in {0, n}, NEW k, NEW x
    PROVE  Wrote(rws, w, k, x, Apply(rws, w, k, x))
<1> DEFINE D == DOMAIN rws \cup ({w.new} \ {0})
           val(r) == IF r = w.new THEN [key |-> k, xmin |-> x, xmax |-> 0]
                     ELSE IF r = w.old THEN [rws[r] EXCEPT !.xmax = x]
                     ELSE rws[r]
           z == Apply(rws, w, k, x)
<1>1. z = [r \in D |-> val(r)]
    BY DEF Apply
<1>2. ASSUME NEW r \in DOMAIN rws
      PROVE  rws[r] \in RowVersion /\ r # w.new
    BY DEF RowTable
<1>3. ASSUME NEW r \in DOMAIN rws
      PROVE  /\ val(r).key = rws[r].key /\ val(r).xmin = rws[r].xmin
             /\ val(r).xmax = IF r = w.old THEN x ELSE rws[r].xmax
             /\ r # w.old => val(r) = rws[r]
    BY <1>2 DEF RowVersion
<1>4. val(w.new).key = k /\ val(w.new).xmin = x /\ val(w.new).xmax = 0
    OBVIOUS
<1> HIDE DEF val
<1>5. DOMAIN z = D /\ \A r \in D : z[r] = val(r)
    BY <1>1
<1> HIDE DEF z
<1> QED
    BY <1>2, <1>3, <1>4, <1>5 DEF Wrote, z

(* undo_all does what Undone says, when no op had overwritten a stamp. *)
LEMMA UndoUndoes ==
    ASSUME NEW n \in Nat, NEW rws, RowTable(rws, n), NEW owns,
           NEW ops \in Seq(WriteOp), \A i \in DOMAIN ops : ops[i].prev = 0
    PROVE  Undone(rws, owns, ops, undo_all(rws, owns, ops))
<1> DEFINE made(r) == \E i \in DOMAIN ops : ops[i].new = r
           stamped(r) == \E i \in DOMAIN ops : ops[i].old = r
           gone == {r \in DOMAIN rws : rws[r].xmin \in owns /\ made(r)}
           val(r) == IF rws[r].xmax \in owns /\ stamped(r)
                     THEN [rws[r] EXCEPT !.xmax = ops[NewestStamp(ops, r)].prev]
                     ELSE rws[r]
           z == undo_all(rws, owns, ops)
<1>1. z = [r \in DOMAIN rws \ gone |-> val(r)]
    BY DEF undo_all
<1>2. ASSUME NEW r \in DOMAIN rws
      PROVE  /\ val(r).key = rws[r].key /\ val(r).xmin = rws[r].xmin
             /\ IF rws[r].xmax \in owns /\ stamped(r)
                THEN val(r).xmax = 0 ELSE val(r) = rws[r]
  <2>1. rws[r] \in RowVersion
    BY DEF RowTable
  <2>2. stamped(r) => ops[NewestStamp(ops, r)].prev = 0
    BY NewestStampExists
  <2> HIDE DEF stamped
  <2> QED
    BY <2>1, <2>2 DEF RowVersion
<1>3. \A r : r \in gone <=> r \in DOMAIN rws /\ rws[r].xmin \in owns /\ made(r)
    OBVIOUS
<1> HIDE DEF val, gone, stamped, made
<1>4. DOMAIN z = DOMAIN rws \ gone /\ \A r \in DOMAIN rws \ gone : z[r] = val(r)
    BY <1>1
<1> HIDE DEF z
<1>5. \A r : r \in DOMAIN z <=> r \in DOMAIN rws /\ ~(rws[r].xmin \in owns /\ made(r))
    BY <1>3, <1>4
<1>6. \A r \in DOMAIN z :
        /\ z[r].key = rws[r].key /\ z[r].xmin = rws[r].xmin
        /\ IF rws[r].xmax \in owns /\ stamped(r) THEN z[r].xmax = 0 ELSE z[r] = rws[r]
    BY <1>2, <1>3, <1>4
<1> QED
    BY <1>5, <1>6, Zenon DEF Undone, z, made, stamped

(* VACUUM and auto_vacuum do what Vacuumed says. *)
LEMMA VacuumVacuums ==
    ASSUME NEW rws, NEW act, NEW snaps, NEW writes
    PROVE  /\ Vacuumed(rws, act, snaps, vacuum_table(rws, act, snaps))
           /\ Vacuumed(rws, act, snaps, auto_vacuum(rws, writes, act, snaps))
<1>1. Vacuumed(rws, act, snaps, vacuum_table(rws, act, snaps))
    BY DEF Vacuumed, vacuum_table
<1> QED
    BY <1>1 DEF auto_vacuum, Vacuumed

(* A version carries an xid of A if A created or stamped it. *)
Carries(v, A) == v.xmin \in A \/ v.xmax \in A

(* The versions that carry an xid of A are the same in both tables. *)
SameFor(A, rws, z) ==
    /\ \A r \in DOMAIN rws : Carries(rws[r], A) => r \in DOMAIN z /\ z[r] = rws[r]
    /\ \A r \in DOMAIN z : Carries(z[r], A) => r \in DOMAIN rws /\ z[r] = rws[r]

(* Two steps that leave the versions of A alone do so together. *)
LEMMA SameTwice ==
    ASSUME NEW A, NEW x, NEW y, NEW z, SameFor(A, x, y), SameFor(A, y, z)
    PROVE  SameFor(A, x, z)
    BY DEF SameFor

(* A write under an xid outside A, of a version that carries none of A. *)
LEMMA WroteForeign ==
    ASSUME NEW A, 0 \notin A, NEW rws, NEW w, NEW k, NEW x, x \notin A, NEW z,
           Wrote(rws, w, k, x, z),
           w.old \in DOMAIN rws => ~Carries(rws[w.old], A)
    PROVE  SameFor(A, rws, z)
    BY DEF SameFor, Carries, Wrote

(* VACUUM keeps every version of the active xids. *)
LEMMA VacuumedForeign ==
    ASSUME NEW A, NEW act, \A x \in A : x \in act, NEW rws, NEW snaps, NEW z,
           Vacuumed(rws, act, snaps, z)
    PROVE  SameFor(A, rws, z)
    BY DEF SameFor, Carries, Vacuumed, version_dead_to_all

-----------------------------------------------------------------------------
(* What an open transaction's versions and write log say of each other.     *)

(* Row r is in the lock list L, no later than the marks of the savepoints   *)
(* that keep op i.                                                          *)
Guarded(t, L, i, r) ==
    \E p \in DOMAIN L : /\ L[p] = r
                        /\ \A k \in DOMAIN t.savepoints :
                            i <= t.savepoints[k].writes_len => p <= t.savepoints[k].lock_count

(* A version t stamped is in its log, and is its own or locked by it. *)
Stamps(t, rws, L) ==
    \A r \in DOMAIN rws : rws[r].xmax \in all_xids(t) =>
        \E i \in DOMAIN t.writes :
            /\ t.writes[i].old = r
            /\ rws[r].xmin \in all_xids(t) \/ Guarded(t, L, i, r)

(* Nobody else stamps a version t created. *)
OwnOnly(t, rws) ==
    \A r \in DOMAIN rws : rws[r].xmin \in all_xids(t) =>
        rws[r].xmax = 0 \/ rws[r].xmax \in all_xids(t)

(* A logged op overwrote no stamp, and what it did is still in the table. *)
OpHolds(w, A, rws) ==
    /\ w.prev = 0
    /\ w.old # 0 => w.old \in DOMAIN rws /\ rws[w.old].xmax \in A
    /\ w.new # 0 => w.new \in DOMAIN rws /\ rws[w.new].xmin \in A

OpsHold(t, rws) == \A i \in DOMAIN t.writes : OpHolds(t.writes[i], all_xids(t), rws)

(* No version is stamped or created twice, or stamped before it is created. *)
OpsApart(q) ==
    \A i, j \in DOMAIN q :
        /\ q[i].old # 0 /\ q[j].old = q[i].old => i = j
        /\ q[i].new # 0 /\ q[j].new = q[i].new => i = j
        /\ q[i].old # 0 /\ q[j].new = q[i].old => j < i

TInv(t, rws, L) ==
    Stamps(t, rws, L) /\ OwnOnly(t, rws) /\ OpsHold(t, rws) /\ OpsApart(t.writes)

(* The transaction depends on the versions that carry its xids only. *)
LEMMA TInvForeign ==
    ASSUME NEW t, NEW rws, NEW L, TInv(t, rws, L), NEW z, SameFor(all_xids(t), rws, z)
    PROVE  TInv(t, z, L)
<1> DEFINE A == all_xids(t)
<1> HIDE DEF A
<1>1. /\ \A r \in DOMAIN rws : rws[r].xmin \in A \/ rws[r].xmax \in A =>
                r \in DOMAIN z /\ z[r] = rws[r]
      /\ \A r \in DOMAIN z : z[r].xmin \in A \/ z[r].xmax \in A =>
                r \in DOMAIN rws /\ z[r] = rws[r]
    BY DEF SameFor, Carries, A
<1>2. Stamps(t, z, L)
    BY <1>1 DEF TInv, Stamps, A
<1>3. OwnOnly(t, z)
    BY <1>1 DEF TInv, OwnOnly, A
<1>4. OpsHold(t, z)
    BY <1>1 DEF TInv, OpsHold, OpHolds, A
<1> QED
    BY <1>2, <1>3, <1>4 DEF TInv

(* The snapshot and the failed flag do not matter. *)
LEMMA TInvSameLog ==
    ASSUME NEW t, NEW rws, NEW L, TInv(t, rws, L), NEW u,
           u.xid = t.xid, u.owned_xids = t.owned_xids, u.writes = t.writes,
           u.savepoints = t.savepoints
    PROVE  TInv(u, rws, L)
    BY DEF TInv, Stamps, OwnOnly, OpsHold, Guarded, all_xids

(* A longer lock list guards what the shorter one did. *)
LEMMA TInvLonger ==
    ASSUME NEW t, NEW rws, NEW L, TInv(t, rws, L),
           NEW M, \A p \in DOMAIN L : p \in DOMAIN M /\ M[p] = L[p]
    PROVE  TInv(t, rws, M)
<1>1. \A i, r : Guarded(t, L, i, r) => Guarded(t, M, i, r)
    BY DEF Guarded
<1> QED
    BY <1>1 DEF TInv, Stamps

(* RELEASE: fewer marks, and a new prefix of the savepoint stack. *)
LEMMA TInvFewerMarks ==
    ASSUME NEW t, NEW rws, NEW L, TInv(t, rws, L), NEW u,
           u.xid = t.xid, u.owned_xids = t.owned_xids, u.writes = t.writes,
           \A k \in DOMAIN u.savepoints : k \in DOMAIN t.savepoints
                                          /\ u.savepoints[k] = t.savepoints[k]
    PROVE  TInv(u, rws, L)
<1>1. all_xids(u) = all_xids(t)
    BY DEF all_xids
<1>2. \A i, r : Guarded(t, L, i, r) => Guarded(u, L, i, r)
    BY DEF Guarded
<1> QED
    BY <1>1, <1>2 DEF TInv, Stamps, OwnOnly, OpsHold

(* SAVEPOINT: every op and every lock so far is below the new mark, and no  *)
(* version carries the new sub-xid.                                         *)
LEMMA TInvPush ==
    ASSUME NEW t \in Txn, NEW rws, NEW L \in Seq(Nat), TInv(t, rws, L),
           NEW x, \A r \in DOMAIN rws : ~Carries(rws[r], {x}),
           NEW u, u.xid = t.xid, u.owned_xids = t.owned_xids \cup {x}, u.writes = t.writes,
           u.savepoints = Append(t.savepoints, [writes_len |-> Len(t.writes), lock_count |-> Len(L)])
    PROVE  TInv(u, rws, L)
<1> DEFINE A == all_xids(t)
           B == all_xids(u)
           m == [writes_len |-> Len(t.writes), lock_count |-> Len(L)]
           n == Len(t.savepoints)
<1>1. \A y : y \in B <=> y \in A \/ y = x
    BY DEF all_xids
<1>2. \A r \in DOMAIN rws : /\ rws[r].xmin \in B <=> rws[r].xmin \in A
                            /\ rws[r].xmax \in B <=> rws[r].xmax \in A
    BY <1>1 DEF Carries
<1>3. t.savepoints \in Seq(SavepointMark) /\ t.writes \in Seq(WriteOp)
    BY DEF Txn
<1>4. Len(t.writes) \in Nat /\ Len(L) \in Nat /\ DOMAIN L = 1..Len(L) /\ m \in SavepointMark
    BY <1>3, LenProperties DEF SavepointMark
<1>5. /\ n \in Nat /\ DOMAIN t.savepoints = 1..n /\ DOMAIN u.savepoints = 1..n + 1
      /\ u.savepoints[n + 1] = m
      /\ \A k \in 1..n : u.savepoints[k] = t.savepoints[k]
    BY <1>3, <1>4, AppendDomain, LenProperties
<1>6. ASSUME NEW i, NEW r, Guarded(t, L, i, r) PROVE Guarded(u, L, i, r)
  <2>1. PICK p \in DOMAIN L : /\ L[p] = r
                              /\ \A k \in DOMAIN t.savepoints :
                                    i <= t.savepoints[k].writes_len => p <= t.savepoints[k].lock_count
    BY <1>6 DEF Guarded
  <2>2. p <= m.lock_count
    BY <1>4
  <2> HIDE DEF m, n
  <2>3. ASSUME NEW k \in DOMAIN u.savepoints, i <= u.savepoints[k].writes_len
        PROVE  p <= u.savepoints[k].lock_count
    BY <1>5, <2>1, <2>2, <2>3
  <2> QED
    BY <2>1, <2>3 DEF Guarded
<1> HIDE DEF A, B
<1>7. Stamps(u, rws, L)
    BY <1>2, <1>6 DEF TInv, Stamps, A, B
<1>8. OwnOnly(u, rws)
    BY <1>2 DEF TInv, OwnOnly, A, B
<1>9. OpsHold(u, rws)
    BY <1>2 DEF TInv, OpsHold, OpHolds, A, B
<1> QED
    BY <1>7, <1>8, <1>9 DEF TInv

(* A write of the transaction: it stamps a live version that is its own or  *)
(* locked by it, and creates one nobody has.                                *)
LEMMA TInvWrite ==
    ASSUME NEW t \in Txn, NEW n, MarksAt(t, n), NEW rws, NEW L, TInv(t, rws, L),
           0 \notin all_xids(t), 0 \notin DOMAIN rws,
           NEW w \in WriteOp, w.prev = 0, NEW k, NEW x \in all_xids(t), NEW z,
           Wrote(rws, w, k, x, z),
           w.old # 0 => /\ w.old \in DOMAIN rws /\ rws[w.old].xmax = 0
                        /\ rws[w.old].xmin \in all_xids(t) \/ \E p \in DOMAIN L : L[p] = w.old,
           NEW u, u.xid = t.xid, u.owned_xids = t.owned_xids,
           u.savepoints = t.savepoints, u.writes = Append(t.writes, w)
    PROVE  TInv(u, z, L)
<1> DEFINE A == all_xids(t)
           l == Len(t.writes)
<1>1. all_xids(u) = A
    BY DEF all_xids
<1>2. t.writes \in Seq(WriteOp) /\ t.savepoints \in Seq(SavepointMark)
    BY DEF Txn
<1>3. /\ l \in Nat /\ DOMAIN t.writes = 1..l /\ DOMAIN u.writes = 1..l + 1
      /\ u.writes[l + 1] = w
      /\ \A i \in 1..l : u.writes[i] = t.writes[i]
    BY <1>2, AppendDomain, LenProperties
<1>4. /\ \A r : r \in DOMAIN z <=> r \in DOMAIN rws \/ (r = w.new /\ r # 0)
      /\ \A r \in DOMAIN rws : /\ r # w.new
                               /\ z[r].xmin = rws[r].xmin
                               /\ z[r].xmax = IF r = w.old THEN x ELSE rws[r].xmax
      /\ w.new # 0 => z[w.new].xmin = x /\ z[w.new].xmax = 0
    BY DEF Wrote
<1>5. \A k2 \in DOMAIN t.savepoints : t.savepoints[k2].writes_len \in Nat
                                      /\ t.savepoints[k2].writes_len <= l
  <2>1. \A k2 \in DOMAIN t.savepoints : t.savepoints[k2] \in SavepointMark
    BY <1>2, ElementOfSeq, LenProperties
  <2> QED
    BY <2>1 DEF MarksAt, SavepointMark
<1>6. \A i, r : Guarded(t, L, i, r) => Guarded(u, L, i, r)
    BY DEF Guarded
<1>7. 0 \notin A /\ x \in A
    OBVIOUS
<1> HIDE DEF A, l
<1>8. Stamps(u, z, L)
  <2>1. SUFFICES ASSUME NEW r \in DOMAIN z, z[r].xmax \in A
                 PROVE  \E i \in DOMAIN u.writes :
                            /\ u.writes[i].old = r
                            /\ z[r].xmin \in A \/ Guarded(u, L, i, r)
    BY <1>1 DEF Stamps
  <2>2. r \in DOMAIN rws /\ z[r].xmin = rws[r].xmin
    BY <1>4, <1>7, <2>1
  <2>3. CASE r = w.old
    <3>1. l + 1 \in DOMAIN u.writes /\ u.writes[l + 1].old = r
      BY <1>3, <2>3
    <3>2. rws[r].xmin \in A \/ \E p \in DOMAIN L : L[p] = r
      BY <2>2, <2>3 DEF A
    <3>3. ASSUME NEW p \in DOMAIN L, L[p] = r PROVE Guarded(u, L, l + 1, r)
      BY <1>3, <1>5, <3>3 DEF Guarded
    <3> QED
      BY <2>2, <3>1, <3>2, <3>3
  <2>4. CASE r # w.old
    <3>1. rws[r].xmax \in A
      BY <1>4, <2>1, <2>2, <2>4
    <3>2. PICK i \in DOMAIN t.writes :
                t.writes[i].old = r /\ (rws[r].xmin \in A \/ Guarded(t, L, i, r))
      BY <2>2, <3>1 DEF TInv, Stamps, A
    <3>3. i \in DOMAIN u.writes /\ u.writes[i].old = r
      BY <1>3, <3>2
    <3> QED
      BY <1>6, <2>2, <3>2, <3>3
  <2> QED
    BY <2>3, <2>4
<1>9. OwnOnly(u, z)
  <2>1. SUFFICES ASSUME NEW r \in DOMAIN z, z[r].xmin \in A
                 PROVE  z[r].xmax = 0 \/ z[r].xmax \in A
    BY <1>1 DEF OwnOnly
  <2>2. CASE r \in DOMAIN rws
    BY <1>4, <1>7, <2>1, <2>2 DEF TInv, OwnOnly, A
  <2>3. CASE r \notin DOMAIN rws
    BY <1>4, <2>1, <2>3
  <2> QED
    BY <2>2, <2>3
<1>10. ASSUME NEW i \in 1..l
       PROVE  OpHolds(u.writes[i], A, rws)
    BY <1>3 DEF TInv, OpsHold, A
<1>11. OpsHold(u, z)
  <2>1. SUFFICES ASSUME NEW i \in 1..l + 1 PROVE OpHolds(u.writes[i], A, z)
    BY <1>1, <1>3 DEF OpsHold
  <2>2. CASE i \in 1..l
    BY <1>4, <1>7, <1>10, <2>2 DEF OpHolds
  <2>3. CASE i = l + 1
    <3>1. u.writes[i] = w
      BY <1>3, <2>3
    <3> QED
      BY <1>4, <1>7, <3>1 DEF OpHolds
  <2> QED
    BY <1>3, <2>1, <2>2, <2>3
<1>12. OpsApart(u.writes)
  <2> DEFINE q == u.writes
  <2>1. SUFFICES ASSUME NEW i \in 1..l + 1, NEW j \in 1..l + 1
                 PROVE  /\ q[i].old # 0 /\ q[j].old = q[i].old => i = j
                        /\ q[i].new # 0 /\ q[j].new = q[i].new => i = j
                        /\ q[i].old # 0 /\ q[j].new = q[i].old => j < i
    BY <1>3 DEF OpsApart
  <2>2. CASE i \in 1..l /\ j \in 1..l
    BY <1>3, <2>2, SMTT(20) DEF TInv, OpsApart
  <2>3. \A m \in 1..l : /\ q[m].old # 0 => q[m].old \in DOMAIN rws /\ rws[q[m].old].xmax \in A
                        /\ q[m].new # 0 => q[m].new \in DOMAIN rws
    BY <1>10 DEF OpHolds
  <2>4. q[l + 1] = w
    BY <1>3
  <2>5. w.old # 0 => w.old \in DOMAIN rws /\ rws[w.old].xmax = 0
    OBVIOUS
  <2> HIDE DEF q
  <2>6. CASE i = l + 1 /\ j \in 1..l
    BY <1>3, <1>4, <1>7, <2>3, <2>4, <2>5, <2>6
  <2>7. CASE i \in 1..l /\ j = l + 1
    BY <1>3, <1>4, <1>7, <2>3, <2>4, <2>5, <2>7
  <2>8. CASE i = l + 1 /\ j = l + 1
    BY <1>4, <2>4, <2>5, <2>8
  <2> QED
    BY <1>3, <2>1, <2>2, <2>6, <2>7, <2>8
<1> QED
    BY <1>8, <1>9, <1>11, <1>12 DEF TInv

(* What a suffix of the log holds. *)
LEMMA SuffixOps ==
    ASSUME NEW q \in Seq(WriteOp), NEW n \in 0..Len(q)
    PROVE  LET ops == SubSeq(q, n + 1, Len(q)) IN
           \A w : (\E j \in DOMAIN ops : ops[j] = w) <=> (\E i \in n + 1 .. Len(q) : q[i] = w)
<1> DEFINE ops == SubSeq(q, n + 1, Len(q))
<1>1. Len(q) \in Nat /\ \A i \in n + 1 .. Len(q) : q[i] \in WriteOp
    BY LenProperties, ElementOfSeq
<1>2. /\ DOMAIN ops = 1..Len(q) - n
      /\ \A j \in 1..Len(q) - n : ops[j] = q[n + j]
    BY <1>1, SubSeqProperties
<1> HIDE DEF ops
<1>3. ASSUME NEW j \in DOMAIN ops PROVE n + j \in n + 1 .. Len(q) /\ ops[j] = q[n + j]
    BY <1>1, <1>2
<1>4. ASSUME NEW i \in n + 1 .. Len(q) PROVE i - n \in DOMAIN ops /\ ops[i - n] = q[i]
  <2>1. i - n \in 1..Len(q) - n /\ n + (i - n) = i
    BY <1>1
  <2> QED
    BY <1>2, <2>1
<1>5. \A w : (\E j \in DOMAIN ops : ops[j] = w) <=> (\E i \in n + 1 .. Len(q) : q[i] = w)
    BY <1>3, <1>4
<1> QED
    BY <1>5 DEF ops

(* ROLLBACK TO: the ops kept touched none of the versions undone, and their  *)
(* rows were locked before the savepoint.                                   *)
LEMMA TInvCut ==
    ASSUME NEW t \in Txn, NEW L \in Seq(Nat), MarksAt(t, Len(L)), NEW rws, TInv(t, rws, L),
           0 \notin all_xids(t), NEW idx \in DOMAIN t.savepoints,
           NEW x, x # 0, \A r \in DOMAIN rws : ~Carries(rws[r], {x}),
           NEW z, Undone(rws, all_xids(t), UndoneOps(t, idx), z),
           NEW u, u.xid = t.xid, u.owned_xids = t.owned_xids \cup {x},
           u.writes = Truncate(t.writes, t.savepoints[idx].writes_len),
           u.savepoints = Truncate(t.savepoints, idx)
    PROVE  TInv(u, z, Truncate(L, t.savepoints[idx].lock_count))
<1> DEFINE A == all_xids(t)
           B == all_xids(u)
           q == t.writes
           h == u.writes
           wl == t.savepoints[idx].writes_len
           lc == t.savepoints[idx].lock_count
           M == Truncate(L, lc)
           sp == t.savepoints
           ops == UndoneOps(t, idx)
<1>1. \A y : y \in B <=> y \in A \/ y = x
    BY DEF all_xids
<1>2. q \in Seq(WriteOp) /\ sp \in Seq(SavepointMark)
    BY DEF Txn
<1>3. Len(sp) \in Nat /\ DOMAIN sp = 1..Len(sp) /\ idx \in 1..Len(sp) /\ Len(q) \in Nat /\ Len(L) \in Nat
    BY <1>2, LenProperties
<1>4. wl \in 0..Len(q) /\ lc \in 0..Len(L)
  <2>1. sp[idx] \in SavepointMark
    BY <1>2, <1>3, ElementOfSeq
  <2>2. wl <= Len(q) /\ lc <= Len(L)
    BY DEF MarksAt
  <2> QED
    BY <1>3, <2>1, <2>2 DEF SavepointMark
<1>5. DOMAIN h = 1..wl /\ \A i \in 1..wl : h[i] = q[i]
    BY <1>2, <1>4, TruncateDomain
<1>6. DOMAIN M = 1..lc /\ \A p \in 1..lc : M[p] = L[p]
    BY <1>4, TruncateDomain
<1>7. DOMAIN u.savepoints = 1..idx /\ \A k \in 1..idx : u.savepoints[k] = sp[k]
  <2>1. idx \in 0..Len(sp)
    BY <1>3
  <2> QED
    BY <1>2, <2>1, TruncateDomain
<1>8. DOMAIN q = 1..Len(q) /\ DOMAIN L = 1..Len(L)
    BY <1>2, LenProperties
<1>9. \A w : (\E j \in DOMAIN ops : ops[j] = w) <=> (\E i \in wl + 1 .. Len(q) : q[i] = w)
    BY <1>2, <1>4, SuffixOps DEF UndoneOps
<1>10. /\ \A r : r \in DOMAIN z <=>
            r \in DOMAIN rws /\ ~(rws[r].xmin \in A /\ \E i \in wl + 1 .. Len(q) : q[i].new = r)
       /\ \A r \in DOMAIN z : z[r].xmin = rws[r].xmin
       /\ \A r \in DOMAIN z :
            IF rws[r].xmax \in A /\ \E i \in wl + 1 .. Len(q) : q[i].old = r
            THEN z[r].xmax = 0 ELSE z[r] = rws[r]
  <2> HIDE DEF ops, q, wl
  <2>1. /\ \A r : (\E j \in DOMAIN ops : ops[j].new = r) <=> \E i \in wl + 1 .. Len(q) : q[i].new = r
        /\ \A r : (\E j \in DOMAIN ops : ops[j].old = r) <=> \E i \in wl + 1 .. Len(q) : q[i].old = r
    BY <1>9, ZenonT(40)
  <2> QED
    BY <2>1 DEF Undone, ops
<1>11. /\ 0 \notin B /\ 0 \notin A
       /\ \A r \in DOMAIN rws : rws[r].xmin # x /\ rws[r].xmax # x
    BY <1>1 DEF Carries
<1> HIDE DEF A, B, q, h, wl, lc, M, sp, ops
<1>12. Stamps(u, z, M)
  <2>1. SUFFICES ASSUME NEW r \in DOMAIN z, z[r].xmax \in B
                 PROVE  \E i \in DOMAIN h : h[i].old = r /\ (z[r].xmin \in B \/ Guarded(u, M, i, r))
    BY DEF Stamps, B, h
  <2>2. r \in DOMAIN rws /\ z[r].xmin = rws[r].xmin /\ z[r] = rws[r]
        /\ ~(rws[r].xmax \in A /\ \E i \in wl + 1 .. Len(q) : q[i].old = r)
    BY <1>10, <1>11, <2>1
  <2>3. rws[r].xmax \in A
    BY <1>1, <1>11, <2>1, <2>2
  <2>4. PICK i \in DOMAIN q : q[i].old = r /\ (rws[r].xmin \in A \/ Guarded(t, L, i, r))
    BY <2>2, <2>3 DEF TInv, Stamps, A, q
  <2>5. i \in 1..wl
    BY <1>3, <1>4, <1>8, <2>2, <2>3, <2>4
  <2>6. i \in DOMAIN h /\ h[i].old = r
    BY <1>5, <2>4, <2>5
  <2>7. ASSUME Guarded(t, L, i, r) PROVE Guarded(u, M, i, r)
    <3>1. PICK p \in DOMAIN L : /\ L[p] = r
                                /\ \A k \in DOMAIN sp : i <= sp[k].writes_len => p <= sp[k].lock_count
      BY <2>7 DEF Guarded, sp
    <3>2. p <= lc
      BY <1>3, <2>5, <3>1 DEF wl, lc, sp
    <3>3. p \in DOMAIN M /\ M[p] = r
      BY <1>3, <1>4, <1>6, <1>8, <3>1, <3>2
    <3>4. \A k \in DOMAIN u.savepoints : k \in DOMAIN sp /\ u.savepoints[k] = sp[k]
      BY <1>3, <1>7
    <3> QED
      BY <3>1, <3>3, <3>4 DEF Guarded
  <2> QED
    BY <1>1, <2>2, <2>4, <2>6, <2>7
<1>13. OwnOnly(u, z)
  <2>1. SUFFICES ASSUME NEW r \in DOMAIN z, z[r].xmin \in B
                 PROVE  z[r].xmax = 0 \/ z[r].xmax \in B
    BY DEF OwnOnly, B
  <2>2. r \in DOMAIN rws /\ rws[r].xmin \in A
    BY <1>1, <1>10, <1>11, <2>1
  <2>3. rws[r].xmax = 0 \/ rws[r].xmax \in A
    BY <2>2 DEF TInv, OwnOnly, A
  <2> QED
    BY <1>1, <1>10, <2>2, <2>3
<1>14. OpsApart(q)
    BY DEF TInv, q
<1>15. \A i \in DOMAIN q : OpHolds(q[i], A, rws)
    BY DEF TInv, OpsHold, A, q
<1>16. OpsHold(u, z)
  <2>1. SUFFICES ASSUME NEW i \in 1..wl PROVE OpHolds(q[i], B, z)
    BY <1>5 DEF OpsHold, B, h
  <2>2. i \in DOMAIN q /\ \A j \in wl + 1 .. Len(q) : j \in DOMAIN q /\ i < j
    BY <1>3, <1>4, <1>8
  <2>3. OpHolds(q[i], A, rws)
    BY <1>15, <2>2
  <2>4. ASSUME q[i].old # 0 PROVE q[i].old \in DOMAIN z /\ z[q[i].old].xmax \in B
    <3>1. q[i].old \in DOMAIN rws /\ rws[q[i].old].xmax \in A
      BY <2>3, <2>4 DEF OpHolds
    <3>2. ASSUME NEW j \in wl + 1 .. Len(q) PROVE q[j].new # q[i].old /\ q[j].old # q[i].old
      <4>1. i \in Nat /\ j \in Nat /\ i < j /\ i # j /\ ~(j < i)
        BY <1>4, <2>2
      <4> QED
        BY <1>14, <2>2, <2>4, <4>1 DEF OpsApart
    <3> QED
      <4>1. q[i].old \in DOMAIN z
        BY <1>10, <3>1, <3>2
      <4>2. z[q[i].old] = rws[q[i].old]
        BY <1>10, <3>2, <4>1
      <4> QED
        BY <1>1, <3>1, <4>1, <4>2
  <2>5. ASSUME q[i].new # 0 PROVE q[i].new \in DOMAIN z /\ z[q[i].new].xmin \in B
    <3>1. q[i].new \in DOMAIN rws /\ rws[q[i].new].xmin \in A
      BY <2>3, <2>5 DEF OpHolds
    <3>2. ASSUME NEW j \in wl + 1 .. Len(q) PROVE q[j].new # q[i].new
      <4>1. i \in Nat /\ j \in Nat /\ i < j /\ i # j
        BY <1>4, <2>2
      <4> QED
        BY <1>14, <2>2, <2>5, <4>1 DEF OpsApart
    <3> QED
      <4>1. q[i].new \in DOMAIN z
        BY <1>10, <3>1, <3>2
      <4> QED
        BY <1>1, <1>10, <3>1, <4>1
  <2> QED
    BY <2>3, <2>4, <2>5 DEF OpHolds
<1>17. OpsApart(h)
    BY <1>3, <1>4, <1>5, <1>8, <1>14 DEF OpsApart
<1>18. TInv(u, z, M)
    BY <1>12, <1>13, <1>16, <1>17 DEF TInv, h
<1> QED
    BY <1>18 DEF M, lc

(* BEGIN: nothing carries the fresh xid, and nothing is logged. *)
LEMMA TInvBegin ==
    ASSUME NEW x, NEW rws, \A r \in DOMAIN rws : ~Carries(rws[r], {x}), NEW L, NEW level
    PROVE  TInv(NewTxn(x, level), rws, L)
<1> DEFINE t == NewTxn(x, level)
<1>1. all_xids(t) = {x} /\ DOMAIN t.writes = {}
    BY DEF NewTxn, all_xids
<1> HIDE DEF t
<1>2. TInv(t, rws, L)
    BY <1>1 DEF TInv, Stamps, OwnOnly, OpsHold, OpsApart, Carries
<1> QED
    BY <1>2 DEF t

(* An undo of another transaction, whose xids are owns. *)
LEMMA UndoneForeign ==
    ASSUME NEW A, 0 \notin A, NEW owns, 0 \notin owns, \A x \in owns : x \notin A,
           NEW rws, NEW ops, NEW z, Undone(rws, owns, ops, z),
           \A r \in DOMAIN rws : rws[r].xmin \in A => rws[r].xmax = 0 \/ rws[r].xmax \in A,
           \A r \in DOMAIN rws : rws[r].xmin \in owns => rws[r].xmax = 0 \/ rws[r].xmax \in owns
    PROVE  SameFor(A, rws, z)
<1>1. ASSUME NEW r \in DOMAIN rws, Carries(rws[r], A) PROVE r \in DOMAIN z /\ z[r] = rws[r]
  <2>1. rws[r].xmin \notin owns /\ rws[r].xmax \notin owns
    BY <1>1 DEF Carries
  <2> QED
    BY <2>1 DEF Undone
<1>2. ASSUME NEW r \in DOMAIN z, Carries(z[r], A) PROVE r \in DOMAIN rws /\ z[r] = rws[r]
  <2>1. r \in DOMAIN rws /\ z[r].xmin = rws[r].xmin /\ (z[r].xmax = 0 \/ z[r] = rws[r])
    BY DEF Undone
  <2>2. CASE z[r] = rws[r]
    BY <2>1, <2>2
  <2>3. CASE z[r].xmin \in A
    BY <1>1, <2>1, <2>3 DEF Carries
  <2> QED
    BY <1>2, <2>1, <2>2, <2>3 DEF Carries
<1> QED
    BY <1>1, <1>2 DEF SameFor

-----------------------------------------------------------------------------
(* The invariant behind the action properties.                              *)

(* No version carries an xid at or above n, and none was created under 0. *)
Bounded(rws, n) ==
    \A r \in DOMAIN rws : rws[r].xmin # 0 /\ rws[r].xmin < n /\ rws[r].xmax < n

(* A pinned snapshot sees nothing of the transactions that still run. *)
PinnedOK(t, act, n) ==
    t.snapshot # NoSnapshot =>
        /\ t.level = "RR"
        /\ t.snapshot.next_xid <= n
        /\ \A x \in act : ~SeenCommitted(x, t.snapshot)

SInv ==
    /\ Bounded(rows, next_xid) /\ Bounded(disk.rows, disk.next_xid)
    /\ \A s \in Session : PinnedOK(txn[s], active, next_xid)
    /\ \A s \in Session : txn[s].xid # 0 =>
            TInv(txn[s], rows, LocksIn(lock_order, txn[s].xid))

(* No snapshot a statement uses has a running transaction as committed. *)
LEMMA SnapshotBlind ==
    ASSUME NEW t, PinnedOK(t, active, next_xid)
    PROVE  \A x \in active : ~SeenCommitted(x, stmt_snapshot(t))
    BY DEF PinnedOK, stmt_snapshot, take_snapshot, SeenCommitted

(* t, a session's transaction or a statement outside a block, shares its    *)
(* xids with no other open transaction.                                     *)
Apart(t) ==
    \A u \in Session : txn[u].xid # 0 =>
        \/ txn[u].xid = t.xid /\ \A x \in all_xids(txn[u]) : x \in all_xids(t)
        \/ txn[u].xid # t.xid /\ \A x \in all_xids(txn[u]) : x \notin all_xids(t)

(* No two open transactions share an xid. *)
LEMMA SessionApart ==
    ASSUME IInv, NEW s \in Session, txn[s].xid # 0
    PROVE  Apart(txn[s])
<1> SUFFICES ASSUME NEW u \in Session, txn[u].xid # 0
             PROVE  \/ txn[u].xid = txn[s].xid /\ \A x \in all_xids(txn[u]) : x \in all_xids(txn[s])
                    \/ /\ txn[u].xid # txn[s].xid
                       /\ \A x \in all_xids(txn[u]) : x \notin all_xids(txn[s])
    BY DEF Apart
<1>1. CASE u = s
    BY <1>1
<1>2. CASE u # s
  <2>1. \A x \in all_xids(txn[s]) : x \notin all_xids(txn[u])
    BY <1>2, DisjointXids
  <2>2. txn[s].xid \in all_xids(txn[s]) /\ txn[u].xid \in all_xids(txn[u])
    BY DEF all_xids
  <2> QED
    BY <2>1, <2>2
<1> QED
    BY <1>1, <1>2

(* The xid of a statement outside a block is nobody's yet. *)
LEMMA AutoApart ==
    ASSUME IInv
    PROVE  /\ Apart(AutoTxn) /\ AutoTxn.xid = next_xid /\ all_xids(AutoTxn) = {next_xid}
           /\ PinnedOK(AutoTxn, active, next_xid) /\ AutoTxn.level = "RC"
<1>1. /\ AutoTxn.xid = next_xid /\ all_xids(AutoTxn) = {next_xid}
      /\ AutoTxn.snapshot = NoSnapshot /\ AutoTxn.level = "RC"
    BY DEF AutoTxn, NewTxn, all_xids
<1>2. \A u \in Session : txn[u].xid # 0 => next_xid \notin all_xids(txn[u])
  <2>1. next_xid \in Nat
    BY DEF IInv, FieldTypes
  <2> QED
    BY <2>1, OpenXids
<1>3. \A u \in Session : txn[u].xid \in all_xids(txn[u])
    BY DEF all_xids
<1> QED
    BY <1>1, <1>2, <1>3 DEF Apart, PinnedOK

(* A version a statement may write carries no stamp, and was created by the *)
(* statement's own transaction or by one that is over: whoever stamped it   *)
(* and still runs has it locked or made it, whoever stamped it and is over  *)
(* makes it invisible or a write conflict.                                  *)
LEMMA WritableClean ==
    ASSUME IInv, LInv, SInv, NEW t, t.level \in {"RC", "RR"},
           PinnedOK(t, active, next_xid), Apart(t), NEW r, Writable(t, r)
    PROVE  /\ r \in DOMAIN rows /\ rows[r].xmax = 0
           /\ rows[r].xmin \in all_xids(t) \/ rows[r].xmin \notin active
<1>1. r \in DOMAIN rows /\ row_visible(rows[r], stmt_snapshot(t), all_xids(t))
    BY DEF Writable, Visible
<1>2. \A x \in active : ~SeenCommitted(x, stmt_snapshot(t))
    BY SnapshotBlind
<1>3. rows[r].xmin \in all_xids(t) \/ rows[r].xmin \notin active
    BY <1>1, <1>2 DEF row_visible
<1>4. ASSUME rows[r].xmax # 0, rows[r].xmax \in active PROVE FALSE
  <2>1. rows[r].xmax \notin all_xids(t)
    BY <1>1, <1>4 DEF row_visible
  <2>2. PICK u \in Session : txn[u].xid # 0 /\ rows[r].xmax \in all_xids(txn[u])
    BY <1>4, OwnedIsXidOwnership DEF IInv, Owned
  <2>3. txn[u].xid # t.xid /\ \A x \in all_xids(txn[u]) : x \notin all_xids(t)
    BY <2>1, <2>2 DEF Apart
  <2> DEFINE L == LocksIn(lock_order, txn[u].xid)
  <2>4. TInv(txn[u], rows, L)
    BY <2>2 DEF SInv
  <2>5. PICK i \in DOMAIN txn[u].writes :
            rows[r].xmin \in all_xids(txn[u]) \/ Guarded(txn[u], L, i, r)
    BY <1>1, <2>2, <2>4 DEF TInv, Stamps
  <2>6. CASE rows[r].xmin \in all_xids(txn[u])
    BY <1>3, <2>2, <2>3, <2>6, OpenXids
  <2>7. CASE Guarded(txn[u], L, i, r)
    <3>1. PICK p \in DOMAIN L : L[p] = r
      BY <2>7 DEF Guarded
    <3>2. txn[u].xid \in DOMAIN lock_order /\ L = lock_order[txn[u].xid]
      BY <3>1, EmptySeq DEF LocksIn
    <3>3. r \in DOMAIN row_locks /\ row_locks[r] = txn[u].xid
      BY <3>1, <3>2 DEF LInv, LockInv
    <3>4. txn[u].xid \in active
      BY <2>2, OpenXids DEF all_xids
    <3> QED
      BY <2>3, <3>3, <3>4 DEF Writable, check_row_lock
  <2> QED
    BY <2>5, <2>6, <2>7
<1>5. ASSUME rows[r].xmax # 0, rows[r].xmax \notin active PROVE FALSE
  <2>1. xid_committed(rows[r].xmax)
    BY <1>1, <1>5 DEF SInv, Bounded, xid_committed, SeenCommitted, take_snapshot
  <2>2. CASE t.level = "RR"
    BY <1>5, <2>1, <2>2 DEF Writable, check_write_conflict
  <2>3. CASE t.level = "RC"
    <3>1. stmt_snapshot(t) = take_snapshot
      BY <2>3 DEF stmt_snapshot
    <3> QED
      BY <1>1, <1>5, <2>1, <3>1 DEF row_visible, xid_committed
  <2> QED
    BY <2>2, <2>3
<1> QED
    BY <1>1, <1>3, <1>4, <1>5

-----------------------------------------------------------------------------
(* Every step keeps SInv, one part at a time.                               *)

(* A step of session s is foreign to every other transaction. *)
LEMMA StepTInv ==
    ASSUME IInv, SInv, NEW s \in Session, NEW t, txn' = [txn EXCEPT ![s] = t],
           t.xid # 0 => TInv(t, rows', LocksIn(lock_order', t.xid)),
           \A u \in Session : u # s /\ txn[u].xid # 0 => SameFor(all_xids(txn[u]), rows, rows'),
           \A x : x # txn[s].xid => LocksIn(lock_order', x) = LocksIn(lock_order, x)
    PROVE  \A u \in Session : txn'[u].xid # 0 =>
                TInv(txn'[u], rows', LocksIn(lock_order', txn'[u].xid))
<1> SUFFICES ASSUME NEW u \in Session, txn'[u].xid # 0
             PROVE  TInv(txn'[u], rows', LocksIn(lock_order', txn'[u].xid))
    OBVIOUS
<1>1. txn \in [Session -> Txn]
    BY DEF IInv, FieldTypes
<1>2. CASE u = s
    BY <1>1, <1>2
<1>3. CASE u # s
  <2>1. txn'[u] = txn[u]
    BY <1>1, <1>3
  <2>2. TInv(txn[u], rows, LocksIn(lock_order, txn[u].xid))
    BY <2>1 DEF SInv
  <2>3. txn[u].xid # txn[s].xid
    BY <1>3, <2>1, DisjointXids DEF all_xids
  <2>4. LocksIn(lock_order', txn[u].xid) = LocksIn(lock_order, txn[u].xid)
    BY <2>3
  <2>5. SameFor(all_xids(txn[u]), rows, rows')
    BY <1>3, <2>1
  <2> QED
    BY <2>1, <2>2, <2>4, <2>5, TInvForeign
<1> QED
    BY <1>2, <1>3

(* A step that touches no version of an open transaction. *)
LEMMA QuietTInv ==
    ASSUME SInv, UNCHANGED <<txn, lock_order>>,
           \A u \in Session : txn[u].xid # 0 => SameFor(all_xids(txn[u]), rows, rows')
    PROVE  \A u \in Session : txn'[u].xid # 0 =>
                TInv(txn'[u], rows', LocksIn(lock_order', txn'[u].xid))
    BY TInvForeign DEF SInv

(* Fresh xids do not disturb a pinned snapshot, retiring others neither. *)
LEMMA PinnedKept ==
    ASSUME NEW t \in Txn, NEW act, NEW n \in Nat, PinnedOK(t, act, n),
           NEW act2, \A x \in act2 : x \in act \/ x = n, NEW m \in Nat, n <= m
    PROVE  PinnedOK(t, act2, m)
<1>1. t.snapshot.next_xid \in Nat
    BY DEF Txn, Snapshot
<1> QED
    BY <1>1 DEF PinnedOK, SeenCommitted

(* The snapshots of all sessions, after a step of s. *)
LEMMA StepPinned ==
    ASSUME IInv, SInv, NEW s \in Session, NEW t, txn' = [txn EXCEPT ![s] = t],
           PinnedOK(t, active', next_xid'),
           \A x \in active' : x \in active \/ x = next_xid,
           next_xid' \in Nat, next_xid <= next_xid'
    PROVE  \A u \in Session : PinnedOK(txn'[u], active', next_xid')
<1>1. txn \in [Session -> Txn] /\ next_xid \in Nat
    BY DEF IInv, FieldTypes
<1> SUFFICES ASSUME NEW u \in Session PROVE PinnedOK(txn'[u], active', next_xid')
    OBVIOUS
<1>2. CASE u = s
    BY <1>1, <1>2
<1>3. CASE u # s
  <2>1. txn'[u] = txn[u] /\ txn[u] \in Txn /\ PinnedOK(txn[u], active, next_xid)
    BY <1>1, <1>3 DEF SInv
  <2> QED
    BY <1>1, <2>1, PinnedKept
<1> QED
    BY <1>2, <1>3

(* A step that neither opens nor ends a transaction keeps the snapshots     *)
(* blind.                                                                   *)
LEMMA QuietPinned ==
    ASSUME IInv, SInv, UNCHANGED <<txn, active>>, next_xid' \in Nat, next_xid <= next_xid'
    PROVE  \A u \in Session : PinnedOK(txn'[u], active', next_xid')
<1> SUFFICES ASSUME NEW u \in Session PROVE PinnedOK(txn'[u], active', next_xid')
    OBVIOUS
<1>1. txn[u] \in Txn /\ next_xid \in Nat /\ PinnedOK(txn[u], active, next_xid)
    BY DEF IInv, FieldTypes, SInv
<1>2. PinnedOK(txn[u], active, next_xid')
    BY <1>1, PinnedKept
<1> QED
    BY <1>2

(* A statement's transaction, pinned. *)
LEMMA StatementPinned ==
    ASSUME IInv, SInv, NEW s \in Session
    PROVE  /\ PinnedOK(Pinned(txn[s]), active, next_xid)
           /\ Pinned(txn[s]) \in Txn /\ Pinned(txn[s]).level = txn[s].level
<1> DEFINE t == txn[s]
<1>1. FieldTypes /\ t \in Txn /\ PinnedOK(t, active, next_xid) /\ next_xid \in Nat
    BY DEF IInv, FieldTypes, SInv
<1>2. Pinned(t) \in Txn
    BY <1>1, PinnedType
<1>3. Pinned(t).level = t.level /\ t.level \in {"RC", "RR"}
    BY <1>1 DEF Pinned, Txn
<1>4. CASE t.level = "RC"
    BY <1>1, <1>2, <1>4 DEF Pinned
<1>5. CASE t.level = "RR"
  <2>1. Pinned(t).snapshot = stmt_snapshot(t)
    BY <1>1, <1>5 DEF Pinned, Txn
  <2>2. \A x \in active : ~SeenCommitted(x, stmt_snapshot(t))
    BY <1>1, SnapshotBlind
  <2>3. stmt_snapshot(t).next_xid <= next_xid
    BY <1>1, <1>5 DEF stmt_snapshot, take_snapshot, PinnedOK
  <2> QED
    BY <1>2, <1>3, <1>5, <2>1, <2>2, <2>3 DEF PinnedOK
<1> QED
    BY <1>2, <1>3, <1>4, <1>5

(* The versions stay bounded when those kept keep their stamps or carry     *)
(* xids below the counter.                                                  *)
LEMMA BoundedKept ==
    ASSUME NEW rws, NEW n \in Nat, Bounded(rws, n), \A r \in DOMAIN rws : rws[r] \in RowVersion,
           NEW m \in Nat, n <= m
    PROVE  Bounded(rws, m)
    BY DEF Bounded, RowVersion

(* A write leaves no xid at or above the counter. *)
LEMMA BoundedWrite ==
    ASSUME NEW rws, NEW n, Bounded(rws, n), NEW w, NEW k, NEW x, x < n, x # 0,
           0 < n, NEW z, Wrote(rws, w, k, x, z)
    PROVE  Bounded(z, n)
    BY DEF Bounded, Wrote

(* So does an undo. *)
LEMMA BoundedUndo ==
    ASSUME NEW rws, NEW n, Bounded(rws, n), 0 < n, NEW owns, NEW ops, NEW z,
           Undone(rws, owns, ops, z)
    PROVE  Bounded(z, n)
    BY DEF Bounded, Undone

(* And VACUUM. *)
LEMMA BoundedVacuum ==
    ASSUME NEW rws, NEW n, Bounded(rws, n), NEW act, NEW snaps, NEW z,
           Vacuumed(rws, act, snaps, z)
    PROVE  Bounded(z, n)
    BY DEF Bounded, Vacuumed

(* Nothing carries the next xid. *)
LEMMA NothingCarries ==
    ASSUME FieldTypes, Bounded(rows, next_xid)
    PROVE  \A r \in DOMAIN rows : ~Carries(rows[r], {next_xid})
<1>1. next_xid \in Nat
    BY DEF FieldTypes
<1> QED
    BY <1>1 DEF Bounded, Carries

(* The types every step uses. *)
LEMMA Shapes ==
    ASSUME IInv
    PROVE  /\ FieldTypes /\ next_xid \in Nat /\ 0 < next_xid /\ next_row_id \in Nat
           /\ RowTable(rows, next_row_id) /\ 0 \notin DOMAIN rows
           /\ \A r \in DOMAIN rows : rows[r] \in RowVersion
           /\ txn \in [Session -> Txn]
           /\ lock_order \in [DOMAIN lock_order -> Seq(Nat)]
           /\ DiskImage(disk) /\ disk.next_xid \in Nat
           /\ \A r \in DOMAIN disk.rows : disk.rows[r] \in RowVersion
    BY DEF IInv, FieldTypes, RowTable, DiskImage

(* SELECT, a failing statement and FOR UPDATE pin a snapshot; FOR UPDATE    *)
(* makes the lock list longer.                                              *)
LEMMA PinSInv ==
    ASSUME IInv, SInv, NEW s \in Session, NEW r,
           exec_select(s) \/ StmtError(s) \/ (r \in DOMAIN rows /\ acquire_row_locks(s, r))
    PROVE  SInv'
<1> DEFINE p == Pinned(txn[s])
           f == [p EXCEPT !.failed = TRUE]
           x == txn[s].xid
           L == LocksIn(lock_order, x)
<1>1. /\ FieldTypes /\ txn[s] \in Txn /\ x # 0 /\ next_xid \in Nat
      /\ lock_order \in [DOMAIN lock_order -> Seq(Nat)]
      /\ \A q \in DOMAIN rows : q \in Nat
    BY DEF IInv, FieldTypes, RowTable, exec_select, StmtError, acquire_row_locks, Running, Open
<1>2. p \in Txn /\ PinnedOK(p, active, next_xid)
    BY StatementPinned
<1>3. PICK t \in {p, f} : txn' = [txn EXCEPT ![s] = t]
    BY DEF exec_select, StmtError, acquire_row_locks
<1>4. /\ p.xid = x /\ p.owned_xids = txn[s].owned_xids
      /\ p.savepoints = txn[s].savepoints /\ p.writes = txn[s].writes
    BY <1>1, PinnedFields
<1>5. /\ t.xid = x /\ t.owned_xids = txn[s].owned_xids
      /\ t.savepoints = txn[s].savepoints /\ t.writes = txn[s].writes
      /\ t.snapshot = p.snapshot /\ t.level = p.level
  <2> HIDE DEF p, x
  <2> QED
    BY <1>2, <1>3, <1>4 DEF Txn
<1>6. UNCHANGED <<next_xid, active, rows, disk>>
    BY DEF exec_select, StmtError, acquire_row_locks
<1>7. L \in Seq(Nat) /\ Len(L) \in Nat /\ DOMAIN L = 1..Len(L)
    BY <1>1, LocksLen, LenProperties
<1>8. \/ lock_order' = lock_order
      \/ r \in Nat /\ lock_order' = With(lock_order, x, Append(L, r))
    BY <1>1 DEF exec_select, StmtError, acquire_row_locks, Locks, LocksIn
<1>9. \A y : y # x => LocksIn(lock_order', y) = LocksIn(lock_order, y)
    BY <1>8 DEF With, LocksIn
<1> HIDE DEF p, f, L, x
<1>10. \/ LocksIn(lock_order', x) = L
       \/ r \in Nat /\ LocksIn(lock_order', x) = Append(L, r)
  <2>1. CASE lock_order' = lock_order
    BY <2>1 DEF L, x
  <2>2. CASE r \in Nat /\ lock_order' = With(lock_order, x, Append(L, r))
    BY <2>2 DEF With, LocksIn
  <2> QED
    BY <1>8, <2>1, <2>2
<1>11. \A i \in DOMAIN L : i \in DOMAIN LocksIn(lock_order', x) /\ LocksIn(lock_order', x)[i] = L[i]
  <2>1. CASE LocksIn(lock_order', x) = L
    BY <2>1
  <2>2. CASE r \in Nat /\ LocksIn(lock_order', x) = Append(L, r)
    <3>1. /\ DOMAIN Append(L, r) = 1..Len(L) + 1
          /\ \A i \in 1..Len(L) : Append(L, r)[i] = L[i]
      BY <1>7, <2>2, AppendDomain
    <3> QED
      BY <1>7, <2>2, <3>1
  <2> QED
    BY <1>10, <2>1, <2>2
<1>12. TInv(t, rows', LocksIn(lock_order', t.xid))
  <2>1. TInv(txn[s], rows, L)
    BY <1>1 DEF SInv, L, x
  <2>2. TInv(t, rows, L)
    BY <1>5, <2>1, TInvSameLog DEF x
  <2>3. TInv(t, rows, LocksIn(lock_order', x))
    BY <1>11, <2>2, TInvLonger
  <2> QED
    BY <1>5, <1>6, <2>3
<1>13. PinnedOK(t, active', next_xid')
    BY <1>2, <1>5, <1>6 DEF PinnedOK
<1>14. \A u \in Session : PinnedOK(txn'[u], active', next_xid')
  <2>1. \A y \in active' : y \in active \/ y = next_xid
    BY <1>6
  <2>2. next_xid' \in Nat /\ next_xid <= next_xid'
    BY <1>1, <1>6
  <2> QED
    BY <1>3, <1>13, <2>1, <2>2, StepPinned
<1>15. \A u \in Session : txn'[u].xid # 0 =>
            TInv(txn'[u], rows', LocksIn(lock_order', txn'[u].xid))
  <2>1. \A u \in Session : SameFor(all_xids(txn[u]), rows, rows')
    BY <1>6 DEF SameFor
  <2> QED
    BY <1>3, <1>9, <1>12, <2>1, StepTInv DEF x
<1> QED
    BY <1>6, <1>14, <1>15 DEF SInv

(* The key k of what w creates under t: no other version of that key is     *)
(* visible to t or its own, and an UPDATE keeps the key unless the clients  *)
(* change keys.                                                             *)
Keyed(w, k, t) ==
    /\ w.new # 0 => ~unique_violation(k, {w.old}, stmt_snapshot(t), all_xids(t))
    /\ w.op = "insert" => w.old = 0
    /\ w.op = "delete" => w.new = 0
    /\ w.op = "update" => w.old # 0 /\ ("rekey" \in Client \/ k = rows[w.old].key)

(* The ops the statements log are such ops. *)
LEMMA OpsKeyed ==
    ASSUME 0 \notin DOMAIN rows, NEW t, NEW k, NEW r
    PROVE  /\ InsertAllowed(t, k) => Keyed(InsertRow(next_row_id), k, t)
           /\ Keyed(DeleteRow(r), rows[r].key, t)
           /\ UpdateAllowed(t, r, k) => Keyed(UpdateRow(r, next_row_id), k, t)
<1>1. DOMAIN rows \ {} = DOMAIN rows \ {0}
    OBVIOUS
<1>2. ASSUME InsertAllowed(t, k) PROVE Keyed(InsertRow(next_row_id), k, t)
    BY <1>1, <1>2 DEF InsertAllowed, InsertRow, Keyed, unique_violation
<1>3. Keyed(DeleteRow(r), rows[r].key, t)
    BY DEF DeleteRow, Keyed
<1>4. ASSUME UpdateAllowed(t, r, k), r # 0 PROVE Keyed(UpdateRow(r, next_row_id), k, t)
    BY <1>4 DEF UpdateAllowed, UpdateRow, Keyed
<1>5. UpdateAllowed(t, r, k) => r # 0
    BY DEF UpdateAllowed, Writable, Visible
<1> QED
    BY <1>2, <1>3, <1>4, <1>5

(* What a write of session s does: it logs w and stamps and creates         *)
(* versions under one of its own xids, and the version it stamps is a clean *)
(* one that is its own or that it has locked.                               *)
WriteEffect(s, w, k, x) ==
    /\ w \in WriteOp /\ w.prev = 0 /\ x \in all_xids(txn[s])
    /\ Wrote(rows, w, k, x, rows') /\ Keyed(w, k, txn[s])
    /\ w.old # 0 => /\ w.old \in DOMAIN rows /\ rows[w.old].xmax = 0
                    /\ rows[w.old].xmin \in all_xids(txn[s]) \/ rows[w.old].xmin \notin active
                    /\ \/ rows[w.old].xmin \in all_xids(txn[s])
                       \/ w.old \in DOMAIN row_locks /\ row_locks[w.old] = txn[s].xid
                    /\ w.old \in DOMAIN row_locks => row_locks[w.old] = txn[s].xid
    /\ txn'[s].writes = Append(txn[s].writes, w)

(* INSERT, DELETE and UPDATE in a block are such writes. *)
LEMMA DmlEffect ==
    ASSUME "unlocked" \notin Client, IInv, AInv, LInv, SInv, NEW s \in Session, NEW k, NEW r,
           \/ exec_insert(s, k)
           \/ r \in DOMAIN rows /\ (exec_delete(s, r) \/ exec_update(s, r, k))
    PROVE  \E w, k2, x : Write(s, w, k2) /\ WriteEffect(s, w, k2, x) /\ w.new \in {0, next_row_id}
<1> DEFINE t == txn[s]
           x == write_xid(t)
<1>1. /\ FieldTypes /\ t \in Txn /\ t.xid # 0 /\ next_row_id \in Nat /\ RowTable(rows, next_row_id)
      /\ txn \in [Session -> Txn] /\ 0 \notin DOMAIN rows
    BY Shapes DEF exec_insert, exec_delete, exec_update, Running, Open
<1>2. t.level \in {"RC", "RR"} /\ PinnedOK(t, active, next_xid) /\ Apart(t)
    BY <1>1, SessionApart DEF Txn, SInv
<1>3. x \in all_xids(t)
    BY <1>1, WriteXid DEF AInv
<1>4. \A q \in DOMAIN row_locks : row_locks[q] \in active
  <2> SUFFICES ASSUME NEW q \in DOMAIN row_locks PROVE row_locks[q] \in active
    OBVIOUS
  <2>1. PICK u \in Session : txn[u].xid # 0 /\ txn[u].xid = row_locks[q]
    BY DEF LInv, LockInv
  <2>2. txn[u].xid \in all_xids(txn[u])
    BY DEF all_xids
  <2> QED
    BY <2>1, <2>2, OpenXids
<1>5. ASSUME NEW q, Writable(t, q), MayWrite(t, q)
      PROVE  /\ q \in DOMAIN rows /\ rows[q].xmax = 0
             /\ rows[q].xmin \in all_xids(t) \/ rows[q].xmin \notin active
             /\ rows[q].xmin \in all_xids(t) \/ (q \in DOMAIN row_locks /\ row_locks[q] = t.xid)
             /\ q \in DOMAIN row_locks => row_locks[q] = t.xid
  <2>1. /\ q \in DOMAIN rows /\ rows[q].xmax = 0
        /\ rows[q].xmin \in all_xids(t) \/ rows[q].xmin \notin active
    BY <1>2, <1>5, WritableClean
  <2>2. q \in DOMAIN row_locks => row_locks[q] = t.xid
    BY <1>4, <1>5 DEF Writable, check_row_lock
  <2>3. rows[q].xmin \in all_xids(t) \/ (q \in DOMAIN row_locks /\ row_locks[q] = t.xid)
    BY <1>5, Zenon DEF MayWrite
  <2> QED
    BY <2>1, <2>2, <2>3
<1>6. ASSUME NEW w \in WriteOp, w.new \in {0, next_row_id}, NEW k2, Write(s, w, k2)
      PROVE  /\ Wrote(rows, w, k2, x, rows')
             /\ txn'[s].writes = Append(t.writes, w)
  <2>1. rows' = Apply(rows, w, k2, x)
    BY <1>6 DEF Write
  <2>2. Wrote(rows, w, k2, x, rows')
    BY <1>1, <1>6, <2>1, ApplyWrites
  <2> DEFINE p == Pinned(t)
  <2>3. p \in Txn /\ p.writes = t.writes
    BY <1>1, PinnedType, PinnedFields
  <2>4. txn'[s] = [p EXCEPT !.writes = Append(@, w)]
    BY <1>1, <1>6 DEF Write
  <2> HIDE DEF p
  <2>5. txn'[s].writes = Append(p.writes, w)
    BY <2>3, <2>4 DEF Txn
  <2> QED
    BY <2>2, <2>3, <2>5
<1> HIDE DEF t, x
<1>7. CASE exec_insert(s, k)
  <2> DEFINE w == InsertRow(next_row_id)
  <2>1. w \in WriteOp /\ w.new = next_row_id /\ w.old = 0 /\ w.prev = 0
    BY <1>1, OpTypes DEF InsertRow
  <2>2. Write(s, w, k) /\ Keyed(w, k, t)
    BY <1>1, <1>7, OpsKeyed DEF exec_insert, t
  <2> HIDE DEF w
  <2>3. WriteEffect(s, w, k, x)
    BY <1>3, <1>6, <2>1, <2>2 DEF WriteEffect, t
  <2> QED
    BY <2>1, <2>2, <2>3
<1>8. CASE r \in DOMAIN rows /\ exec_delete(s, r)
  <2> DEFINE w == DeleteRow(r)
  <2>1. Writable(t, r) /\ MayWrite(t, r)
    BY <1>8 DEF exec_delete, DeleteAllowed, t
  <2>2. w \in WriteOp /\ w.new = 0 /\ w.old = r /\ w.prev = 0
    BY <1>1, <1>5, <1>8, <2>1, OpTypes DEF DeleteRow
  <2>3. Write(s, w, rows[r].key) /\ Keyed(w, rows[r].key, t)
    BY <1>1, <1>8, OpsKeyed DEF exec_delete
  <2> HIDE DEF w
  <2>4. WriteEffect(s, w, rows[r].key, x)
    BY <1>3, <1>5, <1>6, <2>1, <2>2, <2>3 DEF WriteEffect, t
  <2> QED
    BY <2>2, <2>3, <2>4
<1>9. CASE r \in DOMAIN rows /\ exec_update(s, r, k)
  <2> DEFINE w == UpdateRow(r, next_row_id)
  <2>1. Writable(t, r) /\ MayWrite(t, r)
    BY <1>9 DEF exec_update, UpdateAllowed, t
  <2>2. w \in WriteOp /\ w.new = next_row_id /\ w.old = r /\ w.prev = 0
    BY <1>1, <1>5, <1>9, <2>1, OpTypes DEF UpdateRow
  <2>3. Write(s, w, k) /\ Keyed(w, k, t)
    BY <1>1, <1>9, OpsKeyed DEF exec_update, t
  <2> HIDE DEF w
  <2>4. WriteEffect(s, w, k, x)
    BY <1>3, <1>5, <1>6, <2>1, <2>2, <2>3 DEF WriteEffect, t
  <2> QED
    BY <2>2, <2>3, <2>4
<1> QED
    BY <1>7, <1>8, <1>9

(* A write is foreign to every other open transaction. *)
LEMMA WriteForeign ==
    ASSUME IInv, NEW s \in Session, Open(s), NEW w, NEW k, NEW x, WriteEffect(s, w, k, x),
           NEW v \in Session, v # s, txn[v].xid # 0
    PROVE  SameFor(all_xids(txn[v]), rows, rows')
<1> DEFINE A == all_xids(txn[v])
           O == all_xids(txn[s])
<1>1. /\ x \in O /\ Wrote(rows, w, k, x, rows') /\ 0 \notin DOMAIN rows /\ 0 \notin active
      /\ w.old # 0 => rows[w.old].xmax = 0 /\ (rows[w.old].xmin \in O \/ rows[w.old].xmin \notin active)
    BY Shapes DEF WriteEffect, FieldTypes
<1>2. \A y \in A : y \in active
    BY OpenXids
<1>3. \A y \in O : y \notin A
    BY DisjointXids DEF Open
<1> HIDE DEF A, O
<1>4. 0 \notin A /\ x \notin A
    BY <1>1, <1>2, <1>3
<1>5. w.old \in DOMAIN rows => ~Carries(rows[w.old], A)
    BY <1>1, <1>2, <1>3, <1>4 DEF Carries
<1>6. SameFor(A, rows, rows')
    BY <1>1, <1>4, <1>5, WroteForeign
<1> QED
    BY <1>6 DEF A

(* A write keeps the invariant: it is foreign to every other transaction.   *)
LEMMA WriteSInv ==
    ASSUME IInv, LInv, SInv, NEW s \in Session, Open(s), NEW w, NEW k, NEW x,
           Write(s, w, k), WriteEffect(s, w, k, x)
    PROVE  SInv'
<1> DEFINE t == txn[s]
           p == Pinned(t)
           u == [p EXCEPT !.writes = Append(@, w)]
           L == LocksIn(lock_order, t.xid)
<1>1. /\ FieldTypes /\ t \in Txn /\ t.xid # 0 /\ next_xid \in Nat /\ 0 < next_xid
      /\ 0 \notin DOMAIN rows
    BY Shapes DEF Open
<1>2. p \in Txn /\ PinnedOK(p, active, next_xid)
    BY StatementPinned
<1>3. /\ p.xid = t.xid /\ p.owned_xids = t.owned_xids
      /\ p.savepoints = t.savepoints /\ p.writes = t.writes
    BY <1>1, PinnedFields
<1>4. /\ txn' = [txn EXCEPT ![s] = u]
      /\ UNCHANGED <<next_xid, active, lock_order, disk>>
    BY DEF Write
<1>5. /\ u.xid = t.xid /\ u.owned_xids = t.owned_xids
      /\ u.savepoints = t.savepoints /\ u.writes = Append(t.writes, w)
      /\ u.snapshot = p.snapshot /\ u.level = p.level
  <2> HIDE DEF p, t
  <2> QED
    BY <1>2, <1>3 DEF Txn
<1> HIDE DEF p, u
<1>6. \A y \in all_xids(t) : y \in active /\ y \in Nat /\ y < next_xid /\ y # 0
  <2>1. 0 \notin active
    BY <1>1 DEF FieldTypes
  <2> QED
    BY <1>1, <2>1, OpenXids
<1>7. /\ w \in WriteOp /\ w.prev = 0 /\ x \in all_xids(t) /\ Wrote(rows, w, k, x, rows')
      /\ w.old # 0 => /\ w.old \in DOMAIN rows /\ rows[w.old].xmax = 0
                      /\ rows[w.old].xmin \in all_xids(t) \/ rows[w.old].xmin \notin active
                      /\ rows[w.old].xmin \in all_xids(t) \/ \E i \in DOMAIN L : L[i] = w.old
  <2>1. ASSUME w.old \in DOMAIN row_locks, row_locks[w.old] = t.xid
        PROVE  \E i \in DOMAIN L : L[i] = w.old
    BY <2>1 DEF LInv, LockInv, LocksIn
  <2> QED
    BY <2>1 DEF WriteEffect
<1>8. TInv(u, rows', L)
  <2>1. MarksAt(t, Len(L)) /\ TInv(t, rows, L)
    BY <1>1, MarkedIsSavepointMarks DEF IInv, Marked, SInv
  <2>2. 0 \notin all_xids(t)
    BY <1>6
  <2> HIDE DEF t, L
  <2> QED
    BY <1>1, <1>5, <1>7, <2>1, <2>2, TInvWrite
<1>9. ASSUME NEW v \in Session, v # s, txn[v].xid # 0
      PROVE  SameFor(all_xids(txn[v]), rows, rows')
    BY <1>9, WriteForeign
<1>10. PinnedOK(u, active', next_xid')
    BY <1>2, <1>4, <1>5 DEF PinnedOK
<1>11. \A v \in Session : PinnedOK(txn'[v], active', next_xid')
  <2>1. \A y \in active' : y \in active \/ y = next_xid
    BY <1>1, <1>4, <1>10
  <2>2. next_xid' \in Nat /\ next_xid <= next_xid'
    BY <1>1, <1>4, <1>10
  <2> QED
    BY <1>1, <1>4, <1>10, <2>1, <2>2, StepPinned
<1>12. \A v \in Session : txn'[v].xid # 0 =>
            TInv(txn'[v], rows', LocksIn(lock_order', txn'[v].xid))
  <2>1. u.xid # 0 => TInv(u, rows', LocksIn(lock_order', u.xid))
    BY <1>4, <1>5, <1>8
  <2> QED
    BY <1>4, <1>9, <2>1, StepTInv
<1>13. Bounded(rows', next_xid')
    BY <1>1, <1>4, <1>6, <1>7, BoundedWrite DEF SInv
<1> QED
    BY <1>4, <1>11, <1>12, <1>13 DEF SInv

(* BEGIN: nothing carries the fresh xid. *)
LEMMA BeginSInv ==
    ASSUME IInv, SInv, NEW s \in Session, NEW level \in Level, txn_begin(s, level)
    PROVE  SInv'
<1> DEFINE t == NewTxn(next_xid, level)
<1>1. /\ txn' = [txn EXCEPT ![s] = t] /\ next_xid' = next_xid + 1
      /\ active' = active \cup {next_xid} /\ UNCHANGED <<rows, lock_order, disk>>
    BY DEF txn_begin
<1>2. FieldTypes /\ next_xid \in Nat /\ \A r \in DOMAIN rows : rows[r] \in RowVersion
    BY Shapes
<1>3. \A r \in DOMAIN rows : ~Carries(rows[r], {next_xid})
    BY <1>2, NothingCarries DEF SInv
<1>4. t.snapshot = NoSnapshot
    BY DEF NewTxn
<1>5. \A L : TInv(t, rows, L)
    BY <1>3, TInvBegin
<1> HIDE DEF t
<1>6. \A u \in Session : PinnedOK(txn'[u], active', next_xid')
  <2>1. \A y \in active' : y \in active \/ y = next_xid
    BY <1>1, <1>2, <1>4
  <2>2. next_xid' \in Nat /\ next_xid <= next_xid'
    BY <1>1, <1>2, <1>4
  <2>3. \A act, n : PinnedOK(t, act, n)
    BY <1>1, <1>2, <1>4 DEF PinnedOK
  <2> QED
    BY <1>1, <1>2, <1>4, <2>1, <2>2, <2>3, StepPinned
<1>7. \A u \in Session : txn'[u].xid # 0 =>
            TInv(txn'[u], rows', LocksIn(lock_order', txn'[u].xid))
  <2>1. \A u \in Session : SameFor(all_xids(txn[u]), rows, rows')
    BY <1>1 DEF SameFor
  <2>2. t.xid # 0 => TInv(t, rows', LocksIn(lock_order', t.xid))
    BY <1>1, <1>5
  <2> QED
    BY <1>1, <2>1, <2>2, StepTInv
<1>8. Bounded(rows', next_xid')
    BY <1>1, <1>2, BoundedKept DEF SInv
<1> QED
    BY <1>1, <1>6, <1>7, <1>8 DEF SInv

(* SAVEPOINT: a new mark above everything logged and locked so far. *)
LEMMA SavepointSInv ==
    ASSUME IInv, SInv, NEW s \in Session, txn_savepoint(s)
    PROVE  SInv'
<1> DEFINE t == txn[s]
           L == LocksIn(lock_order, t.xid)
           m == [writes_len |-> Len(t.writes), lock_count |-> Len(L)]
           u == [t EXCEPT !.savepoints = Append(t.savepoints, m),
                          !.sub_xids = Append(t.sub_xids, next_xid),
                          !.owned_xids = t.owned_xids \cup {next_xid}]
<1>1. /\ txn' = [txn EXCEPT ![s] = u] /\ next_xid' = next_xid + 1
      /\ active' = active \cup {next_xid} /\ UNCHANGED <<rows, lock_order, disk>>
    BY DEF txn_savepoint, Locks, LocksIn
<1>2. /\ FieldTypes /\ next_xid \in Nat /\ \A r \in DOMAIN rows : rows[r] \in RowVersion
      /\ t \in Txn /\ t.xid # 0 /\ lock_order \in [DOMAIN lock_order -> Seq(Nat)]
    BY Shapes DEF txn_savepoint, Running, Open
<1>3. \A r \in DOMAIN rows : ~Carries(rows[r], {next_xid})
    BY <1>2, NothingCarries DEF SInv
<1>4. /\ u.xid = t.xid /\ u.owned_xids = t.owned_xids \cup {next_xid}
      /\ u.writes = t.writes /\ u.savepoints = Append(t.savepoints, m)
      /\ u.snapshot = t.snapshot /\ u.level = t.level
    BY <1>2 DEF Txn
<1>5. L \in Seq(Nat) /\ TInv(t, rows, L)
    BY <1>2, LocksLen DEF SInv
<1> HIDE DEF t, u, L
<1>6. TInv(u, rows, L)
    BY <1>2, <1>3, <1>4, <1>5, TInvPush
<1>7. PinnedOK(u, active', next_xid')
  <2>1. PinnedOK(t, active, next_xid)
    BY DEF SInv, t
  <2>2. PinnedOK(t, active', next_xid')
    BY <1>1, <1>2, <2>1, PinnedKept
  <2> QED
    BY <1>4, <2>2 DEF PinnedOK
<1>8. \A v \in Session : PinnedOK(txn'[v], active', next_xid')
  <2>1. \A y \in active' : y \in active \/ y = next_xid
    BY <1>1, <1>2, <1>7
  <2>2. next_xid' \in Nat /\ next_xid <= next_xid'
    BY <1>1, <1>2, <1>7
  <2> QED
    BY <1>1, <1>2, <1>7, <2>1, <2>2, StepPinned
<1>9. \A v \in Session : txn'[v].xid # 0 =>
            TInv(txn'[v], rows', LocksIn(lock_order', txn'[v].xid))
  <2>1. \A v \in Session : SameFor(all_xids(txn[v]), rows, rows')
    BY <1>1 DEF SameFor
  <2>2. u.xid # 0 => TInv(u, rows', LocksIn(lock_order', u.xid))
    BY <1>1, <1>4, <1>6 DEF L
  <2> QED
    BY <1>1, <2>1, <2>2, StepTInv
<1>10. Bounded(rows', next_xid')
    BY <1>1, <1>2, BoundedKept DEF SInv
<1> QED
    BY <1>1, <1>8, <1>9, <1>10 DEF SInv

(* RELEASE drops marks and the scopes above them, nothing else.             *)
LEMMA ReleaseSInv ==
    ASSUME IInv, SInv, NEW s \in Session, NEW idx, txn_release(s, idx)
    PROVE  SInv'
<1> DEFINE t == txn[s]
           c == idx - 1
           u == [t EXCEPT !.savepoints = Truncate(t.savepoints, c),
                          !.sub_xids = Truncate(t.sub_xids, c)]
<1>1. /\ FieldTypes /\ t \in Txn /\ t.xid # 0 /\ idx \in DOMAIN t.savepoints
      /\ UNCHANGED <<next_xid, active, rows, disk, lock_order>> /\ next_xid \in Nat
    BY Shapes DEF txn_release, Running, Open, engine
<1>2. txn' = [txn EXCEPT ![s] = u]
    BY <1>1 DEF txn_release, Txn
<1>3. t.savepoints \in Seq(SavepointMark)
    BY <1>1 DEF Txn
<1>4. c \in 0..Len(t.savepoints) /\ DOMAIN t.savepoints = 1..Len(t.savepoints)
      /\ Len(t.savepoints) \in Nat
    BY <1>1, <1>3, LenProperties
<1> HIDE DEF c
<1>5. /\ u.xid = t.xid /\ u.writes = t.writes /\ u.owned_xids = t.owned_xids
      /\ u.savepoints = Truncate(t.savepoints, c)
      /\ u.snapshot = t.snapshot /\ u.level = t.level
  <2> HIDE DEF t
  <2> QED
    BY <1>1 DEF Txn
<1> HIDE DEF u
<1>6. \A k \in DOMAIN u.savepoints : k \in DOMAIN t.savepoints /\ u.savepoints[k] = t.savepoints[k]
    BY <1>3, <1>4, <1>5, TruncateDomain
<1>7. TInv(u, rows, LocksIn(lock_order, t.xid))
  <2>1. TInv(t, rows, LocksIn(lock_order, t.xid))
    BY <1>1 DEF SInv
  <2> QED
    BY <1>5, <1>6, <2>1, TInvFewerMarks
<1>8. PinnedOK(u, active', next_xid')
    BY <1>1, <1>5 DEF PinnedOK, SInv
<1>9. \A v \in Session : PinnedOK(txn'[v], active', next_xid')
  <2>1. \A y \in active' : y \in active \/ y = next_xid
    BY <1>1, <1>2, <1>8
  <2>2. next_xid' \in Nat /\ next_xid <= next_xid'
    BY <1>1, <1>2, <1>8
  <2> QED
    BY <1>1, <1>2, <1>8, <2>1, <2>2, StepPinned
<1>10. \A v \in Session : txn'[v].xid # 0 =>
            TInv(txn'[v], rows', LocksIn(lock_order', txn'[v].xid))
  <2>1. \A v \in Session : SameFor(all_xids(txn[v]), rows, rows')
    BY <1>1 DEF SameFor
  <2>2. u.xid # 0 => TInv(u, rows', LocksIn(lock_order', u.xid))
    BY <1>1, <1>5, <1>7
  <2> QED
    BY <1>1, <1>2, <2>1, <2>2, StepTInv
<1> QED
    BY <1>1, <1>9, <1>10 DEF SInv

(* An undo of session s is foreign to every other open transaction: nobody  *)
(* else has stamped what s created, and s has stamped nothing of theirs.    *)
LEMMA UndoForeign ==
    ASSUME IInv, SInv, NEW s \in Session, txn[s].xid # 0,
           NEW ops, NEW z, Undone(rows, all_xids(txn[s]), ops, z),
           NEW v \in Session, v # s, txn[v].xid # 0
    PROVE  SameFor(all_xids(txn[v]), rows, z)
<1> DEFINE A == all_xids(txn[v])
           O == all_xids(txn[s])
<1>1. 0 \notin A /\ 0 \notin O
    BY OpenXids, Shapes DEF FieldTypes
<1>2. \A x \in O : x \notin A
    BY DisjointXids
<1>3. /\ \A r \in DOMAIN rows : rows[r].xmin \in A => rows[r].xmax = 0 \/ rows[r].xmax \in A
      /\ \A r \in DOMAIN rows : rows[r].xmin \in O => rows[r].xmax = 0 \/ rows[r].xmax \in O
    BY DEF SInv, TInv, OwnOnly
<1> HIDE DEF A, O
<1>4. SameFor(A, rows, z)
    BY <1>1, <1>2, <1>3, UndoneForeign DEF O
<1> QED
    BY <1>4 DEF A

(* ROLLBACK TO undoes the ops after the savepoint, and the stamps they left  *)
(* become 0.                                                                *)
LEMMA RollbackToEffect ==
    ASSUME IInv, SInv, NEW s \in Session, NEW idx, txn_rollback_to(s, idx)
    PROVE  Undone(rows, all_xids(txn[s]), UndoneOps(txn[s], idx), rows')
<1> DEFINE t == txn[s]
           ops == UndoneOps(t, idx)
           n == t.savepoints[idx].writes_len
<1>1. /\ t \in Txn /\ t.xid # 0 /\ next_row_id \in Nat /\ RowTable(rows, next_row_id)
      /\ idx \in DOMAIN t.savepoints
    BY Shapes DEF txn_rollback_to, Open
<1>2. t.writes \in Seq(WriteOp) /\ t.savepoints \in Seq(SavepointMark)
    BY <1>1 DEF Txn
<1>3. n \in 0..Len(t.writes) /\ Len(t.writes) \in Nat
  <2>1. MarksAt(t, Len(LocksIn(lock_order, t.xid)))
    BY <1>1, MarkedIsSavepointMarks DEF IInv, Marked
  <2>2. t.savepoints[idx] \in SavepointMark
    BY <1>1, <1>2, ElementOfSeq, LenProperties
  <2>3. Len(t.writes) \in Nat
    BY <1>2, LenProperties
  <2> QED
    BY <1>1, <2>1, <2>2, <2>3 DEF MarksAt, SavepointMark
<1>4. ops \in Seq(WriteOp)
    BY <1>2, <1>3, SuffixSeq DEF UndoneOps
<1>5. \A w : (\E j \in DOMAIN ops : ops[j] = w) <=> (\E i \in n + 1 .. Len(t.writes) : t.writes[i] = w)
    BY <1>2, <1>3, SuffixOps DEF UndoneOps
<1>6. \A i \in DOMAIN t.writes : t.writes[i].prev = 0
    BY <1>1 DEF SInv, TInv, OpsHold, OpHolds
<1>7. DOMAIN t.writes = 1..Len(t.writes)
    BY <1>2, LenProperties
<1> HIDE DEF ops, n
<1>8. \A j \in DOMAIN ops : ops[j].prev = 0
    BY <1>3, <1>5, <1>6, <1>7
<1>9. rows' = undo_all(rows, all_xids(t), ops)
    BY DEF txn_rollback_to, ops
<1> QED
    BY <1>1, <1>4, <1>8, <1>9, UndoUndoes DEF ops

(* ROLLBACK TO.                                                             *)
LEMMA RollbackToSInv ==
    ASSUME IInv, SInv, NEW s \in Session, NEW idx, txn_rollback_to(s, idx)
    PROVE  SInv'
<1> DEFINE t == txn[s]
           lc == t.savepoints[idx].lock_count
           L == LocksIn(lock_order, t.xid)
           u == [t EXCEPT !.writes = Truncate(t.writes, t.savepoints[idx].writes_len),
                          !.savepoints = Truncate(t.savepoints, idx),
                          !.sub_xids = Append(Truncate(t.sub_xids, idx - 1), next_xid),
                          !.owned_xids = t.owned_xids \cup {next_xid},
                          !.failed = FALSE]
<1>1. /\ FieldTypes /\ next_xid \in Nat /\ 0 < next_xid /\ t \in Txn /\ t.xid # 0
      /\ idx \in DOMAIN t.savepoints /\ lock_order \in [DOMAIN lock_order -> Seq(Nat)]
      /\ \A r \in DOMAIN rows : rows[r] \in RowVersion
    BY Shapes DEF txn_rollback_to, Open
<1>2. /\ txn' = [txn EXCEPT ![s] = u]
      /\ next_xid' = next_xid + 1 /\ active' = active \cup {next_xid}
      /\ lock_order' = KeptOrder(t.xid, lc) /\ UNCHANGED disk
    BY DEF txn_rollback_to
<1>3. /\ u.xid = t.xid /\ u.owned_xids = t.owned_xids \cup {next_xid}
      /\ u.writes = Truncate(t.writes, t.savepoints[idx].writes_len)
      /\ u.savepoints = Truncate(t.savepoints, idx)
      /\ u.snapshot = t.snapshot /\ u.level = t.level
  <2> HIDE DEF t
  <2> QED
    BY <1>1 DEF Txn
<1>4. /\ L \in Seq(Nat) /\ MarksAt(t, Len(L)) /\ TInv(t, rows, L) /\ 0 \notin all_xids(t)
  <2>1. 0 \notin all_xids(t)
    BY <1>1, OpenXids DEF FieldTypes
  <2> QED
    BY <1>1, <2>1, LocksLen, MarkedIsSavepointMarks DEF IInv, Marked, SInv
<1>5. \A r \in DOMAIN rows : ~Carries(rows[r], {next_xid})
    BY <1>1, NothingCarries DEF SInv
<1>6. Undone(rows, all_xids(t), UndoneOps(t, idx), rows')
    BY RollbackToEffect
<1>7. /\ \A x : x # t.xid => LocksIn(lock_order', x) = LocksIn(lock_order, x)
      /\ LocksIn(lock_order', t.xid) = Truncate(L, lc)
  <2>1. lock_order' = [x \in DOMAIN lock_order |->
                         IF x = t.xid THEN Truncate(lock_order[x], lc) ELSE lock_order[x]]
    BY <1>2 DEF KeptOrder
  <2>2. CASE t.xid \in DOMAIN lock_order
    <3> HIDE DEF t, lc
    <3> QED
      BY <2>1, <2>2 DEF LocksIn, L
  <2>3. CASE t.xid \notin DOMAIN lock_order
    <3>1. L = <<>> /\ LocksIn(lock_order', t.xid) = <<>>
      BY <2>1, <2>3 DEF LocksIn
    <3>2. lc = 0
      <4>1. t.savepoints \in Seq(SavepointMark)
        BY <1>1 DEF Txn
      <4>2. t.savepoints[idx] \in SavepointMark
        BY <1>1, <4>1, ElementOfSeq, LenProperties
      <4>3. lc <= 0
        BY <1>1, <1>4, <3>1, EmptySeq DEF MarksAt
      <4> QED
        BY <4>2, <4>3 DEF SavepointMark
    <3>3. Truncate(<<>>, 0) = <<>>
      BY DEF Truncate
    <3> QED
      BY <2>1, <2>3, <3>1, <3>2, <3>3 DEF LocksIn
  <2> QED
    BY <2>2, <2>3
<1> HIDE DEF u, t, L, lc
<1>8. TInv(u, rows', Truncate(L, lc))
  <2>1. next_xid # 0
    BY <1>1
  <2>2. TInv(u, rows', Truncate(L, t.savepoints[idx].lock_count))
    BY <1>1, <1>3, <1>4, <1>5, <1>6, <2>1, TInvCut
  <2> QED
    BY <2>2 DEF lc
<1>9. PinnedOK(u, active', next_xid')
  <2>1. PinnedOK(t, active, next_xid)
    BY DEF SInv, t
  <2>2. PinnedOK(t, active', next_xid')
    BY <1>1, <1>2, <2>1, PinnedKept
  <2> QED
    BY <1>3, <2>2 DEF PinnedOK
<1>10. \A v \in Session : PinnedOK(txn'[v], active', next_xid')
  <2>1. \A y \in active' : y \in active \/ y = next_xid
    BY <1>1, <1>2, <1>9
  <2>2. next_xid' \in Nat /\ next_xid <= next_xid'
    BY <1>1, <1>2, <1>9
  <2> QED
    BY <1>1, <1>2, <1>9, <2>1, <2>2, StepPinned
<1>11. \A v \in Session : txn'[v].xid # 0 =>
            TInv(txn'[v], rows', LocksIn(lock_order', txn'[v].xid))
  <2>1. \A v \in Session : v # s /\ txn[v].xid # 0 => SameFor(all_xids(txn[v]), rows, rows')
    BY <1>1, <1>6, UndoForeign DEF t
  <2>2. u.xid # 0 => TInv(u, rows', LocksIn(lock_order', u.xid))
    BY <1>3, <1>7, <1>8
  <2>3. \A x : x # txn[s].xid => LocksIn(lock_order', x) = LocksIn(lock_order, x)
    BY <1>7 DEF t
  <2> QED
    BY <1>2, <2>1, <2>2, <2>3, StepTInv
<1>12. Bounded(rows', next_xid')
  <2>1. Bounded(rows', next_xid)
    BY <1>1, <1>6, BoundedUndo DEF SInv
  <2>2. \A r \in DOMAIN rows' : rows'[r] \in RowVersion
    BY RollbackToStep DEF IInv, FieldTypes, RowTable
  <2> QED
    BY <1>1, <1>2, <2>1, <2>2, BoundedKept
<1> QED
    BY <1>2, <1>10, <1>11, <1>12 DEF SInv

(* What replaying the records of one transaction makes of an image.         *)
Replayed(d, rws, writes, own, e) ==
    LET logged == records_for_commit(rws, writes, own) IN
    /\ \A r : r \in DOMAIN e.rows <=>
            r \in DOMAIN d.rows \/ (r # 0 /\ \E i \in logged : writes[i].new = r)
    /\ \A r \in DOMAIN e.rows :
        /\ e.rows[r].xmin = IF r \in DOMAIN d.rows THEN d.rows[r].xmin ELSE own
        /\ e.rows[r].xmax =
            IF \E i \in logged : Replayable(d, writes, logged, i) /\ writes[i].old = r THEN own
            ELSE IF r \in DOMAIN d.rows THEN d.rows[r].xmax ELSE 0
    /\ d.next_xid <= e.next_xid
    /\ logged # {} => own < e.next_xid

(* apply_record does what Replayed says. *)
LEMMA ReplayReplays ==
    ASSUME NEW d, DiskImage(d), NEW rws, NEW writes, NEW own \in Nat
    PROVE  Replayed(d, rws, writes, own, apply_record(d, rws, writes, own))
<1> DEFINE logged  == records_for_commit(rws, writes, own)
           created == {writes[i].new : i \in logged} \ {0}
           stamped == {writes[i].old : i \in {j \in logged : Replayable(d, writes, logged, j)}}
           named   == created \cup {writes[i].old : i \in {j \in logged : writes[j].op = "update"}}
           base(r) == IF r \in DOMAIN d.rows THEN d.rows[r]
                      ELSE [key |-> rws[r].key, xmin |-> own, xmax |-> 0]
           val(r) == IF r \in stamped THEN [base(r) EXCEPT !.xmax = own] ELSE base(r)
           nx == IF logged = {} THEN d.next_xid ELSE Above(d.next_xid, {own})
           e == apply_record(d, rws, writes, own)
<1>1. e = [rows |-> [r \in DOMAIN d.rows \cup created |-> val(r)],
           next_xid |-> nx,
           next_row_id |-> Above(d.next_row_id, named)]
    BY DEF apply_record, ResumeXid
<1>2. d.next_xid \in Nat /\ \A r \in DOMAIN d.rows : d.rows[r] \in RowVersion
    BY DEF DiskImage, RowTable
<1>3. ASSUME NEW r
      PROVE  /\ val(r).xmin = IF r \in DOMAIN d.rows THEN d.rows[r].xmin ELSE own
             /\ val(r).xmax = IF r \in stamped THEN own
                              ELSE IF r \in DOMAIN d.rows THEN d.rows[r].xmax ELSE 0
  <2>1. CASE r \in DOMAIN d.rows
    <3>1. base(r) = d.rows[r] /\ d.rows[r] \in RowVersion
      BY <1>2, <2>1
    <3> HIDE DEF base, stamped
    <3> QED
      BY <2>1, <3>1 DEF RowVersion
  <2>2. CASE r \notin DOMAIN d.rows
    <3>1. base(r) = [key |-> rws[r].key, xmin |-> own, xmax |-> 0]
      BY <2>2
    <3> HIDE DEF base, stamped
    <3> QED
      BY <2>2, <3>1
  <2> QED
    BY <2>1, <2>2
<1>4. Above(d.next_xid, {own}) = IF own >= d.next_xid THEN own + 1 ELSE d.next_xid
  <2>1. (CHOOSE x \in {own} : \A y \in {own} : y <= x) = own
    OBVIOUS
  <2> QED
    BY <2>1 DEF Above
<1>5. d.next_xid <= nx /\ (logged # {} => own < nx)
    BY <1>2, <1>4
<1>6. /\ \A r : r \in created <=> r # 0 /\ \E i \in logged : writes[i].new = r
      /\ \A r : r \in stamped <=> \E i \in logged : Replayable(d, writes, logged, i) /\ writes[i].old = r
  <2> HIDE DEF logged
  <2> QED
    OBVIOUS
<1> HIDE DEF val, nx, created, logged, named, stamped, e
<1>7. /\ e.next_xid = nx
      /\ DOMAIN e.rows = DOMAIN d.rows \cup created
      /\ \A r \in DOMAIN e.rows : e.rows[r] = val(r)
    BY <1>1
<1>8. Replayed(d, rws, writes, own, e)
    BY <1>3, <1>5, <1>6, <1>7 DEF Replayed, logged
<1> QED
    BY <1>8 DEF e

(* The image stays bounded by its own counter.                              *)
LEMMA BoundedReplay ==
    ASSUME NEW d, DiskImage(d), Bounded(d.rows, d.next_xid),
           NEW rws, NEW writes, NEW own \in Nat, own # 0,
           NEW e, Replayed(d, rws, writes, own, e), e.next_xid \in Nat
    PROVE  Bounded(e.rows, e.next_xid)
<1>1. d.next_xid \in Nat \ {0} /\ \A r \in DOMAIN d.rows : d.rows[r] \in RowVersion
    BY DEF DiskImage, RowTable
<1> DEFINE logged == records_for_commit(rws, writes, own)
<1> HIDE DEF logged
<1>2. /\ \A r : r \in DOMAIN e.rows <=>
            r \in DOMAIN d.rows \/ (r # 0 /\ \E i \in logged : writes[i].new = r)
      /\ \A r \in DOMAIN e.rows :
        /\ e.rows[r].xmin = IF r \in DOMAIN d.rows THEN d.rows[r].xmin ELSE own
        /\ e.rows[r].xmax =
            IF \E i \in logged : Replayable(d, writes, logged, i) /\ writes[i].old = r THEN own
            ELSE IF r \in DOMAIN d.rows THEN d.rows[r].xmax ELSE 0
      /\ d.next_xid <= e.next_xid
      /\ logged # {} => own < e.next_xid
    BY DEF Replayed, logged
<1>3. ASSUME NEW r \in DOMAIN e.rows PROVE e.rows[r].xmin # 0 /\ e.rows[r].xmin < e.next_xid
    BY <1>1, <1>2 DEF Bounded, RowVersion
<1>4. ASSUME NEW r \in DOMAIN e.rows PROVE e.rows[r].xmax < e.next_xid
  <2>1. CASE \E i \in logged : Replayable(d, writes, logged, i) /\ writes[i].old = r
    BY <1>2, <2>1
  <2>2. CASE ~\E i \in logged : Replayable(d, writes, logged, i) /\ writes[i].old = r
    BY <1>1, <1>2, <2>2 DEF Bounded, RowVersion
  <2> QED
    BY <2>1, <2>2
<1> QED
    BY <1>3, <1>4 DEF Bounded

(* What CHECKPOINT writes.                                                  *)
Imaged(e) ==
    /\ \A r : r \in DOMAIN e.rows <=> r \in DOMAIN rows /\ xid_committed(rows[r].xmin)
    /\ \A r \in DOMAIN e.rows : /\ e.rows[r].xmin = rows[r].xmin
                                /\ e.rows[r].xmax = committed_xmax(rows[r].xmax)
    /\ e.next_xid = next_xid /\ e.next_row_id = next_row_id

(* CHECKPOINT does what Imaged says. *)
LEMMA CheckpointImages ==
    ASSUME FieldTypes
    PROVE  Imaged(CheckpointImage)
<1> DEFINE D == {q \in DOMAIN rows : xid_committed(rows[q].xmin)}
           val(r) == [rows[r] EXCEPT !.xmax = committed_xmax(rows[r].xmax)]
           e == CheckpointImage
<1>1. e = [rows |-> [r \in D |-> val(r)], next_xid |-> next_xid, next_row_id |-> next_row_id]
    BY DEF CheckpointImage
<1>2. ASSUME NEW r \in DOMAIN rows
      PROVE  val(r).xmin = rows[r].xmin /\ val(r).xmax = committed_xmax(rows[r].xmax)
  <2>1. rows[r] \in RowVersion
    BY DEF FieldTypes, RowTable
  <2> QED
    BY <2>1 DEF RowVersion
<1>3. \A r : r \in D <=> r \in DOMAIN rows /\ xid_committed(rows[r].xmin)
    OBVIOUS
<1> HIDE DEF D, val, e
<1>4. /\ e.next_xid = next_xid /\ e.next_row_id = next_row_id /\ DOMAIN e.rows = D
      /\ \A r \in D : e.rows[r] = val(r)
    BY <1>1
<1>5. Imaged(e)
    BY <1>2, <1>3, <1>4 DEF Imaged
<1> QED
    BY <1>5 DEF e

(* ROLLBACK undoes the whole log and vacuums; COMMIT vacuums and replays    *)
(* its records on disk.                                                     *)
LEMMA EndEffect ==
    ASSUME IInv, SInv, NEW s \in Session
    PROVE  /\ txn_rollback(s) => \E z : /\ RowTable(z, next_row_id)
                                        /\ Undone(rows, all_xids(txn[s]), txn[s].writes, z)
                                        /\ Vacuumed(z, active', snapshots', rows')
           /\ commit_taken_txn(s) =>
                /\ Vacuumed(rows, active', snapshots', rows')
                /\ Replayed(disk, rows, txn[s].writes, txn[s].xid, disk')
           /\ txn_rollback(s) \/ commit_taken_txn(s) =>
                /\ txn[s].xid # 0 /\ txn' = [txn EXCEPT ![s] = NoTxn]
                /\ active' = active \ all_xids(txn[s])
                /\ lock_order' = Without(lock_order, {txn[s].xid})
                /\ UNCHANGED <<next_xid, next_row_id>>
<1> DEFINE t == txn[s]
           z == undo_all(rows, all_xids(t), t.writes)
<1>1. /\ next_row_id \in Nat /\ RowTable(rows, next_row_id) /\ DiskImage(disk)
      /\ t \in Txn
    BY Shapes
<1>2. t.writes \in Seq(WriteOp) /\ t.xid \in Nat
    BY <1>1 DEF Txn
<1>3. ASSUME txn_rollback(s)
      PROVE  /\ RowTable(z, next_row_id) /\ Undone(rows, all_xids(t), t.writes, z)
             /\ Vacuumed(z, active', snapshots', rows')
  <2>1. t.xid # 0
    BY <1>3 DEF txn_rollback, Open
  <2>2. \A i \in DOMAIN t.writes : t.writes[i].prev = 0
    BY <2>1 DEF SInv, TInv, OpsHold, OpHolds
  <2>3. rows' = auto_vacuum(z, t.writes, active', snapshots')
    BY <1>3 DEF txn_rollback, retire_txn_family, retired_xids
  <2>4. Vacuumed(z, active', snapshots', rows')
    BY <2>3, VacuumVacuums
  <2> QED
    BY <1>1, <1>2, <2>2, <2>4, UndoUndoes, UndoAllType
<1>4. ASSUME commit_taken_txn(s)
      PROVE  /\ Vacuumed(rows, active', snapshots', rows')
             /\ Replayed(disk, rows, t.writes, t.xid, disk')
  <2>1. rows' = auto_vacuum(rows, t.writes, active', snapshots')
    BY <1>4 DEF commit_taken_txn, retire_txn_family, retired_xids
  <2>2. disk' = apply_record(disk, rows, t.writes, t.xid)
    BY <1>4 DEF commit_taken_txn
  <2> QED
    BY <1>1, <1>2, <2>1, <2>2, VacuumVacuums, ReplayReplays
<1>5. ASSUME txn_rollback(s) \/ commit_taken_txn(s)
      PROVE  /\ t.xid # 0 /\ txn' = [txn EXCEPT ![s] = NoTxn]
             /\ active' = active \ all_xids(t)
             /\ lock_order' = Without(lock_order, {t.xid})
             /\ UNCHANGED <<next_xid, next_row_id>>
    BY <1>5 DEF txn_rollback, commit_taken_txn, retire_txn_family, retired_xids, Running, Open
<1> HIDE DEF z
<1> QED
    BY <1>3, <1>4, <1>5

(* So is the end of a transaction. *)
LEMMA EndForeign ==
    ASSUME IInv, SInv, NEW s \in Session, txn_rollback(s) \/ commit_taken_txn(s),
           NEW v \in Session, v # s, txn[v].xid # 0
    PROVE  SameFor(all_xids(txn[v]), rows, rows')
<1> DEFINE A == all_xids(txn[v])
<1>1. txn[s].xid # 0 /\ active' = active \ all_xids(txn[s])
    BY EndEffect
<1>2. \A x \in A : x \in active'
    BY <1>1, OpenXids, DisjointXids
<1>3. ASSUME NEW z, Vacuumed(z, active', snapshots', rows'), SameFor(A, rows, z)
      PROVE  SameFor(A, rows, rows')
    BY <1>2, <1>3, VacuumedForeign, SameTwice
<1>4. CASE txn_rollback(s)
  <2>1. PICK z : /\ Undone(rows, all_xids(txn[s]), txn[s].writes, z)
                 /\ Vacuumed(z, active', snapshots', rows')
    BY <1>4, EndEffect
  <2> QED
    BY <1>1, <1>3, <2>1, UndoForeign
<1>5. CASE commit_taken_txn(s)
  <2>1. Vacuumed(rows, active', snapshots', rows')
    BY <1>5, EndEffect
  <2> QED
    BY <1>3, <2>1 DEF SameFor
<1> QED
    BY <1>4, <1>5

(* The end of a transaction.                                                *)
LEMMA EndSInv ==
    ASSUME IInv, SInv, NEW s \in Session, txn_rollback(s) \/ commit_taken_txn(s)
    PROVE  SInv'
<1> DEFINE t == txn[s]
<1>1. /\ FieldTypes /\ next_xid \in Nat /\ 0 < next_xid /\ t \in Txn /\ t.xid \in Nat
      /\ DiskImage(disk) /\ DiskImage(disk')
    BY Shapes, EndStep DEF IInv, FieldTypes, Txn
<1>2. /\ t.xid # 0 /\ txn' = [txn EXCEPT ![s] = NoTxn]
      /\ active' = active \ all_xids(t)
      /\ lock_order' = Without(lock_order, {t.xid}) /\ next_xid' = next_xid
    BY EndEffect
<1>3. \A x : x # t.xid => LocksIn(lock_order', x) = LocksIn(lock_order, x)
    BY <1>2 DEF Without, LocksIn
<1>4. NoTxn.xid = 0 /\ NoTxn.snapshot = NoSnapshot
    BY DEF NoTxn, NewTxn
<1>5. \A v \in Session : PinnedOK(txn'[v], active', next_xid')
  <2>1. \A y \in active' : y \in active \/ y = next_xid
    BY <1>1, <1>2, <1>4
  <2>2. next_xid' \in Nat /\ next_xid <= next_xid'
    BY <1>1, <1>2, <1>4
  <2>3. \A act, n : PinnedOK(NoTxn, act, n)
    BY <1>1, <1>2, <1>4 DEF PinnedOK
  <2> QED
    BY <1>1, <1>2, <1>4, <2>1, <2>2, <2>3, StepPinned
<1>6. \A v \in Session : v # s /\ txn[v].xid # 0 => SameFor(all_xids(txn[v]), rows, rows')
    BY EndForeign
<1>7. Bounded(rows', next_xid')
  <2>1. Bounded(rows, next_xid)
    BY DEF SInv
  <2>2. CASE txn_rollback(s)
    <3>1. PICK z : /\ Undone(rows, all_xids(t), t.writes, z)
                   /\ Vacuumed(z, active', snapshots', rows')
      BY <2>2, EndEffect
    <3>2. Bounded(z, next_xid)
      BY <1>1, <2>1, <3>1, BoundedUndo
    <3> QED
      BY <1>2, <3>1, <3>2, BoundedVacuum
  <2>3. CASE commit_taken_txn(s)
    BY <1>2, <2>1, <2>3, EndEffect, BoundedVacuum
  <2> QED
    BY <2>2, <2>3
<1>8. \A v \in Session : txn'[v].xid # 0 =>
            TInv(txn'[v], rows', LocksIn(lock_order', txn'[v].xid))
    BY <1>2, <1>3, <1>4, <1>6, StepTInv
<1>9. Bounded(disk'.rows, disk'.next_xid)
  <2>1. Bounded(disk.rows, disk.next_xid) /\ disk'.next_xid \in Nat
    BY <1>1 DEF SInv, DiskImage
  <2>2. CASE txn_rollback(s)
    BY <2>1, <2>2 DEF txn_rollback
  <2>3. CASE commit_taken_txn(s)
    <3>1. Replayed(disk, rows, t.writes, t.xid, disk')
      BY <2>3, EndEffect
    <3> QED
      BY <1>1, <1>2, <2>1, <3>1, BoundedReplay
  <2> QED
    BY <2>2, <2>3
<1> QED
    BY <1>5, <1>7, <1>8, <1>9 DEF SInv

(* What a statement outside a block does: it writes w under its own fresh   *)
(* xid, and the version it stamps is clean, committed and locked by nobody; *)
(* then either its record reaches the disk, or the write is undone.         *)
AutoWrite(w, k, y) ==
    /\ w \in WriteOp /\ w.prev = 0 /\ w.new \in {0, next_row_id}
    /\ w.old # 0 => /\ w.old \in DOMAIN rows /\ rows[w.old].xmax = 0
                    /\ rows[w.old].xmin \notin active
                    /\ w.old \notin DOMAIN row_locks
    /\ Wrote(rows, w, k, next_xid, y) /\ Keyed(w, k, AutoTxn)
    /\ RowTable(y, next_row_id')
    /\ next_row_id' = IF w.new = 0 THEN next_row_id ELSE next_row_id + 1
    /\ next_xid' = next_xid + 1
    /\ UNCHANGED <<active, snapshots, row_locks, lock_order, txn>>

AutoKept(w, y) ==
    /\ Vacuumed(y, active, snapshots, rows')
    /\ disk' = apply_record(disk, y, <<w>>, next_xid)
    /\ Replayed(disk, y, <<w>>, next_xid, disk')
    /\ aborted' = aborted

AutoUndone(w, y) ==
    /\ \E z : Undone(y, {next_xid}, <<w>>, z) /\ Vacuumed(z, active, snapshots, rows')
    /\ aborted' = aborted \cup {next_xid}
    /\ disk' = disk

(* INSERT, DELETE and UPDATE outside a block are such writes. *)
LEMMA AutoEffect ==
    ASSUME IInv, LInv, SInv, NEW s \in Session, NEW k \in Key, NEW r,
           \/ auto_insert(s, k)
           \/ r \in DOMAIN rows /\ (auto_delete(s, r) \/ auto_update(s, r, k))
    PROVE  \E w, k2, y : AutoWrite(w, k2, y) /\ (AutoKept(w, y) \/ AutoUndone(w, y))
<1>1. /\ FieldTypes /\ next_xid \in Nat /\ next_row_id \in Nat /\ RowTable(rows, next_row_id)
      /\ DiskImage(disk) /\ 0 \notin DOMAIN rows
    BY Shapes
<1>2. \A q \in DOMAIN row_locks : row_locks[q] \in active /\ row_locks[q] # next_xid
  <2> SUFFICES ASSUME NEW q \in DOMAIN row_locks
               PROVE  row_locks[q] \in active /\ row_locks[q] # next_xid
    OBVIOUS
  <2>1. PICK u \in Session : txn[u].xid # 0 /\ txn[u].xid = row_locks[q]
    BY DEF LInv, LockInv
  <2>2. txn[u].xid \in all_xids(txn[u])
    BY DEF all_xids
  <2>3. txn[u].xid \in active /\ txn[u].xid \in Nat /\ txn[u].xid < next_xid
    BY <2>1, <2>2, OpenXids
  <2> QED
    BY <1>1, <2>1, <2>3
<1>3. ASSUME NEW q, Writable(AutoTxn, q)
      PROVE  /\ q \in DOMAIN rows /\ rows[q].xmax = 0
             /\ rows[q].xmin \notin active /\ q \notin DOMAIN row_locks
  <2>1. /\ q \in DOMAIN rows /\ rows[q].xmax = 0
        /\ rows[q].xmin \in {next_xid} \/ rows[q].xmin \notin active
    BY <1>3, AutoApart, WritableClean
  <2>2. next_xid \notin active
    BY <1>1 DEF FieldTypes
  <2>3. q \notin DOMAIN row_locks
    BY <1>2, <1>3, AutoApart DEF Writable, check_row_lock
  <2> QED
    BY <2>1, <2>2, <2>3
<1>4. ASSUME NEW w \in WriteOp, w.new \in {0, next_row_id}, w.prev = 0, NEW k2 \in Key,
             w.old # 0 => /\ w.old \in DOMAIN rows /\ rows[w.old].xmax = 0
                          /\ rows[w.old].xmin \notin active
                          /\ w.old \notin DOMAIN row_locks,
             autocommit_execute(s, w, k2), Keyed(w, k2, AutoTxn)
      PROVE  \E y : AutoWrite(w, k2, y) /\ (AutoKept(w, y) \/ AutoUndone(w, y))
  <2> DEFINE y == Apply(rows, w, k2, next_xid)
             z == undo_all(y, {next_xid}, <<w>>)
  <2>1. Wrote(rows, w, k2, next_xid, y)
    BY <1>1, <1>4, ApplyWrites
  <2>2. /\ next_xid' = next_xid + 1 /\ UNCHANGED <<active, snapshots, row_locks, lock_order, txn>>
        /\ next_row_id' = IF w.new = 0 THEN next_row_id ELSE next_row_id + 1
        /\ \/ /\ rows' = auto_vacuum(y, <<w>>, active, snapshots)
              /\ disk' = apply_record(disk, y, <<w>>, next_xid)
              /\ aborted' = aborted
           \/ /\ rows' = auto_vacuum(z, <<w>>, active, snapshots)
              /\ aborted' = aborted \cup {next_xid}
              /\ disk' = disk
    BY <1>4 DEF autocommit_execute
  <2>3. RowTable(y, next_row_id') /\ next_row_id' \in Nat
    BY <1>1, <1>4, <2>2, ApplyType
  <2>4. <<w>> \in Seq(WriteOp) /\ \A i \in DOMAIN <<w>> : <<w>>[i].prev = 0
    BY <1>4
  <2>5. Undone(y, {next_xid}, <<w>>, z)
    BY <2>3, <2>4, UndoUndoes
  <2> HIDE DEF y, z
  <2>6. AutoWrite(w, k2, y)
    BY <1>4, <2>1, <2>2, <2>3 DEF AutoWrite
  <2>7. CASE rows' = auto_vacuum(y, <<w>>, active, snapshots)
             /\ disk' = apply_record(disk, y, <<w>>, next_xid) /\ aborted' = aborted
    BY <1>1, <2>6, <2>7, VacuumVacuums, ReplayReplays DEF AutoKept
  <2>8. CASE rows' = auto_vacuum(z, <<w>>, active, snapshots)
             /\ aborted' = aborted \cup {next_xid} /\ disk' = disk
    <3>1. Vacuumed(z, active, snapshots, rows')
      BY <2>8, VacuumVacuums
    <3>2. AutoUndone(w, y)
      BY <2>5, <2>8, <3>1 DEF AutoUndone
    <3> QED
      BY <2>6, <3>2
  <2> QED
    BY <2>2, <2>7, <2>8
<1>5. CASE auto_insert(s, k)
  <2> DEFINE w == InsertRow(next_row_id)
  <2>1. w \in WriteOp /\ w.new = next_row_id /\ w.old = 0 /\ w.prev = 0
    BY <1>1, OpTypes DEF InsertRow
  <2>2. autocommit_execute(s, w, k) /\ Keyed(w, k, AutoTxn)
    BY <1>1, <1>5, OpsKeyed DEF auto_insert
  <2> HIDE DEF w
  <2> QED
    BY <1>4, <2>1, <2>2
<1>6. CASE r \in DOMAIN rows /\ auto_delete(s, r)
  <2> DEFINE w == DeleteRow(r)
  <2>1. Writable(AutoTxn, r)
    BY <1>6 DEF auto_delete, DeleteAllowed
  <2>2. /\ w \in WriteOp /\ w.new = 0 /\ w.old = r /\ w.prev = 0 /\ rows[r].key \in Key
    BY <1>1, <1>3, <1>6, <2>1, OpTypes DEF DeleteRow
  <2>3. autocommit_execute(s, w, rows[r].key) /\ Keyed(w, rows[r].key, AutoTxn)
    BY <1>1, <1>6, OpsKeyed DEF auto_delete
  <2> HIDE DEF w
  <2> QED
    BY <1>3, <1>4, <2>1, <2>2, <2>3
<1>7. CASE r \in DOMAIN rows /\ auto_update(s, r, k)
  <2> DEFINE w == UpdateRow(r, next_row_id)
  <2>1. Writable(AutoTxn, r)
    BY <1>7 DEF auto_update, UpdateAllowed
  <2>2. w \in WriteOp /\ w.new = next_row_id /\ w.old = r /\ w.prev = 0
    BY <1>1, <1>3, <1>7, <2>1, OpTypes DEF UpdateRow
  <2>3. autocommit_execute(s, w, k) /\ Keyed(w, k, AutoTxn)
    BY <1>1, <1>7, OpsKeyed DEF auto_update
  <2> HIDE DEF w
  <2> QED
    BY <1>3, <1>4, <2>1, <2>2, <2>3
<1> QED
    BY <1>5, <1>6, <1>7

(* It is foreign to every open transaction, and leaves the table bounded.   *)
LEMMA AutoForeign ==
    ASSUME IInv, SInv, NEW w, NEW k, NEW y, AutoWrite(w, k, y), AutoKept(w, y) \/ AutoUndone(w, y)
    PROVE  /\ \A v \in Session : txn[v].xid # 0 => SameFor(all_xids(txn[v]), rows, rows')
           /\ Bounded(rows', next_xid')
<1>1. /\ FieldTypes /\ next_xid \in Nat /\ 0 < next_xid /\ 0 \notin DOMAIN rows
      /\ \A r \in DOMAIN rows : rows[r] \in RowVersion
    BY Shapes
<1>2. /\ w.old # 0 => w.old \in DOMAIN rows /\ rows[w.old].xmax = 0 /\ rows[w.old].xmin \notin active
      /\ Wrote(rows, w, k, next_xid, y) /\ next_xid' = next_xid + 1
    BY DEF AutoWrite
<1>3. Bounded(y, next_xid')
  <2>1. Bounded(rows, next_xid')
    BY <1>1, <1>2, BoundedKept DEF SInv
  <2> QED
    BY <1>1, <1>2, <2>1, BoundedWrite
<1>4. ASSUME NEW v \in Session, txn[v].xid # 0
      PROVE  /\ SameFor(all_xids(txn[v]), rows, y)
             /\ \A z : Undone(y, {next_xid}, <<w>>, z) => SameFor(all_xids(txn[v]), y, z)
             /\ \A x \in all_xids(txn[v]) : x \in active
  <2> DEFINE A == all_xids(txn[v])
  <2>1. \A x \in A : x \in active /\ x # 0 /\ x # next_xid
    BY <1>1, <1>4, OpenXids DEF FieldTypes
  <2>2. w.old \in DOMAIN rows => ~Carries(rows[w.old], A)
    BY <1>1, <1>2, <2>1 DEF Carries
  <2>3. \A r \in DOMAIN rows : rows[r].xmin \in A => rows[r].xmax = 0 \/ rows[r].xmax \in A
    BY <1>4 DEF SInv, TInv, OwnOnly
  <2> HIDE DEF A
  <2>4. SameFor(A, rows, y)
    BY <1>2, <2>1, <2>2, WroteForeign
  <2>5. \A r \in DOMAIN y : y[r].xmin \in A => y[r].xmax = 0 \/ y[r].xmax \in A
    BY <2>3, <2>4 DEF SameFor, Carries
  <2>6. \A r \in DOMAIN y : y[r].xmin \in {next_xid} => y[r].xmax = 0 \/ y[r].xmax \in {next_xid}
    <3>1. \A r \in DOMAIN rows : rows[r].xmin # next_xid
      BY <1>1 DEF SInv, Bounded
    <3> QED
      BY <1>2, <3>1 DEF Wrote
  <2>7. ASSUME NEW z, Undone(y, {next_xid}, <<w>>, z) PROVE SameFor(A, y, z)
    <3>1. 0 \notin A /\ 0 \notin {next_xid} /\ \A x \in {next_xid} : x \notin A
      BY <1>1, <2>1
    <3> QED
      BY <2>5, <2>6, <2>7, <3>1, UndoneForeign
  <2> QED
    BY <2>1, <2>4, <2>7 DEF A
<1>5. CASE AutoKept(w, y)
  <2>1. Vacuumed(y, active, snapshots, rows')
    BY <1>5 DEF AutoKept
  <2>2. Bounded(rows', next_xid')
    BY <1>3, <2>1, BoundedVacuum
  <2>3. ASSUME NEW v \in Session, txn[v].xid # 0 PROVE SameFor(all_xids(txn[v]), rows, rows')
    BY <1>4, <2>1, <2>3, VacuumedForeign, SameTwice
  <2> QED
    BY <2>2, <2>3
<1>6. CASE AutoUndone(w, y)
  <2>1. PICK z : Undone(y, {next_xid}, <<w>>, z) /\ Vacuumed(z, active, snapshots, rows')
    BY <1>6 DEF AutoUndone
  <2>2. Bounded(z, next_xid')
    BY <1>1, <1>2, <1>3, <2>1, BoundedUndo
  <2>3. Bounded(rows', next_xid')
    BY <2>1, <2>2, BoundedVacuum
  <2>4. ASSUME NEW v \in Session, txn[v].xid # 0 PROVE SameFor(all_xids(txn[v]), rows, rows')
    <3>1. SameFor(all_xids(txn[v]), rows, z)
      BY <1>4, <2>1, <2>4, SameTwice
    <3>2. SameFor(all_xids(txn[v]), z, rows')
      BY <1>4, <2>1, <2>4, VacuumedForeign
    <3> QED
      BY <3>1, <3>2, SameTwice
  <2> QED
    BY <2>3, <2>4
<1> QED
    BY <1>5, <1>6

(* A statement outside a block.                                             *)
LEMMA AutoSInv ==
    ASSUME IInv, SInv, NEW w, NEW k, NEW y, AutoWrite(w, k, y), AutoKept(w, y) \/ AutoUndone(w, y),
           DiskImage(disk')
    PROVE  SInv'
<1>1. FieldTypes /\ next_xid \in Nat \ {0} /\ DiskImage(disk)
    BY Shapes
<1>2. /\ next_xid' = next_xid + 1 /\ UNCHANGED <<active, lock_order, txn>>
    BY DEF AutoWrite
<1>3. /\ \A v \in Session : txn[v].xid # 0 => SameFor(all_xids(txn[v]), rows, rows')
      /\ Bounded(rows', next_xid')
    BY AutoForeign
<1>4. \A v \in Session : PinnedOK(txn'[v], active', next_xid')
    BY <1>1, <1>2, QuietPinned
<1>5. \A v \in Session : txn'[v].xid # 0 =>
            TInv(txn'[v], rows', LocksIn(lock_order', txn'[v].xid))
    BY <1>2, <1>3, QuietTInv
<1>6. Bounded(disk'.rows, disk'.next_xid)
  <2>1. Bounded(disk.rows, disk.next_xid) /\ disk'.next_xid \in Nat
    BY DEF SInv, DiskImage
  <2> QED
    BY <1>1, <2>1, BoundedReplay DEF AutoKept, AutoUndone
<1> QED
    BY <1>3, <1>4, <1>5, <1>6 DEF SInv

(* VACUUM, CHECKPOINT and a statement that only burns its xid.              *)
LEMMA MaintenanceSInv ==
    ASSUME IInv, SInv, NEW s \in Session, txn_vacuum(s) \/ txn_checkpoint(s) \/ auto_error(s)
    PROVE  SInv'
<1>1. /\ FieldTypes /\ next_xid \in Nat /\ \A r \in DOMAIN rows : rows[r] \in RowVersion
      /\ Bounded(rows, next_xid) /\ Bounded(disk.rows, disk.next_xid)
    BY Shapes DEF SInv
<1>2. /\ UNCHANGED <<txn, active, lock_order>>
      /\ next_xid' = next_xid \/ next_xid' = next_xid + 1
    BY DEF txn_vacuum, txn_checkpoint, auto_error, engine
<1>3. \A v \in Session : PinnedOK(txn'[v], active', next_xid')
    BY <1>1, <1>2, QuietPinned
<1>4. Vacuumed(rows, active, snapshots, rows')
  <2>1. CASE rows' = vacuum_table(rows, active, snapshots)
    BY <2>1, VacuumVacuums
  <2>2. CASE rows' = rows
    BY <2>2 DEF Vacuumed
  <2> QED
    BY <2>1, <2>2 DEF txn_vacuum, txn_checkpoint, auto_error, engine
<1>5. \A v \in Session : txn'[v].xid # 0 =>
            TInv(txn'[v], rows', LocksIn(lock_order', txn'[v].xid))
  <2>1. ASSUME NEW v \in Session, txn[v].xid # 0 PROVE SameFor(all_xids(txn[v]), rows, rows')
    BY <1>4, <2>1, OpenXids, VacuumedForeign
  <2> QED
    BY <1>2, <2>1, QuietTInv
<1>6. Bounded(rows', next_xid')
  <2>1. Bounded(rows', next_xid)
    BY <1>1, <1>4, BoundedVacuum
  <2>2. \A r \in DOMAIN rows' : rows'[r] \in RowVersion
    BY <1>1, <1>4 DEF Vacuumed
  <2> QED
    BY <1>1, <1>2, <2>1, <2>2, BoundedKept
<1>7. Bounded(disk'.rows, disk'.next_xid)
  <2>1. CASE disk' = disk
    BY <1>1, <2>1
  <2>2. CASE disk' = CheckpointImage
    <3>1. Imaged(disk')
      BY <1>1, <2>2, CheckpointImages
    <3>2. \A r \in DOMAIN rows : committed_xmax(rows[r].xmax) \in {0, rows[r].xmax}
      BY DEF committed_xmax
    <3>3. \A r \in DOMAIN rows : 0 < next_xid
      BY <1>1 DEF Bounded, RowVersion
    <3> QED
      BY <1>1, <3>1, <3>2, <3>3 DEF Imaged, Bounded
  <2> QED
    BY <2>1, <2>2 DEF txn_vacuum, txn_checkpoint, auto_error
<1> QED
    BY <1>3, <1>5, <1>6, <1>7 DEF SInv

(* A restart loads the image and closes every transaction.                  *)
LEMMA RestartSInv ==
    ASSUME SInv, Restart
    PROVE  SInv'
<1>1. /\ rows' = disk.rows /\ next_xid' = disk.next_xid /\ disk' = disk
      /\ txn' = [s \in Session |-> NoTxn]
    BY DEF Restart
<1>2. \A s \in Session : txn'[s].xid = 0 /\ txn'[s].snapshot = NoSnapshot
    BY <1>1 DEF NoTxn, NewTxn
<1> QED
    BY <1>1, <1>2 DEF SInv, PinnedOK

(* The initial rows are committed and nobody runs. *)
LEMMA InitSInv ==
    ASSUME Init
    PROVE  SInv
<1>1. PICK f \in Loads : rows = [i \in DOMAIN f |-> [key |-> f[i], xmin |-> 1, xmax |-> 0]]
    BY DEF Init
<1>2. \A r \in DOMAIN rows : rows[r].xmin = 1 /\ rows[r].xmax = 0
    BY <1>1
<1>3. /\ next_xid = 2 /\ disk.rows = rows /\ disk.next_xid = 2
      /\ txn = [s \in Session |-> NoTxn]
    BY DEF Init
<1>4. \A s \in Session : txn[s].xid = 0 /\ txn[s].snapshot = NoSnapshot
    BY <1>3 DEF NoTxn, NewTxn
<1> QED
    BY <1>2, <1>3, <1>4 DEF SInv, Bounded, PinnedOK

(* A step that writes no row version and ends no transaction.               *)
Quiet ==
    /\ rows' = rows
    /\ \A x \in active : x \in active'
    /\ \A x \in active' : x \in active \/ x = next_xid
    /\ next_xid' \in {next_xid, next_xid + 1}
    /\ \A s \in Session :
        /\ txn[s].xid # 0 => txn'[s].xid = txn[s].xid /\ txn'[s].writes = txn[s].writes
        /\ txn[s].xid = 0 => txn'[s].xid \in {0, next_xid}

(* What the steps of the engine do to the row versions.                     *)
LEMMA StepKinds ==
    ASSUME "unlocked" \notin Client, IInv, AInv, LInv, SInv, [Next]_vars
    PROVE  \/ Quiet
           \/ \E s \in Session : \E w, k, x :
                Open(s) /\ Write(s, w, k) /\ WriteEffect(s, w, k, x) /\ w.new \in {0, next_row_id}
           \/ \E s \in Session : \E idx : txn_rollback_to(s, idx)
           \/ \E s \in Session : txn_rollback(s) \/ commit_taken_txn(s)
           \/ \E w, k, y : AutoWrite(w, k, y) /\ (AutoKept(w, y) \/ AutoUndone(w, y))
           \/ \E s \in Session : txn_vacuum(s)
           \/ Restart
<1>0. FieldTypes /\ txn \in [Session -> Txn] /\ \A s \in Session : txn[s] \in Txn
    BY Shapes
<1>1. CASE UNCHANGED vars
    BY <1>1 DEF Quiet, vars, engine
<1>2. ASSUME NEW s \in Session, NEW level \in Level, txn_begin(s, level) PROVE Quiet
    BY <1>0, <1>2 DEF Quiet, txn_begin, Open, NewTxn
<1>3. ASSUME NEW s \in Session, NEW r,
             exec_select(s) \/ StmtError(s) \/ acquire_row_locks(s, r)
      PROVE  Quiet
  <2> DEFINE p == Pinned(txn[s])
             f == [p EXCEPT !.failed = TRUE]
  <2>1. p \in Txn /\ p.xid = txn[s].xid /\ p.writes = txn[s].writes
    BY <1>0, PinnedType, PinnedFields
  <2>2. f.xid = p.xid /\ f.writes = p.writes
    BY <2>1 DEF Txn
  <2>3. PICK t \in {p, f} : txn' = [txn EXCEPT ![s] = t]
    BY <1>3 DEF exec_select, StmtError, acquire_row_locks
  <2> HIDE DEF p, f
  <2>4. \A u \in Session : txn'[u].xid = txn[u].xid /\ txn'[u].writes = txn[u].writes
    BY <1>0, <2>1, <2>2, <2>3
  <2>5. UNCHANGED <<rows, active, next_xid>>
    BY <1>3 DEF exec_select, StmtError, acquire_row_locks
  <2> QED
    BY <2>4, <2>5 DEF Quiet
<1>4. ASSUME NEW s \in Session, txn_savepoint(s) PROVE Quiet
  <2>1. \A u \in Session : txn'[u].xid = txn[u].xid /\ txn'[u].writes = txn[u].writes
    BY <1>0, <1>4 DEF txn_savepoint, Txn
  <2> QED
    BY <1>4, <2>1 DEF txn_savepoint, Quiet
<1>5. ASSUME NEW s \in Session, NEW idx, txn_release(s, idx) PROVE Quiet
  <2>1. \A u \in Session : txn'[u].xid = txn[u].xid /\ txn'[u].writes = txn[u].writes
    BY <1>0, <1>5 DEF txn_release, Txn
  <2> QED
    BY <1>5, <2>1 DEF txn_release, Quiet, engine
<1>6. ASSUME NEW s \in Session, auto_error(s) \/ txn_checkpoint(s) PROVE Quiet
    BY <1>6 DEF auto_error, txn_checkpoint, Quiet, engine
<1>7. ASSUME NEW s \in Session, NEW k, NEW r,
             \/ exec_insert(s, k)
             \/ r \in DOMAIN rows /\ (exec_delete(s, r) \/ exec_update(s, r, k))
      PROVE  Open(s) /\ \E w, k2, x : Write(s, w, k2) /\ WriteEffect(s, w, k2, x)
                                      /\ w.new \in {0, next_row_id}
    BY <1>7, DmlEffect DEF exec_insert, exec_delete, exec_update, Running
<1>8. ASSUME NEW s \in Session, NEW r \in DOMAIN rows, auto_delete(s, r)
      PROVE  \E w, k, y : AutoWrite(w, k, y) /\ (AutoKept(w, y) \/ AutoUndone(w, y))
  <2>1. rows[r].key \in Key
    BY <1>0, OpTypes
  <2> QED
    BY <1>8, <2>1, AutoEffect
<1>9. ASSUME NEW s \in Session, NEW k \in Key, NEW r,
             auto_insert(s, k) \/ (r \in DOMAIN rows /\ auto_update(s, r, k))
      PROVE  \E w, k2, y : AutoWrite(w, k2, y) /\ (AutoKept(w, y) \/ AutoUndone(w, y))
    BY <1>9, AutoEffect
<1> QED
    BY <1>1, <1>2, <1>3, <1>4, <1>5, <1>6, <1>7, <1>8, <1>9 DEF Next, CommitFails

(* Every step keeps SInv.                                                   *)
LEMMA NextSInv ==
    ASSUME "unlocked" \notin Client, IInv, AInv, LInv, SInv, [Next]_vars
    PROVE  SInv'
<1>0. DiskImage(disk')
    BY NextIInv DEF IInv, FieldTypes
<1>1. CASE UNCHANGED vars
    BY <1>1 DEF SInv, vars, engine
<1>2. CASE Restart
    BY <1>2, RestartSInv
<1>3. ASSUME NEW s \in Session, NEW level \in Level, txn_begin(s, level) PROVE SInv'
    BY <1>3, BeginSInv
<1>4. ASSUME NEW s \in Session, exec_select(s) \/ StmtError(s) \/ CommitFails(s) PROVE SInv'
    BY <1>4, PinSInv DEF CommitFails
<1>5. ASSUME NEW s \in Session, NEW r \in DOMAIN rows, acquire_row_locks(s, r) PROVE SInv'
    BY <1>5, PinSInv
<1>6. ASSUME NEW s \in Session, NEW k, NEW r,
             \/ exec_insert(s, k)
             \/ r \in DOMAIN rows /\ (exec_delete(s, r) \/ exec_update(s, r, k))
      PROVE  SInv'
  <2>1. Open(s)
    BY <1>6 DEF exec_insert, exec_delete, exec_update, Running
  <2> QED
    BY <1>6, <2>1, DmlEffect, WriteSInv
<1>7. ASSUME NEW s \in Session, NEW k \in Key, NEW r,
             \/ auto_insert(s, k)
             \/ r \in DOMAIN rows /\ (auto_delete(s, r) \/ auto_update(s, r, k))
      PROVE  SInv'
    BY <1>0, <1>7, AutoEffect, AutoSInv
<1>8. ASSUME NEW s \in Session, NEW r \in DOMAIN rows, auto_delete(s, r) PROVE SInv'
  <2>1. rows[r].key \in Key
    BY OpTypes DEF IInv
  <2> QED
    BY <1>7, <1>8, <2>1
<1>9. ASSUME NEW s \in Session, txn_savepoint(s) PROVE SInv'
    BY <1>9, SavepointSInv
<1>10. ASSUME NEW s \in Session, NEW idx, txn_rollback_to(s, idx) \/ txn_release(s, idx)
       PROVE  SInv'
    BY <1>10, RollbackToSInv, ReleaseSInv
<1>11. ASSUME NEW s \in Session, txn_rollback(s) \/ commit_taken_txn(s) PROVE SInv'
    BY <1>11, EndSInv
<1>12. ASSUME NEW s \in Session, txn_vacuum(s) \/ txn_checkpoint(s) \/ auto_error(s) PROVE SInv'
    BY <1>12, MaintenanceSInv
<1> QED
    BY <1>1, <1>2, <1>3, <1>4, <1>5, <1>6, <1>7, <1>8, <1>9, <1>10, <1>11, <1>12 DEF Next

-----------------------------------------------------------------------------
(* What is live.  Under SInv a version is live when its creator is over and *)
(* no one who is over has stamped it.                                       *)

LiveRow(rws, act, r) ==
    /\ r \in DOMAIN rws
    /\ rws[r].xmin \notin act
    /\ rws[r].xmax = 0 \/ rws[r].xmax \in act

(* LiveRows is the set of these versions ... *)
LEMMA LiveNow ==
    ASSUME IInv, SInv
    PROVE  \A r : r \in LiveRows <=> LiveRow(rows, active, r)
<1>1. next_xid \in Nat /\ Bounded(rows, next_xid)
    BY Shapes DEF SInv
<1> QED
    BY <1>1 DEF LiveRows, LiveRow, row_visible, take_snapshot, SeenCommitted, Bounded

(* ... after the step too. *)
LEMMA LiveNext ==
    ASSUME IInv', SInv'
    PROVE  \A r : r \in LiveRows' <=> LiveRow(rows', active', r)
<1>1. next_xid' \in Nat /\ Bounded(rows', next_xid')
    BY DEF IInv, FieldTypes, SInv
<1> QED
    BY <1>1 DEF LiveRows, LiveRow, row_visible, take_snapshot, SeenCommitted, Bounded

(* VACUUM takes no live version. *)
LEMMA VacuumedLive ==
    ASSUME NEW rws, NEW act, NEW snaps, NEW z, Vacuumed(rws, act, snaps, z)
    PROVE  \A r : LiveRow(z, act, r) <=> LiveRow(rws, act, r)
    BY DEF Vacuumed, LiveRow, version_dead_to_all

(* Neither does an undo of a transaction that still runs. *)
LEMMA UndoneLive ==
    ASSUME NEW rws, NEW act, NEW owns, \A x \in owns : x \in act,
           NEW ops, NEW z, Undone(rws, owns, ops, z)
    PROVE  \A r : LiveRow(z, act, r) <=> LiveRow(rws, act, r)
    BY DEF Undone, LiveRow

(* xids no version carries may start or end without a difference. *)
LEMMA ActiveLive ==
    ASSUME NEW rws, NEW act, NEW act2, NEW A, \A r \in DOMAIN rws : ~Carries(rws[r], A),
           \A x : x \notin A => (x \in act <=> x \in act2)
    PROVE  \A r : LiveRow(rws, act2, r) <=> LiveRow(rws, act, r)
    BY DEF LiveRow, Carries

LiveSame == \A r : LiveRow(rows', active', r) <=> LiveRow(rows, active, r)

(* A quiet step changes nothing that is live: a fresh xid is on no version. *)
LEMMA QuietLive ==
    ASSUME IInv, SInv, Quiet
    PROVE  LiveSame
<1>1. \A r \in DOMAIN rows : ~Carries(rows[r], {next_xid})
    BY NothingCarries, Shapes DEF SInv
<1>2. \A x : x \notin {next_xid} => (x \in active <=> x \in active')
    BY DEF Quiet
<1> QED
    BY <1>1, <1>2, ActiveLive DEF Quiet, LiveSame

(* A write in a block is not live yet, and what it stamped still is. *)
LEMMA WriteLive ==
    ASSUME IInv, SInv, NEW s \in Session, NEW w, NEW k, NEW x,
           Open(s), Write(s, w, k), WriteEffect(s, w, k, x)
    PROVE  LiveSame
<1>1. x \in active /\ active' = active
    BY OpenXids DEF WriteEffect, Write, Open
<1>2. Wrote(rows, w, k, x, rows') /\ (w.old # 0 => rows[w.old].xmax = 0) /\ 0 \notin DOMAIN rows
    BY Shapes DEF WriteEffect
<1> QED
    BY <1>1, <1>2 DEF Wrote, LiveSame, LiveRow

(* ROLLBACK TO removes versions that were not live and stamps that did not  *)
(* count.                                                                   *)
LEMMA RollbackToLive ==
    ASSUME IInv, SInv, NEW s \in Session, NEW idx, txn_rollback_to(s, idx)
    PROVE  LiveSame
<1> DEFINE O == all_xids(txn[s])
           ops == UndoneOps(txn[s], idx)
<1>1. Undone(rows, O, ops, rows')
    BY RollbackToEffect
<1>2. \A x \in O : x \in active
    BY OpenXids DEF txn_rollback_to, Open
<1>3. \A r : LiveRow(rows', active, r) <=> LiveRow(rows, active, r)
    BY <1>1, <1>2, UndoneLive
<1>4. \A r \in DOMAIN rows : ~Carries(rows[r], {next_xid})
    BY NothingCarries, Shapes DEF SInv
<1>5. next_xid # 0
    BY Shapes
<1> HIDE DEF O, ops
<1>6. \A r \in DOMAIN rows' : ~Carries(rows'[r], {next_xid})
    BY <1>1, <1>4, <1>5 DEF Undone, Carries
<1>7. \A x : x \notin {next_xid} => (x \in active <=> x \in active')
    BY DEF txn_rollback_to
<1>8. \A r : LiveRow(rows', active', r) <=> LiveRow(rows', active, r)
    BY <1>6, <1>7, ActiveLive
<1> QED
    BY <1>3, <1>8 DEF LiveSame

(* Once the whole log of an ending transaction is undone, nothing carries   *)
(* its xids any more.                                                       *)
LEMMA RollbackLive ==
    ASSUME IInv, AInv, SInv, NEW s \in Session, txn_rollback(s)
    PROVE  LiveSame
<1> DEFINE t == txn[s]
           O == all_xids(t)
           L == LocksIn(lock_order, t.xid)
<1>1. t.xid # 0 /\ active' = active \ O
    BY EndEffect
<1>2. PICK z : Undone(rows, O, t.writes, z) /\ Vacuumed(z, active', snapshots', rows')
    BY EndEffect
<1>3. \A x \in O : x \in active /\ x # 0
    BY <1>1, OpenXids, Shapes DEF FieldTypes
<1>4. Logged(t, rows) /\ Stamps(t, rows, L)
    BY <1>1 DEF AInv, Undoable, SInv, TInv
<1>5. /\ \A r \in DOMAIN rows : rows[r].xmin \in O => \E i \in DOMAIN t.writes : t.writes[i].new = r
      /\ \A r \in DOMAIN rows : rows[r].xmax \in O => \E i \in DOMAIN t.writes : t.writes[i].old = r
    BY <1>4 DEF Logged, Stamps
<1> HIDE DEF O
<1>6. \A r \in DOMAIN z : ~Carries(z[r], O)
    BY <1>2, <1>3, <1>5 DEF Undone, Carries
<1>7. \A x : x \notin O => (x \in active <=> x \in active')
    BY <1>1
<1>8. \A r : LiveRow(z, active, r) <=> LiveRow(rows, active, r)
    BY <1>2, <1>3, UndoneLive
<1>9. \A r : LiveRow(z, active', r) <=> LiveRow(z, active, r)
    BY <1>6, <1>7, ActiveLive
<1>10. \A r : LiveRow(rows', active', r) <=> LiveRow(z, active', r)
    BY <1>2, VacuumedLive
<1> QED
    BY <1>8, <1>9, <1>10 DEF LiveSame

(* COMMIT makes live what s created and did not stamp, and kills what it    *)
(* stamped; everything else stays as it was.                                *)
LEMMA CommitLive ==
    ASSUME IInv, SInv, NEW s \in Session, commit_taken_txn(s)
    PROVE  \A r : LiveRow(rows', active', r) <=>
                \/ LiveRow(rows, active, r) /\ rows[r].xmax \notin all_xids(txn[s])
                \/ r \in DOMAIN rows /\ rows[r].xmin \in all_xids(txn[s]) /\ rows[r].xmax = 0
<1> DEFINE O == all_xids(txn[s])
<1>1. txn[s].xid # 0 /\ active' = active \ O /\ Vacuumed(rows, active', snapshots', rows')
    BY EndEffect
<1>2. \A x \in O : x \in active /\ x # 0
    BY <1>1, OpenXids, Shapes DEF FieldTypes
<1>3. \A r \in DOMAIN rows : rows[r].xmin \in O => rows[r].xmax = 0 \/ rows[r].xmax \in O
    BY <1>1 DEF SInv, TInv, OwnOnly
<1>4. \A r : LiveRow(rows', active', r) <=> LiveRow(rows, active', r)
    BY <1>1, VacuumedLive
<1> HIDE DEF O
<1>5. \A r : LiveRow(rows, active', r) <=>
                \/ LiveRow(rows, active, r) /\ rows[r].xmax \notin O
                \/ r \in DOMAIN rows /\ rows[r].xmin \in O /\ rows[r].xmax = 0
    BY <1>1, <1>2, <1>3 DEF LiveRow
<1> QED
    BY <1>4, <1>5 DEF O

(* A statement outside a block replaces its row at once ... *)
LEMMA AutoKeptLive ==
    ASSUME IInv, SInv, NEW w, NEW k, NEW y, AutoWrite(w, k, y), AutoKept(w, y)
    PROVE  \A r : LiveRow(rows', active', r) <=>
                \/ LiveRow(rows, active, r) /\ r # w.old
                \/ r = w.new /\ r # 0
<1>1. FieldTypes /\ next_xid \in Nat /\ 0 < next_xid /\ 0 \notin DOMAIN rows
    BY Shapes
<1>2. next_xid \notin active /\ next_xid # 0
    BY <1>1 DEF FieldTypes
<1>3. Wrote(rows, w, k, next_xid, y) /\ active' = active
    BY DEF AutoWrite
<1>4. \A r : LiveRow(rows', active, r) <=> LiveRow(y, active, r)
    BY VacuumedLive DEF AutoKept
<1>5. \A r : LiveRow(y, active, r) <=>
                \/ LiveRow(rows, active, r) /\ r # w.old
                \/ r = w.new /\ r # 0
    BY <1>1, <1>2, <1>3 DEF LiveRow, Wrote
<1> QED
    BY <1>3, <1>4, <1>5

(* ... unless its record does not reach the disk: then nothing changes.     *)
LEMMA AutoUndoneLive ==
    ASSUME IInv, SInv, NEW w, NEW k, NEW y, AutoWrite(w, k, y), AutoUndone(w, y)
    PROVE  LiveSame
<1>1. FieldTypes /\ next_xid \in Nat /\ 0 < next_xid /\ 0 \notin DOMAIN rows
    BY Shapes
<1>2. next_xid \notin active /\ next_xid # 0
    BY <1>1 DEF FieldTypes
<1>3. /\ Wrote(rows, w, k, next_xid, y) /\ active' = active
      /\ w.old # 0 => rows[w.old].xmax = 0
    BY DEF AutoWrite
<1>4. PICK z : Undone(y, {next_xid}, <<w>>, z) /\ Vacuumed(z, active, snapshots, rows')
    BY DEF AutoUndone
<1>5. \A r \in DOMAIN rows : rows[r].xmin # next_xid /\ rows[r].xmax # next_xid
    BY <1>1, NothingCarries DEF SInv, Carries
<1>6. DOMAIN <<w>> = {1} /\ <<w>>[1] = w
    OBVIOUS
<1>7. \A r : r \in DOMAIN z <=> r \in DOMAIN rows
    BY <1>1, <1>3, <1>4, <1>5, <1>6 DEF Undone, Wrote
<1>8. \A r \in DOMAIN rows : z[r].xmin = rows[r].xmin /\ z[r].xmax = rows[r].xmax
  <2> SUFFICES ASSUME NEW r \in DOMAIN rows
               PROVE  z[r].xmin = rows[r].xmin /\ z[r].xmax = rows[r].xmax
    OBVIOUS
  <2>1. r \in DOMAIN z /\ r # 0 /\ z[r].xmin = y[r].xmin /\ y[r].xmin = rows[r].xmin
    BY <1>1, <1>3, <1>4, <1>7 DEF Undone, Wrote
  <2>2. CASE r = w.old
    BY <1>3, <1>4, <1>6, <2>1, <2>2 DEF Undone, Wrote
  <2>3. CASE r # w.old
    BY <1>3, <1>4, <1>5, <1>6, <2>1, <2>3 DEF Undone, Wrote
  <2> QED
    BY <2>1, <2>2, <2>3
<1>9. \A r : LiveRow(rows', active, r) <=> LiveRow(z, active, r)
    BY <1>4, VacuumedLive
<1>10. \A r : LiveRow(z, active, r) <=> LiveRow(rows, active, r)
    BY <1>7, <1>8 DEF LiveRow
<1> QED
    BY <1>3, <1>9, <1>10 DEF LiveSame

(* VACUUM changes nothing that is live. *)
LEMMA MaintenanceLive ==
    ASSUME NEW s \in Session, txn_vacuum(s)
    PROVE  LiveSame
<1>1. Vacuumed(rows, active, snapshots, rows') /\ active' = active
    BY VacuumVacuums DEF txn_vacuum
<1> QED
    BY <1>1, VacuumedLive DEF LiveSame

(* Every step but COMMIT, a statement outside a block and a restart leaves  *)
(* what is live alone.                                                      *)
LEMMA StepLive ==
    ASSUME "unlocked" \notin Client, IInv, AInv, LInv, SInv, [Next]_vars
    PROVE  \/ LiveSame
           \/ \E s \in Session : commit_taken_txn(s)
           \/ \E w, k, y : AutoWrite(w, k, y) /\ AutoKept(w, y)
           \/ Restart
<1>1. CASE Quiet
    BY <1>1, QuietLive
<1>2. ASSUME NEW s \in Session, NEW w, NEW k, NEW x,
             Open(s), Write(s, w, k), WriteEffect(s, w, k, x)
      PROVE  LiveSame
    BY <1>2, WriteLive
<1>3. ASSUME NEW s \in Session, NEW idx, txn_rollback_to(s, idx) PROVE LiveSame
    BY <1>3, RollbackToLive
<1>4. ASSUME NEW s \in Session, txn_rollback(s) PROVE LiveSame
    BY <1>4, RollbackLive
<1>5. ASSUME NEW w, NEW k, NEW y, AutoWrite(w, k, y), AutoUndone(w, y) PROVE LiveSame
    BY <1>5, AutoUndoneLive
<1>6. ASSUME NEW s \in Session, txn_vacuum(s) PROVE LiveSame
    BY <1>6, MaintenanceLive
<1> QED
    BY <1>1, <1>2, <1>3, <1>4, <1>5, <1>6, StepKinds

-----------------------------------------------------------------------------
(* The theorems.                                                            *)

BInv == IInv /\ AInv /\ LInv /\ SInv

(* When every block locks a row before it writes it, the stamps of every    *)
(* open transaction are in its log and on rows it made or locked, and no    *)
(* pinned snapshot sees into a running transaction.                         *)
THEOREM BlocksApart == ASSUME "unlocked" \notin Client PROVE Spec => []BInv
<1>1. Init => BInv
    BY InitIInv, InitAInv, InitSInv, NoLocks DEF BInv, LInv, Init
<1>2. BInv /\ [Next]_vars => BInv'
    BY NextIInv, NextAInv, NextLInv, NextSInv DEF BInv
<1> QED
    BY <1>1, <1>2, PTL DEF Spec

(* A row locked FOR UPDATE stays live: the commit that would kill it has    *)
(* locked it too or made it itself, and a statement outside a block checks  *)
(* the lock table.                                                          *)
LEMMA LockedStep ==
    ASSUME "unlocked" \notin Client, BInv, BInv', [Next]_vars, NEW r \in DOMAIN row_locks,
           r \in LiveRows, r \in DOMAIN row_locks', row_locks'[r] = row_locks[r]
    PROVE  r \in LiveRows'
<1>1. LiveRow(rows, active, r)
    BY LiveNow DEF BInv
<1>2. CASE LiveSame
    BY <1>1, <1>2, LiveNext DEF BInv, LiveSame
<1>3. ASSUME NEW s \in Session, commit_taken_txn(s) PROVE r \in LiveRows'
  <2> DEFINE O == all_xids(txn[s])
             L == LocksIn(lock_order, txn[s].xid)
  <2>1. txn[s].xid # 0 /\ row_locks[r] # txn[s].xid
    BY <1>3 DEF commit_taken_txn, retire_txn_family, Running, Open
  <2>2. \A x \in O : x \in active
    BY <2>1, OpenXids DEF BInv
  <2>3. rows[r].xmax \notin O
    <3> SUFFICES ASSUME rows[r].xmax \in O PROVE FALSE
      OBVIOUS
    <3>1. r \in DOMAIN rows /\ rows[r].xmin \notin O
      BY <1>1, <2>2 DEF LiveRow
    <3>2. PICK i \in DOMAIN txn[s].writes : Guarded(txn[s], L, i, r)
      BY <2>1, <3>1 DEF BInv, SInv, TInv, Stamps
    <3>3. PICK p \in DOMAIN L : L[p] = r
      BY <3>2 DEF Guarded
    <3>4. txn[s].xid \in DOMAIN lock_order /\ L = lock_order[txn[s].xid]
      BY <3>3, EmptySeq DEF LocksIn
    <3> QED
      BY <2>1, <3>3, <3>4 DEF BInv, LInv, LockInv
  <2>4. LiveRow(rows', active', r)
    BY <1>1, <1>3, <2>3, CommitLive DEF BInv
  <2> QED
    BY <2>4, LiveNext DEF BInv
<1>4. ASSUME NEW w, NEW k, NEW y, AutoWrite(w, k, y), AutoKept(w, y) PROVE r \in LiveRows'
  <2>1. r # w.old
    BY <1>1, <1>4, Shapes DEF AutoWrite, BInv, LiveRow
  <2>2. LiveRow(rows', active', r)
    BY <1>1, <1>4, <2>1, AutoKeptLive DEF BInv
  <2> QED
    BY <2>2, LiveNext DEF BInv
<1>5. CASE Restart
    BY <1>5 DEF Restart, NoEntries
<1> QED
    BY <1>2, <1>3, <1>4, <1>5, StepLive DEF BInv

(* A row one transaction holds FOR UPDATE is not deleted or replaced by     *)
(* another: neither COMMIT nor a statement outside a block ends it.         *)
THEOREM LockedRowsKept == ASSUME "unlocked" \notin Client PROVE Spec => LockedRowStaysLive
<1>1. BInv /\ BInv' /\ [Next]_vars =>
        [\A r \in DOMAIN row_locks :
            /\ r \in LiveRows
            /\ r \in DOMAIN row_locks' /\ row_locks'[r] = row_locks[r]
            => r \in LiveRows']_vars
    BY LockedStep
<1> QED
    BY <1>1, BlocksApart, PTL DEF Spec, LockedRowStaysLive

(* ROLLBACK, ROLLBACK TO and a failed statement outside a block, in an      *)
(* engine that does not restart.                                            *)
LEMMA RollbackStep ==
    ASSUME "unlocked" \notin Client, BInv, BInv', [Next]_vars, aborted' # aborted
    PROVE  LiveRows' = LiveRows \/ Restart
<1>1. CASE LiveSame
    BY <1>1, LiveNow, LiveNext DEF BInv, LiveSame
<1>2. ASSUME NEW s \in Session PROVE ~commit_taken_txn(s)
    BY DEF commit_taken_txn
<1>3. ASSUME NEW w, NEW y PROVE ~AutoKept(w, y)
    BY DEF AutoKept
<1> QED
    BY <1>1, <1>2, <1>3, StepLive DEF BInv

(* COMMIT that returns success has made the writes of its log live, and     *)
(* nothing it stamped is.                                                   *)
LEMMA CommitStep ==
    ASSUME "unlocked" \notin Client, BInv, BInv', [Next]_vars, NEW s \in Session, Commits(s),
           NEW i \in DOMAIN txn[s].writes
    PROVE  /\ txn[s].writes[i].old # 0 => txn[s].writes[i].old \notin LiveRows'
           /\ /\ txn[s].writes[i].new # 0
              /\ \A j \in DOMAIN txn[s].writes : txn[s].writes[j].old # txn[s].writes[i].new
              => txn[s].writes[i].new \in LiveRows'
<1> DEFINE t == txn[s]
           O == all_xids(t)
           w == t.writes[i]
<1>1. t.xid # 0 /\ txn'[s].xid = 0 /\ txn \in [Session -> Txn] /\ next_xid \in Nat
    BY Shapes DEF BInv, Commits, Open, NoTxn, NewTxn
<1>2. \A x \in O : x \in active /\ x # 0
    BY <1>1, OpenXids, Shapes DEF BInv, FieldTypes
<1>3. t.xid \in O
    BY DEF all_xids
<1>4. commit_taken_txn(s)
  <2>1. ~Quiet
    BY <1>1 DEF Quiet
  <2>2. ASSUME NEW u \in Session, NEW v, NEW k, NEW x, Open(u), Write(u, v, k) PROVE FALSE
    <3> DEFINE p == Pinned(txn[u])
               q == [p EXCEPT !.writes = Append(@, v)]
    <3>1. p \in Txn /\ p.xid = txn[u].xid
      BY <1>1, PinnedType, PinnedFields, Shapes DEF BInv
    <3>2. q.xid = p.xid
      BY <3>1 DEF Txn
    <3>3. txn' = [txn EXCEPT ![u] = q]
      BY <2>2 DEF Write
    <3> HIDE DEF p, q
    <3> QED
      BY <1>1, <3>1, <3>2, <3>3
  <2>3. ASSUME NEW u \in Session, NEW idx, txn_rollback_to(u, idx) PROVE FALSE
    BY <1>1, <2>3 DEF txn_rollback_to, Txn
  <2>4. ASSUME NEW u \in Session, txn_rollback(u) PROVE FALSE
    <3>1. CASE u = s
      BY <1>3, <2>4, <3>1 DEF txn_rollback, Commits
    <3>2. CASE u # s
      BY <1>1, <2>4, <3>2, EndEffect DEF BInv
    <3> QED
      BY <3>1, <3>2
  <2>5. ASSUME NEW u \in Session, u # s, commit_taken_txn(u) PROVE FALSE
    BY <1>1, <2>5, EndEffect DEF BInv
  <2>6. ASSUME NEW v, NEW k, NEW y, AutoWrite(v, k, y) PROVE FALSE
    BY <1>1, <2>6 DEF AutoWrite
  <2>7. ASSUME NEW u \in Session, txn_vacuum(u) PROVE FALSE
    BY <1>1, <2>7 DEF txn_vacuum
  <2>8. ASSUME Restart PROVE FALSE
    BY <1>2, <1>3, <2>8 DEF Restart, Commits
  <2> QED
    BY <2>1, <2>2, <2>3, <2>4, <2>5, <2>6, <2>7, <2>8, StepKinds DEF BInv
<1>5. \A r : r \in LiveRows' <=>
                \/ LiveRow(rows, active, r) /\ rows[r].xmax \notin O
                \/ r \in DOMAIN rows /\ rows[r].xmin \in O /\ rows[r].xmax = 0
    BY <1>4, CommitLive, LiveNext DEF BInv
<1>6. OpHolds(w, O, rows) /\ OwnOnly(t, rows) /\ Stamps(t, rows, LocksIn(lock_order, t.xid))
    BY <1>1 DEF BInv, SInv, TInv, OpsHold
<1> HIDE DEF O, w
<1>7. w.old # 0 => w.old \notin LiveRows'
    BY <1>2, <1>5, <1>6 DEF OpHolds
<1>8. ASSUME w.new # 0, \A j \in DOMAIN t.writes : t.writes[j].old # w.new
      PROVE  w.new \in LiveRows'
  <2>1. w.new \in DOMAIN rows /\ rows[w.new].xmin \in O
    BY <1>6, <1>8 DEF OpHolds
  <2>2. rows[w.new].xmax \notin O
    BY <1>6, <1>8, <2>1 DEF Stamps, O
  <2>3. rows[w.new].xmax = 0
    BY <1>6, <2>1, <2>2 DEF OwnOnly, O
  <2> QED
    BY <1>5, <2>1, <2>3
<1> QED
    BY <1>7, <1>8 DEF w

(* COMMIT is all or nothing: when it returns success every row it deleted   *)
(* or replaced is gone and every version it left is there, for the next     *)
(* statement of any session to see.                                         *)
THEOREM CommitsInstalled == ASSUME "unlocked" \notin Client PROVE Spec => CommitTakesEffect
<1>1. BInv /\ BInv' /\ [Next]_vars =>
        [\A s \in Session : Commits(s) =>
            LET olds == {txn[s].writes[i].old : i \in DOMAIN txn[s].writes} \ {0}
                news == {txn[s].writes[i].new : i \in DOMAIN txn[s].writes} \ {0}
            IN  olds \cap LiveRows' = {} /\ (news \ olds) \subseteq LiveRows']_vars
  <2> SUFFICES ASSUME BInv, BInv', [Next]_vars, NEW s \in Session, Commits(s)
               PROVE  LET olds == {txn[s].writes[i].old : i \in DOMAIN txn[s].writes} \ {0}
                          news == {txn[s].writes[i].new : i \in DOMAIN txn[s].writes} \ {0}
                      IN  olds \cap LiveRows' = {} /\ (news \ olds) \subseteq LiveRows'
    OBVIOUS
  <2> DEFINE q == txn[s].writes
  <2>1. \A i \in DOMAIN q :
            /\ q[i].old # 0 => q[i].old \notin LiveRows'
            /\ q[i].new # 0 /\ (\A j \in DOMAIN q : q[j].old # q[i].new) => q[i].new \in LiveRows'
    BY CommitStep
  <2> HIDE DEF q
  <2>2. LET olds == {q[i].old : i \in DOMAIN q} \ {0}
            news == {q[i].new : i \in DOMAIN q} \ {0}
        IN  olds \cap LiveRows' = {} /\ (news \ olds) \subseteq LiveRows'
    BY <2>1
  <2> QED
    BY <2>2 DEF q
<1> QED
    BY <1>1, BlocksApart, PTL DEF Spec, CommitTakesEffect

-----------------------------------------------------------------------------
(* What a pinned snapshot shows.                                            *)

SeenRow(rws, snap, O, r) == r \in DOMAIN rws /\ row_visible(rws[r], snap, O)

(* A write under an xid the snapshot does not see, of a clean version. *)
LEMMA WroteUnseen ==
    ASSUME NEW rws, 0 \notin DOMAIN rws, NEW w, NEW k, NEW x, NEW z, Wrote(rws, w, k, x, z),
           w.old # 0 => rws[w.old].xmax = 0,
           NEW snap, ~SeenCommitted(x, snap), NEW O, x \notin O
    PROVE  \A r : SeenRow(z, snap, O, r) <=> SeenRow(rws, snap, O, r)
    BY DEF SeenRow, Wrote, row_visible

(* An undo of xids the snapshot does not see. *)
LEMMA UndoneUnseen ==
    ASSUME NEW rws, NEW A, NEW ops, NEW z, Undone(rws, A, ops, z),
           NEW snap, \A x \in A : ~SeenCommitted(x, snap), NEW O, \A x \in A : x \notin O
    PROVE  \A r : SeenRow(z, snap, O, r) <=> SeenRow(rws, snap, O, r)
    BY DEF SeenRow, Undone, row_visible

(* VACUUM takes no version a registered snapshot sees. *)
LEMMA VacuumedUnseen ==
    ASSUME NEW rws, NEW act, NEW snaps, NEW z, Vacuumed(rws, act, snaps, z),
           NEW x \in DOMAIN snaps, NEW O
    PROVE  \A r : SeenRow(z, snaps[x], O, r) <=> SeenRow(rws, snaps[x], O, r)
    BY DEF SeenRow, Vacuumed, row_visible, version_dead_to_all

(* A step that leaves the pinned transaction of s alone. *)
LEMMA SnapshotStep ==
    ASSUME "unlocked" \notin Client, BInv, BInv', [Next]_vars, NEW s \in Session,
           txn[s].snapshot # NoSnapshot, txn'[s] = txn[s]
    PROVE  \A r : SeenRow(rows', txn[s].snapshot, all_xids(txn[s]), r) <=>
                  SeenRow(rows, txn[s].snapshot, all_xids(txn[s]), r)
<1> DEFINE t == txn[s]
           p == t.snapshot
           O == all_xids(t)
<1>1. /\ FieldTypes /\ next_xid \in Nat /\ 0 \notin DOMAIN rows /\ txn \in [Session -> Txn]
      /\ t \in Txn /\ IInv /\ SInv
    BY Shapes DEF BInv
<1>2. t.xid # 0
  <2>1. ~Open(s) => t = NoTxn
    BY <1>1 DEF IInv, XidOwnership
  <2> QED
    BY <2>1 DEF Open, NoTxn, NewTxn
<1>3. /\ \A x \in active : ~SeenCommitted(x, p)
      /\ ~SeenCommitted(next_xid, p)
  <2>1. PinnedOK(t, active, next_xid) /\ p.next_xid \in Nat
    BY <1>1 DEF SInv, Txn, Snapshot
  <2> QED
    BY <1>1, <2>1 DEF PinnedOK, SeenCommitted
<1>4. next_xid \notin O
    BY <1>1, <1>2, OpenXids
<1>5. /\ t.xid \in DOMAIN snapshots /\ snapshots[t.xid] = p
      /\ t.xid \in DOMAIN snapshots' /\ snapshots'[t.xid] = p
  <2>1. XidOwnership /\ XidOwnership'
    BY DEF BInv, IInv
  <2> QED
    BY <2>1 DEF XidOwnership
<1>6. \A u \in Session : u # s /\ txn[u].xid # 0 =>
            \A x \in all_xids(txn[u]) : x \in active /\ ~SeenCommitted(x, p) /\ x \notin O
    BY <1>1, <1>2, <1>3, OpenXids, DisjointXids
<1>7. p # NoSnapshot /\ txn'[s] # NoTxn
    BY DEF NoTxn, NewTxn
<1> DEFINE Same == \A r : SeenRow(rows', p, O, r) <=> SeenRow(rows, p, O, r)
<1> HIDE DEF p, O
<1>8. ASSUME Quiet PROVE Same
    BY <1>8 DEF Quiet
<1>9. ASSUME NEW u \in Session, NEW w, NEW k, NEW x,
             Open(u), Write(u, w, k), WriteEffect(u, w, k, x)
      PROVE  Same
  <2>1. u # s
    <3>1. txn'[u].writes = Append(txn[u].writes, w) /\ txn[u].writes \in Seq(WriteOp)
          /\ w \in WriteOp
      BY <1>1, <1>9 DEF WriteEffect, Txn
    <3>2. Len(txn'[u].writes) = Len(txn[u].writes) + 1 /\ Len(txn[u].writes) \in Nat
      BY <3>1, AppendDomain, LenProperties
    <3> QED
      BY <3>2
  <2>2. /\ Wrote(rows, w, k, x, rows') /\ (w.old # 0 => rows[w.old].xmax = 0)
        /\ x \in all_xids(txn[u])
    BY <1>9 DEF WriteEffect
  <2>3. ~SeenCommitted(x, p) /\ x \notin O
    BY <1>6, <1>9, <2>1, <2>2 DEF Open
  <2> QED
    BY <1>1, <2>2, <2>3, WroteUnseen
<1>10. ASSUME NEW u \in Session, NEW idx, txn_rollback_to(u, idx) PROVE Same
  <2>1. u # s
    <3>1. txn'[u].owned_xids = txn[u].owned_xids \cup {next_xid}
      BY <1>1, <1>10 DEF txn_rollback_to, Txn
    <3> QED
      BY <1>4, <3>1 DEF O, all_xids
  <2>2. Undone(rows, all_xids(txn[u]), UndoneOps(txn[u], idx), rows') /\ txn[u].xid # 0
    BY <1>1, <1>10, RollbackToEffect DEF txn_rollback_to, Open
  <2> QED
    BY <1>6, <2>1, <2>2, UndoneUnseen
<1>11. ASSUME NEW z, Vacuumed(z, active', snapshots', rows') \/ Vacuumed(z, active, snapshots, rows')
       PROVE  \A r : SeenRow(rows', p, O, r) <=> SeenRow(z, p, O, r)
    BY <1>5, <1>11, VacuumedUnseen
<1>12. ASSUME NEW u \in Session, txn_rollback(u) \/ commit_taken_txn(u) PROVE Same
  <2>1. u # s /\ txn[u].xid # 0
    BY <1>1, <1>7, <1>12, EndEffect
  <2>2. CASE txn_rollback(u)
    <3>1. PICK z : /\ Undone(rows, all_xids(txn[u]), txn[u].writes, z)
                   /\ Vacuumed(z, active', snapshots', rows')
      BY <1>1, <2>2, EndEffect
    <3>2. \A r : SeenRow(z, p, O, r) <=> SeenRow(rows, p, O, r)
      BY <1>6, <2>1, <3>1, UndoneUnseen
    <3> QED
      BY <1>11, <3>1, <3>2
  <2>3. CASE commit_taken_txn(u)
    BY <1>1, <1>11, <2>3, EndEffect
  <2> QED
    BY <1>12, <2>2, <2>3
<1>13. ASSUME NEW w, NEW k, NEW y, AutoWrite(w, k, y), AutoKept(w, y) \/ AutoUndone(w, y)
       PROVE  Same
  <2>1. Wrote(rows, w, k, next_xid, y) /\ (w.old # 0 => rows[w.old].xmax = 0)
    BY <1>13 DEF AutoWrite
  <2>2. \A r : SeenRow(y, p, O, r) <=> SeenRow(rows, p, O, r)
    BY <1>1, <1>3, <1>4, <2>1, WroteUnseen
  <2>3. CASE AutoKept(w, y)
    BY <1>11, <2>2, <2>3 DEF AutoKept
  <2>4. CASE AutoUndone(w, y)
    <3>1. PICK z : Undone(y, {next_xid}, <<w>>, z) /\ Vacuumed(z, active, snapshots, rows')
      BY <2>4 DEF AutoUndone
    <3>2. \A r : SeenRow(z, p, O, r) <=> SeenRow(y, p, O, r)
      BY <1>3, <1>4, <3>1, UndoneUnseen
    <3> QED
      BY <1>11, <2>2, <3>1, <3>2
  <2> QED
    BY <1>13, <2>3, <2>4
<1>14. ASSUME NEW u \in Session, txn_vacuum(u) PROVE Same
    BY <1>11, <1>14, VacuumVacuums DEF txn_vacuum
<1>15. ASSUME Restart PROVE Same
    BY <1>7, <1>15 DEF Restart
<1>16. AInv /\ LInv
    BY DEF BInv
<1> HIDE DEF Same
<1>17. Same
    BY <1>1, <1>16, <1>8, <1>9, <1>10, <1>12, <1>13, <1>14, <1>15, StepKinds
<1> QED
    BY <1>17 DEF Same, p, O

(* Between its own statements a REPEATABLE READ transaction keeps seeing    *)
(* the same rows, whatever other sessions commit, roll back or vacuum.      *)
THEOREM SnapshotsStable == ASSUME "unlocked" \notin Client PROVE Spec => SnapshotStable
<1>1. BInv /\ BInv' /\ [Next]_vars =>
        [\A s \in Session :
            /\ txn[s].snapshot # NoSnapshot
            /\ txn'[s] = txn[s]
            => Visible(txn[s])' = Visible(txn[s])]_vars
  <2> SUFFICES ASSUME BInv, BInv', [Next]_vars, NEW s \in Session,
                      txn[s].snapshot # NoSnapshot, txn'[s] = txn[s]
               PROVE  Visible(txn[s])' = Visible(txn[s])
    OBVIOUS
  <2>1. txn[s].level = "RR"
    BY DEF BInv, SInv, PinnedOK
  <2>2. /\ Visible(txn[s]) =
            {r \in DOMAIN rows : row_visible(rows[r], txn[s].snapshot, all_xids(txn[s]))}
        /\ Visible(txn[s])' =
            {r \in DOMAIN rows' : row_visible(rows'[r], txn[s].snapshot, all_xids(txn[s]))}
    BY <2>1 DEF Visible, stmt_snapshot, all_xids
  <2>3. \A r : SeenRow(rows', txn[s].snapshot, all_xids(txn[s]), r) <=>
               SeenRow(rows, txn[s].snapshot, all_xids(txn[s]), r)
    BY SnapshotStep
  <2> QED
    BY <2>2, <2>3 DEF SeenRow
<1> QED
    BY <1>1, BlocksApart, PTL DEF Spec, SnapshotStable

=============================================================================
