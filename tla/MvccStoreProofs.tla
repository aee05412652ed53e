--------------------------- MODULE MvccStoreProofs ---------------------------
(***************************************************************************)
(* Memory and disk agree: when blocks lock the rows they write, take no     *)
(* savepoint and update no version of their own UPDATE, every commit        *)
(* replays exactly (records_for_commit keeps every op, apply_record finds   *)
(* every version), so a restart brings back what sessions see.  With that,  *)
(* the engine implements AtomicStore.                                       *)
(*                                                                         *)
(* The three client behaviours that are left out are those for which the    *)
(* code does lose or resurrect rows at a restart.                           *)
(*                                                                         *)
(* Then the unique index: no two live versions of a key, because an UPDATE  *)
(* that keeps its key replaces a version by another of the same chain, and  *)
(* chains of one key have one end.                                          *)
(*                                                                         *)
(* The last two sections need none of these assumptions: undoing a write    *)
(* log op by op is undoing it at once, and no id in use, in memory or on    *)
(* disk, is at or above its counter.                                        *)
(***************************************************************************)
EXTENDS MvccProofs

-----------------------------------------------------------------------------
(* Transactions without savepoints.                                         *)

(* No op writes the version an UPDATE of the same log made. *)
PlainLog(q) ==
    \A i, j \in DOMAIN q : q[i].old # 0 /\ q[j].new = q[i].old => q[j].op # "update"

Flat(t) == t.owned_xids = {} /\ t.savepoints = <<>> /\ t.sub_xids = <<>>

Plain(t) == Flat(t) /\ PlainLog(t.writes)

(* A transaction starts plain. *)
LEMMA PlainNew ==
    ASSUME NEW x, NEW level
    PROVE  Plain(NewTxn(x, level))
<1> DEFINE t == NewTxn(x, level)
<1>1. /\ t.owned_xids = {} /\ t.savepoints = <<>> /\ t.sub_xids = <<>> /\ t.writes = <<>>
    BY DEF NewTxn
<1>2. DOMAIN t.writes = {}
    BY <1>1
<1> HIDE DEF t
<1>3. Plain(t)
    BY <1>1, <1>2 DEF Plain, Flat, PlainLog
<1> QED
    BY <1>3 DEF t

(* A step of one session, or of none. *)
LEMMA PlainOne ==
    ASSUME txn \in [Session -> Txn], \A s \in Session : Plain(txn[s]),
           NEW s \in Session, NEW t, Plain(t), txn' = [txn EXCEPT ![s] = t]
    PROVE  \A v \in Session : Plain(txn'[v])
    OBVIOUS

(* A write: its row is not one an UPDATE of the log made.                   *)
LEMMA PlainWrite ==
    ASSUME IInv, SInv, \A v \in Session : Plain(txn[v]), NEW s \in Session, Open(s),
           NEW w \in WriteOp, w.new \in {0, next_row_id},
           w.old # 0 => /\ w.old \in DOMAIN rows
                        /\ \A j \in DOMAIN txn[s].writes :
                                txn[s].writes[j].op = "update" => txn[s].writes[j].new # w.old,
           NEW k, Write(s, w, k)
    PROVE  \A v \in Session : Plain(txn'[v])
<1> DEFINE t == txn[s]
           p == Pinned(t)
           u == [p EXCEPT !.writes = Append(@, w)]
           q == t.writes
           n == Len(q)
<1>1. /\ FieldTypes /\ t \in Txn /\ txn \in [Session -> Txn] /\ next_row_id \in Nat
      /\ RowTable(rows, next_row_id)
    BY Shapes
<1>2. /\ p \in Txn /\ p.owned_xids = t.owned_xids /\ p.savepoints = t.savepoints
      /\ p.sub_xids = t.sub_xids /\ p.writes = q
    BY <1>1, PinnedType, PinnedFields
<1>3. txn' = [txn EXCEPT ![s] = u]
    BY DEF Write
<1> HIDE DEF p
<1>4. /\ u.owned_xids = t.owned_xids /\ u.savepoints = t.savepoints
      /\ u.sub_xids = t.sub_xids /\ u.writes = Append(q, w)
    BY <1>2 DEF Txn
<1>5. \A i \in DOMAIN q : q[i].old # 0 => q[i].old \in DOMAIN rows
    BY DEF SInv, TInv, OpsHold, OpHolds, Open
<1>6. \A r \in DOMAIN rows : r \in 1..(next_row_id - 1)
    BY <1>1 DEF RowTable
<1>7. PlainLog(q)
    BY DEF Plain, Flat
<1>8. q \in Seq(WriteOp)
    BY <1>1 DEF Txn
<1>9. /\ DOMAIN q = 1..n /\ n \in Nat /\ DOMAIN Append(q, w) = 1..n + 1
      /\ Append(q, w)[n + 1] = w /\ \A i \in 1..n : Append(q, w)[i] = q[i]
    BY <1>8, AppendDomain, LenProperties
<1> HIDE DEF q, n
<1>10. PlainLog(Append(q, w))
  <2> DEFINE z == Append(q, w)
  <2> SUFFICES ASSUME NEW i \in DOMAIN z, NEW j \in DOMAIN z, z[i].old # 0, z[j].new = z[i].old
               PROVE  z[j].op # "update"
    BY DEF PlainLog
  <2>1. (i \in DOMAIN q /\ z[i] = q[i]) \/ z[i] = w
    BY <1>9
  <2>2. (j \in DOMAIN q /\ z[j] = q[j]) \/ z[j] = w
    BY <1>9
  <2> HIDE DEF z
  <2>3. z[i].old \in DOMAIN rows /\ z[i].old < next_row_id
    BY <1>1, <1>5, <1>6, <2>1
  <2>4. CASE z[j] = w
    BY <1>1, <2>3, <2>4
  <2>5. CASE j \in DOMAIN q /\ z[j] = q[j] /\ z[i] = w
    BY <2>5 DEF q
  <2>6. CASE j \in DOMAIN q /\ z[j] = q[j] /\ i \in DOMAIN q /\ z[i] = q[i]
    BY <1>7, <2>6 DEF PlainLog
  <2> QED
    BY <2>1, <2>2, <2>4, <2>5, <2>6
<1>11. Plain(t)
    OBVIOUS
<1> HIDE DEF u, t
<1>12. Plain(u)
    BY <1>4, <1>10, <1>11 DEF Plain, Flat
<1> QED
    BY <1>1, <1>3, <1>12, PlainOne

(* Every step keeps the transactions plain. *)
LEMMA PlainStep ==
    ASSUME "unlocked" \notin Client, "savepoint" \notin Client, "reupdate" \notin Client,
           BInv, \A s \in Session : Plain(txn[s]), [Next]_vars
    PROVE  \A s \in Session : Plain(txn'[s])
<1>1. /\ IInv /\ LInv /\ SInv /\ FieldTypes /\ txn \in [Session -> Txn] /\ next_row_id \in Nat
      /\ \A s \in Session : txn[s] \in Txn
    BY Shapes DEF BInv
<1>2. Plain(NoTxn)
    BY PlainNew DEF NoTxn
<1>3. CASE UNCHANGED txn
    BY <1>3
<1>4. ASSUME NEW s \in Session, NEW level \in Level, txn_begin(s, level)
      PROVE  \A v \in Session : Plain(txn'[v])
    BY <1>1, <1>4, PlainNew, PlainOne DEF txn_begin
<1>5. ASSUME NEW s \in Session, NEW r,
             exec_select(s) \/ StmtError(s) \/ acquire_row_locks(s, r)
      PROVE  \A v \in Session : Plain(txn'[v])
  <2> DEFINE p == Pinned(txn[s])
             f == [p EXCEPT !.failed = TRUE]
  <2>1. /\ p \in Txn /\ p.owned_xids = txn[s].owned_xids /\ p.savepoints = txn[s].savepoints
        /\ p.sub_xids = txn[s].sub_xids /\ p.writes = txn[s].writes
    BY <1>1, PinnedType, PinnedFields
  <2>2. PICK t \in {p, f} : txn' = [txn EXCEPT ![s] = t]
    BY <1>5 DEF exec_select, StmtError, acquire_row_locks
  <2> HIDE DEF p
  <2>3. /\ f.owned_xids = p.owned_xids /\ f.savepoints = p.savepoints
        /\ f.sub_xids = p.sub_xids /\ f.writes = p.writes
    BY <2>1 DEF Txn
  <2> HIDE DEF f
  <2>4. Plain(t)
    BY <2>1, <2>2, <2>3 DEF Plain, Flat
  <2> QED
    BY <1>1, <2>2, <2>4, PlainOne
<1>6. ASSUME NEW s \in Session, NEW k, exec_insert(s, k)
      PROVE  \A v \in Session : Plain(txn'[v])
  <2>1. /\ InsertRow(next_row_id) \in WriteOp /\ InsertRow(next_row_id).new = next_row_id
        /\ InsertRow(next_row_id).old = 0
    BY <1>1, OpTypes DEF InsertRow
  <2> QED
    BY <1>1, <1>6, <2>1, PlainWrite DEF exec_insert, Running
<1>7. ASSUME NEW s \in Session, NEW r \in DOMAIN rows, NEW w \in WriteOp, NEW k,
             w.new \in {0, next_row_id}, w.old = r,
             Running(s), MayWrite(txn[s], r), Write(s, w, k)
      PROVE  \A v \in Session : Plain(txn'[v])
  <2>1. \A j \in DOMAIN txn[s].writes :
            txn[s].writes[j].op = "update" => txn[s].writes[j].new # r
    BY <1>7 DEF MayWrite
  <2> QED
    BY <1>1, <1>7, <2>1, PlainWrite DEF Running
<1>8. ASSUME NEW s \in Session, NEW r \in DOMAIN rows, exec_delete(s, r)
      PROVE  \A v \in Session : Plain(txn'[v])
  <2>1. DeleteRow(r) \in WriteOp /\ DeleteRow(r).new = 0 /\ DeleteRow(r).old = r
    BY <1>1, OpTypes DEF DeleteRow
  <2> QED
    BY <1>7, <1>8, <2>1 DEF exec_delete
<1>9. ASSUME NEW s \in Session, NEW r \in DOMAIN rows, NEW k, exec_update(s, r, k)
      PROVE  \A v \in Session : Plain(txn'[v])
  <2>1. /\ UpdateRow(r, next_row_id) \in WriteOp /\ UpdateRow(r, next_row_id).old = r
        /\ UpdateRow(r, next_row_id).new = next_row_id
    BY <1>1, OpTypes DEF UpdateRow
  <2> QED
    BY <1>7, <1>9, <2>1 DEF exec_update
<1>10. ASSUME NEW s \in Session, NEW idx, txn_savepoint(s) \/ txn_rollback_to(s, idx)
                                          \/ txn_release(s, idx)
       PROVE  FALSE
  <2>1. DOMAIN txn[s].savepoints = {}
    BY DEF Plain, Flat
  <2> QED
    BY <1>10, <2>1 DEF txn_savepoint, txn_rollback_to, txn_release
<1>11. ASSUME NEW s \in Session, txn_rollback(s) \/ commit_taken_txn(s)
       PROVE  \A v \in Session : Plain(txn'[v])
    BY <1>1, <1>2, <1>11, EndEffect, PlainOne
<1>12. ASSUME NEW s \in Session, NEW r, NEW k,
              \/ auto_insert(s, k) \/ auto_delete(s, r) \/ auto_update(s, r, k)
              \/ auto_error(s) \/ txn_vacuum(s) \/ txn_checkpoint(s)
       PROVE  UNCHANGED txn
    BY <1>12 DEF auto_insert, auto_delete, auto_update, auto_error, txn_vacuum, txn_checkpoint,
                 autocommit_execute
<1>13. CASE Restart
    BY <1>2, <1>13 DEF Restart
<1> QED
    BY <1>3, <1>4, <1>5, <1>6, <1>8, <1>9, <1>10, <1>11, <1>12, <1>13
    DEF Next, vars, CommitFails

-----------------------------------------------------------------------------
(* Memory and disk.                                                         *)

(* The disk holds no version of a running transaction, and its live         *)
(* versions are those of the table.                                         *)
OnDisk(rws, act, d) ==
    /\ \A r \in DOMAIN d.rows : r \in DOMAIN rws => rws[r].xmin \notin act
    /\ \A r : LiveRow(rws, act, r) <=> r \in DOMAIN d.rows /\ d.rows[r].xmax = 0

DInv ==
    /\ \A s \in Session : Plain(txn[s])
    /\ 0 < disk.next_row_id /\ disk.next_row_id <= next_row_id
    /\ OnDisk(rows, active, disk)

(* A step keeps the creator and the key of every version it keeps, and new  *)
(* versions take the next row id.                                           *)
LEMMA StepKeeps ==
    ASSUME "unlocked" \notin Client, BInv, [Next]_vars
    PROVE  \/ Restart
           \/ /\ \A r \in DOMAIN rows' : \/ /\ r \in DOMAIN rows /\ rows'[r].xmin = rows[r].xmin
                                            /\ rows'[r].key = rows[r].key
                                         \/ r = next_row_id
              /\ \A x \in active' : x \in active \/ x = next_xid
<1> DEFINE Kept == \A r \in DOMAIN rows' : \/ /\ r \in DOMAIN rows /\ rows'[r].xmin = rows[r].xmin
                                              /\ rows'[r].key = rows[r].key
                                           \/ r = next_row_id
           Few == \A x \in active' : x \in active \/ x = next_xid
<1>1. IInv /\ AInv /\ LInv /\ SInv
    BY DEF BInv
<1>2. ASSUME Quiet PROVE Kept /\ Few
    BY <1>2 DEF Quiet
<1>3. ASSUME NEW s \in Session, NEW w, NEW k, NEW x,
             Write(s, w, k), WriteEffect(s, w, k, x), w.new \in {0, next_row_id}
      PROVE  Kept /\ Few
    BY <1>3 DEF Write, WriteEffect, Wrote
<1>4. ASSUME NEW s \in Session, NEW idx, txn_rollback_to(s, idx) PROVE Kept /\ Few
  <2>1. Undone(rows, all_xids(txn[s]), UndoneOps(txn[s], idx), rows')
    BY <1>1, <1>4, RollbackToEffect
  <2>2. Few
    BY <1>4 DEF txn_rollback_to
  <2> QED
    BY <2>1, <2>2 DEF Undone
<1>5. ASSUME NEW s \in Session, txn_rollback(s) \/ commit_taken_txn(s) PROVE Kept /\ Few
  <2>1. Few
    BY <1>1, <1>5, EndEffect
  <2>2. CASE txn_rollback(s)
    <3>1. PICK z : /\ Undone(rows, all_xids(txn[s]), txn[s].writes, z)
                   /\ Vacuumed(z, active', snapshots', rows')
      BY <1>1, <2>2, EndEffect
    <3> QED
      BY <2>1, <3>1 DEF Undone, Vacuumed
  <2>3. CASE commit_taken_txn(s)
    BY <1>1, <2>1, <2>3, EndEffect DEF Vacuumed
  <2> QED
    BY <1>5, <2>2, <2>3
<1>6. ASSUME NEW w, NEW k, NEW y, AutoWrite(w, k, y), AutoKept(w, y) \/ AutoUndone(w, y)
      PROVE  Kept /\ Few
  <2>1. /\ \A r \in DOMAIN y : \/ /\ r \in DOMAIN rows /\ y[r].xmin = rows[r].xmin
                                  /\ y[r].key = rows[r].key
                               \/ r = next_row_id
        /\ active' = active
    BY <1>6 DEF AutoWrite, Wrote
  <2>2. CASE AutoKept(w, y)
    BY <2>1, <2>2 DEF AutoKept, Vacuumed
  <2>3. CASE AutoUndone(w, y)
    <3>1. PICK z : Undone(y, {next_xid}, <<w>>, z) /\ Vacuumed(z, active, snapshots, rows')
      BY <2>3 DEF AutoUndone
    <3>2. \A r \in DOMAIN rows' : /\ r \in DOMAIN y /\ rows'[r].xmin = y[r].xmin
                                  /\ rows'[r].key = y[r].key
      BY <3>1 DEF Undone, Vacuumed
    <3> QED
      BY <2>1, <3>2
  <2> QED
    BY <1>6, <2>2, <2>3
<1>7. ASSUME NEW s \in Session, txn_vacuum(s) PROVE Kept /\ Few
  <2>1. Vacuumed(rows, active, snapshots, rows') /\ active' = active
    BY <1>7, VacuumVacuums DEF txn_vacuum
  <2> QED
    BY <2>1 DEF Vacuumed
<1> HIDE DEF Kept, Few
<1>8. Restart \/ (Kept /\ Few)
    BY <1>1, <1>2, <1>3, <1>4, <1>5, <1>6, <1>7, StepKinds
<1> QED
    BY <1>8 DEF Kept, Few

(* So the versions on disk stay versions of finished transactions.          *)
LEMMA OldOnDisk ==
    ASSUME "unlocked" \notin Client, BInv, DInv, [Next]_vars, ~Restart
    PROVE  \A r \in DOMAIN disk.rows : r \in DOMAIN rows' => rows'[r].xmin \notin active'
<1> SUFFICES ASSUME NEW r \in DOMAIN disk.rows, r \in DOMAIN rows'
             PROVE  rows'[r].xmin \notin active'
    OBVIOUS
<1>1. r # next_row_id
  <2>1. /\ RowTable(disk.rows, disk.next_row_id) /\ disk.next_row_id \in Nat
        /\ next_row_id \in Nat /\ disk.next_row_id <= next_row_id
    BY Shapes DEF BInv, DInv, DiskImage
  <2> QED
    BY <2>1 DEF RowTable
<1>2. r \in DOMAIN rows /\ rows'[r].xmin = rows[r].xmin
    BY <1>1, StepKeeps
<1>3. rows[r].xmin \notin active
    BY <1>2 DEF DInv, OnDisk
<1>4. rows[r].xmin # next_xid
    BY <1>2, NothingCarries DEF BInv, IInv, SInv, Carries
<1> QED
    BY <1>2, <1>3, <1>4, StepKeeps

(* A version stamped by an open transaction is its own, or live.            *)
LEMMA StampedLive ==
    ASSUME BInv, NEW s \in Session, txn[s].xid # 0, NEW r \in DOMAIN rows,
           rows[r].xmax \in all_xids(txn[s])
    PROVE  rows[r].xmin \in all_xids(txn[s]) \/ LiveRow(rows, active, r)
<1>1. /\ IInv /\ SInv /\ FieldTypes
    BY DEF BInv, IInv
<1>2. rows[r].xmax \in active /\ rows[r].xmax # 0
    BY <1>1, OpenXids DEF FieldTypes
<1>3. ASSUME rows[r].xmin \in active, rows[r].xmin \notin all_xids(txn[s]) PROVE FALSE
  <2>1. PICK u \in Session : txn[u].xid # 0 /\ rows[r].xmin \in all_xids(txn[u])
    BY <1>1, <1>3, OwnedIsXidOwnership DEF IInv, Owned
  <2>2. rows[r].xmax \in all_xids(txn[u])
    BY <1>1, <1>2, <2>1 DEF SInv, TInv, OwnOnly
  <2>3. u # s
    BY <1>3, <2>1
  <2> QED
    BY <1>1, <2>1, <2>2, <2>3, DisjointXids
<1> QED
    BY <1>2, <1>3 DEF LiveRow

(* records_for_commit keeps every op of a plain transaction, and            *)
(* apply_record finds every version they stamp.                             *)
LEMMA EveryOpReplays ==
    ASSUME BInv, DInv, NEW s \in Session, txn[s].xid # 0
    PROVE  LET q == txn[s].writes
               logged == records_for_commit(rows, q, txn[s].xid)
           IN  /\ logged = DOMAIN q
               /\ \A i \in DOMAIN q : q[i].old # 0 => Replayable(disk, q, logged, i)
<1> DEFINE t == txn[s]
           q == t.writes
           O == all_xids(t)
           logged == records_for_commit(rows, q, t.xid)
<1>1. /\ Plain(t) /\ Logged(t, rows) /\ OpsHold(t, rows) /\ OpsApart(q)
      /\ q \in Seq(WriteOp)
    BY Shapes DEF BInv, DInv, AInv, Undoable, SInv, TInv, Txn
<1>2. O = {t.xid}
    BY <1>1 DEF Plain, Flat, all_xids
<1>3. \A i \in DOMAIN q :
        /\ q[i].old # 0 => q[i].old \in DOMAIN rows /\ rows[q[i].old].xmax = t.xid
        /\ q[i].new # 0 => q[i].new \in DOMAIN rows /\ rows[q[i].new].xmin = t.xid
    BY <1>1, <1>2 DEF OpsHold, OpHolds
<1>4. logged = DOMAIN q
    BY <1>3 DEF records_for_commit, StillOurs, own_row
<1>5. ASSUME NEW i \in DOMAIN q, q[i].old # 0
      PROVE  Replayable(disk, q, logged, i)
  <2>1. q[i].old \in DOMAIN rows /\ rows[q[i].old].xmax \in O
    BY <1>2, <1>3, <1>5
  <2>2. CASE rows[q[i].old].xmin \in O
    <3>1. PICK j \in DOMAIN q : q[j].new = q[i].old
      BY <1>1, <2>1, <2>2 DEF Logged
    <3>2. j < i
      BY <1>1, <1>5, <3>1 DEF OpsApart
    <3>3. q[j].op # "update"
      BY <1>1, <1>5, <3>1 DEF Plain, Flat, PlainLog
    <3>4. j \in Nat
      BY <1>1, LenProperties
    <3>5. ~SameRecord(q, logged, j, i)
      BY <1>1, <1>4, <3>1, <3>2, <3>3, <3>4, LenProperties DEF SameRecord
    <3> QED
      BY <1>4, <3>1, <3>2, <3>5 DEF Replayable
  <2>3. CASE LiveRow(rows, active, q[i].old)
    BY <2>3 DEF Replayable, DInv, OnDisk
  <2> QED
    BY <2>1, <2>2, <2>3, StampedLive
<1> QED
    BY <1>4, <1>5

(* After COMMIT the live versions on disk are those of the table. *)
LEMMA CommitOnDisk ==
    ASSUME BInv, DInv, NEW s \in Session, commit_taken_txn(s)
    PROVE  \A r : LiveRow(rows', active', r) <=> r \in DOMAIN disk'.rows /\ disk'.rows[r].xmax = 0
<1> DEFINE t == txn[s]
           q == t.writes
           O == all_xids(t)
           x == t.xid
           logged == records_for_commit(rows, q, x)
           made(r) == r # 0 /\ \E i \in DOMAIN q : q[i].new = r
           stamped(r) == \E i \in DOMAIN q : q[i].old = r
<1>1. /\ x # 0 /\ Replayed(disk, rows, q, x, disk')
      /\ DiskImage(disk)
    BY EndEffect, Shapes DEF BInv
<1>2. /\ Plain(t) /\ Logged(t, rows) /\ OpsHold(t, rows) /\ OwnOnly(t, rows)
      /\ Stamps(t, rows, LocksIn(lock_order, x)) /\ OnDisk(rows, active, disk)
    BY <1>1 DEF BInv, DInv, AInv, Undoable, SInv, TInv
<1>3. O = {x}
    BY <1>2 DEF Plain, Flat, all_xids
<1>4. \A r : LiveRow(rows', active', r) <=>
                \/ LiveRow(rows, active, r) /\ rows[r].xmax # x
                \/ r \in DOMAIN rows /\ rows[r].xmin = x /\ rows[r].xmax = 0
    BY <1>3, CommitLive DEF BInv
<1>5. \A r : made(r) <=> r \in DOMAIN rows /\ rows[r].xmin = x
  <2>1. 0 \notin DOMAIN rows
    BY Shapes DEF BInv
  <2>2. \A i \in DOMAIN q : q[i].new # 0 => q[i].new \in DOMAIN rows /\ rows[q[i].new].xmin = x
    BY <1>2, <1>3 DEF OpsHold, OpHolds
  <2>3. \A r \in DOMAIN rows : rows[r].xmin = x => \E i \in DOMAIN q : q[i].new = r
    BY <1>2, <1>3 DEF Logged
  <2> QED
    BY <2>1, <2>2, <2>3
<1>6. \A r : r # 0 => (stamped(r) <=> r \in DOMAIN rows /\ rows[r].xmax = x)
  <2>1. \A i \in DOMAIN q : q[i].old # 0 => q[i].old \in DOMAIN rows /\ rows[q[i].old].xmax = x
    BY <1>2, <1>3 DEF OpsHold, OpHolds
  <2>2. \A r \in DOMAIN rows : rows[r].xmax = x => \E i \in DOMAIN q : q[i].old = r
    BY <1>2, <1>3 DEF Stamps
  <2> QED
    BY <2>1, <2>2
<1>7. /\ \A r : r \in DOMAIN disk'.rows <=> r \in DOMAIN disk.rows \/ made(r)
      /\ \A r \in DOMAIN disk'.rows : r # 0 /\ disk'.rows[r].xmax =
            IF stamped(r) THEN x ELSE IF r \in DOMAIN disk.rows THEN disk.rows[r].xmax ELSE 0
  <2>1. logged = DOMAIN q /\ \A i \in DOMAIN q : q[i].old # 0 => Replayable(disk, q, logged, i)
    BY <1>1, EveryOpReplays
  <2>2. 0 \notin DOMAIN disk.rows
    BY <1>1 DEF DiskImage, RowTable
  <2> HIDE DEF logged
  <2>3. /\ \A r : r \in DOMAIN disk'.rows <=> r \in DOMAIN disk.rows \/ made(r)
        /\ \A r \in DOMAIN disk'.rows : disk'.rows[r].xmax =
            IF \E i \in logged : Replayable(disk, q, logged, i) /\ q[i].old = r THEN x
            ELSE IF r \in DOMAIN disk.rows THEN disk.rows[r].xmax ELSE 0
    BY <1>1, <2>1 DEF Replayed, logged
  <2>4. \A r \in DOMAIN disk'.rows : r # 0
    BY <2>2, <2>3
  <2>5. \A r \in DOMAIN disk'.rows :
            (\E i \in logged : Replayable(disk, q, logged, i) /\ q[i].old = r) <=> stamped(r)
    BY <2>1, <2>4
  <2> HIDE DEF made, stamped, q
  <2> QED
    BY <2>3, <2>4, <2>5
<1>8. \A r \in DOMAIN disk.rows : ~made(r)
  <2>1. x \in active
    BY <1>1, <1>3, OpenXids DEF BInv
  <2> HIDE DEF made
  <2> QED
    BY <1>2, <1>5, <2>1 DEF OnDisk
<1>9. \A r \in DOMAIN rows : rows[r].xmin = x => rows[r].xmax = 0 \/ rows[r].xmax = x
    BY <1>2, <1>3 DEF OwnOnly
<1>10. \A r : LiveRow(rows, active, r) <=> r \in DOMAIN disk.rows /\ disk.rows[r].xmax = 0
    BY <1>2 DEF OnDisk
<1>11. \A r : LiveRow(rows, active, r) => r \in DOMAIN rows
    BY DEF LiveRow
<1> HIDE DEF made, stamped, x
<1> SUFFICES ASSUME NEW r
             PROVE  LiveRow(rows', active', r) <=> r \in DOMAIN disk'.rows /\ disk'.rows[r].xmax = 0
    OBVIOUS
<1>12. CASE r \in DOMAIN disk.rows
    BY <1>1, <1>4, <1>5, <1>6, <1>7, <1>8, <1>10, <1>11, <1>12 DEF x
<1>13. CASE r \notin DOMAIN disk.rows
    BY <1>1, <1>4, <1>5, <1>6, <1>7, <1>9, <1>10, <1>13 DEF x
<1> QED
    BY <1>12, <1>13

(* A statement outside a block reaches the disk whole. *)
LEMMA AutoOnDisk ==
    ASSUME BInv, DInv, NEW w, NEW k, NEW y, AutoWrite(w, k, y), AutoKept(w, y)
    PROVE  \A r : LiveRow(rows', active', r) <=> r \in DOMAIN disk'.rows /\ disk'.rows[r].xmax = 0
<1> DEFINE x == next_xid
           q == <<w>>
           logged == records_for_commit(y, q, x)
<1>1. /\ FieldTypes /\ x # 0 /\ 0 \notin DOMAIN rows /\ DiskImage(disk) /\ next_row_id \in Nat
    BY Shapes DEF BInv
<1>2. /\ Wrote(rows, w, k, x, y) /\ w.new \in {0, next_row_id}
      /\ w.old # 0 => /\ w.old \in DOMAIN rows /\ rows[w.old].xmax = 0
                      /\ rows[w.old].xmin \notin active
    BY DEF AutoWrite
<1>3. Replayed(disk, y, q, x, disk') /\ OnDisk(rows, active, disk)
    BY DEF AutoKept, DInv
<1>4. \A r : LiveRow(rows', active', r) <=>
                \/ LiveRow(rows, active, r) /\ r # w.old
                \/ r = w.new /\ r # 0
    BY AutoKeptLive DEF BInv
<1>5. DOMAIN q = {1} /\ q[1] = w
    OBVIOUS
<1> HIDE DEF q, x
<1>6. logged = {1}
    BY <1>1, <1>2, <1>5 DEF records_for_commit, StillOurs, own_row, Wrote
<1>7. w.old # 0 => w.old \in DOMAIN disk.rows /\ Replayable(disk, q, logged, 1)
    BY <1>2, <1>3, <1>5 DEF LiveRow, OnDisk, Replayable
<1>8. 0 \notin DOMAIN disk.rows /\ next_row_id \notin DOMAIN disk.rows
  <2>1. /\ RowTable(disk.rows, disk.next_row_id) /\ disk.next_row_id \in Nat
        /\ disk.next_row_id <= next_row_id
    BY <1>1 DEF DInv, DiskImage
  <2> QED
    BY <1>1, <2>1 DEF RowTable
<1> HIDE DEF logged
<1>9. /\ \A r : r \in DOMAIN disk'.rows <=> r \in DOMAIN disk.rows \/ (r # 0 /\ w.new = r)
      /\ \A r \in DOMAIN disk'.rows : disk'.rows[r].xmax =
            IF Replayable(disk, q, logged, 1) /\ w.old = r THEN x
            ELSE IF r \in DOMAIN disk.rows THEN disk.rows[r].xmax ELSE 0
    BY <1>3, <1>5, <1>6 DEF Replayed, logged
<1>10. \A r : LiveRow(rows, active, r) <=> r \in DOMAIN disk.rows /\ disk.rows[r].xmax = 0
    BY <1>3 DEF OnDisk
<1>11. w.old # 0 => w.old \in DOMAIN disk.rows /\ disk.rows[w.old].xmax = 0
    BY <1>2, <1>10 DEF LiveRow
<1>12. w.old # 0 => w.old # w.new
    BY <1>2, <1>8, <1>11
<1> QED
    BY <1>1, <1>2, <1>4, <1>7, <1>8, <1>9, <1>10, <1>11, <1>12 DEF x

(* CHECKPOINT writes the live versions as live, the others as dead. *)
LEMMA CheckpointOnDisk ==
    ASSUME BInv, NEW s \in Session, txn_checkpoint(s)
    PROVE  OnDisk(rows', active', disk')
<1>1. Imaged(disk') /\ UNCHANGED <<rows, active>>
    BY CheckpointImages DEF BInv, IInv, txn_checkpoint, engine
<1>2. next_xid \in Nat /\ Bounded(rows, next_xid)
    BY Shapes DEF BInv, SInv
<1>3. \A r \in DOMAIN rows : /\ xid_committed(rows[r].xmin) <=> rows[r].xmin \notin active
                             /\ xid_committed(rows[r].xmax) <=> rows[r].xmax \notin active
    BY <1>2 DEF Bounded, xid_committed, SeenCommitted, take_snapshot
<1> QED
    BY <1>1, <1>3 DEF OnDisk, Imaged, LiveRow, committed_xmax

(* The row ids on disk.                                                     *)
LEMMA ReplayIds ==
    ASSUME NEW d, d.next_row_id \in Nat, 0 < d.next_row_id, NEW n \in Nat, d.next_row_id <= n,
           NEW writes, NEW own, NEW rws,
           \A i \in DOMAIN writes : /\ writes[i].new \in Nat /\ writes[i].new < n
                                    /\ writes[i].old \in Nat /\ writes[i].old < n
    PROVE  LET e == apply_record(d, rws, writes, own)
           IN  0 < e.next_row_id /\ e.next_row_id <= n
<1> DEFINE logged  == records_for_commit(rws, writes, own)
           created == {writes[i].new : i \in logged} \ {0}
           named   == created \cup {writes[i].old : i \in {j \in logged : writes[j].op = "update"}}
<1>1. apply_record(d, rws, writes, own).next_row_id = Above(d.next_row_id, named)
    BY DEF apply_record
<1>2. \A i \in logged : i \in DOMAIN writes
    BY DEF records_for_commit
<1>3. \A r \in named : r \in Nat /\ r < n
  <2> HIDE DEF logged
  <2> QED
    BY <1>2
<1> HIDE DEF named
<1>4. CASE \E r \in named : r >= d.next_row_id
  <2> DEFINE g == CHOOSE x \in named : \A y \in named : y <= x
  <2>1. \E x \in named : \A y \in named : y <= x
    <3>1. named \subseteq 0..n
      BY <1>3
    <3> QED
      BY <1>4, <3>1, GreatestElement
  <2>2. g \in named
    BY <2>1
  <2>3. Above(d.next_row_id, named) = g + 1
    BY <1>4 DEF Above
  <2> HIDE DEF g
  <2> QED
    BY <1>1, <1>3, <2>2, <2>3
<1>5. CASE ~\E r \in named : r >= d.next_row_id
  <2>1. Above(d.next_row_id, named) = d.next_row_id
    BY <1>5 DEF Above
  <2> QED
    BY <1>1, <2>1
<1> QED
    BY <1>4, <1>5

(* COMMIT keeps the row counter on disk positive and at most the one in     *)
(* memory.                                                                  *)
LEMMA CommitIds ==
    ASSUME BInv, DInv, NEW s \in Session, commit_taken_txn(s)
    PROVE  0 < disk'.next_row_id /\ disk'.next_row_id <= next_row_id'
<1> DEFINE q == txn[s].writes
<1>1. /\ next_row_id \in Nat /\ RowTable(rows, next_row_id) /\ disk.next_row_id \in Nat
      /\ q \in Seq(WriteOp)
    BY Shapes DEF BInv, DiskImage, Txn
<1>2. 0 < disk.next_row_id /\ disk.next_row_id <= next_row_id
    BY DEF DInv
<1>3. \A i \in DOMAIN q : q[i] \in WriteOp
    BY <1>1, LenProperties, ElementOfSeq
<1>4. \A r \in DOMAIN rows : r < next_row_id
    BY <1>1 DEF RowTable
<1>5. txn[s].xid # 0 /\ next_row_id' = next_row_id
    BY EndEffect DEF BInv
<1>6. \A i \in DOMAIN q : /\ q[i].new # 0 => q[i].new \in DOMAIN rows
                          /\ q[i].old # 0 => q[i].old \in DOMAIN rows
    BY <1>5 DEF BInv, SInv, TInv, OpsHold, OpHolds
<1> HIDE DEF q
<1>7. \A i \in DOMAIN q : /\ q[i].new \in Nat /\ q[i].new < next_row_id
                          /\ q[i].old \in Nat /\ q[i].old < next_row_id
  <2>1. \A i \in DOMAIN q : q[i].new \in Nat /\ q[i].old \in Nat
    BY <1>3 DEF WriteOp
  <2>2. 0 < next_row_id
    BY <1>1, <1>2
  <2> QED
    BY <1>4, <1>6, <2>1, <2>2
<1>8. disk' = apply_record(disk, rows, q, txn[s].xid)
    BY DEF commit_taken_txn, q
<1> QED
    BY <1>1, <1>2, <1>5, <1>7, <1>8, ReplayIds

(* The same of a statement outside a block. *)
LEMMA AutoIds ==
    ASSUME BInv, DInv, NEW w, NEW k, NEW y, AutoWrite(w, k, y), AutoKept(w, y)
    PROVE  0 < disk'.next_row_id /\ disk'.next_row_id <= next_row_id'
<1>1. /\ next_row_id \in Nat /\ RowTable(rows, next_row_id) /\ disk.next_row_id \in Nat
    BY Shapes DEF BInv, DiskImage
<1>2. 0 < disk.next_row_id /\ disk.next_row_id <= next_row_id
    BY DEF DInv
<1>3. /\ w \in WriteOp /\ w.new \in {0, next_row_id} /\ (w.old # 0 => w.old \in DOMAIN rows)
      /\ next_row_id' = IF w.new = 0 THEN next_row_id ELSE next_row_id + 1
    BY DEF AutoWrite
<1>4. \A r \in DOMAIN rows : r < next_row_id
    BY <1>1 DEF RowTable
<1>5. /\ w.new \in Nat /\ w.new < next_row_id' /\ w.old \in Nat /\ w.old < next_row_id'
      /\ next_row_id' \in Nat /\ disk.next_row_id <= next_row_id'
    BY <1>1, <1>2, <1>3, <1>4 DEF WriteOp
<1>6. \A i \in DOMAIN <<w>> : <<w>>[i] = w
    OBVIOUS
<1>7. disk' = apply_record(disk, y, <<w>>, next_xid)
    BY DEF AutoKept
<1> QED
    BY <1>1, <1>2, <1>5, <1>6, <1>7, ReplayIds

(* Row ids are never taken back but by a restart.                           *)
LEMMA IdsGrow ==
    ASSUME BInv, [Next]_vars, ~Restart
    PROVE  next_row_id <= next_row_id'
<1>1. next_row_id \in Nat
    BY Shapes DEF BInv
<1>2. ASSUME NEW s, NEW w, NEW k, Write(s, w, k) \/ autocommit_execute(s, w, k)
      PROVE  next_row_id <= next_row_id'
    BY <1>1, <1>2 DEF Write, autocommit_execute
<1>3. ASSUME NEW s, NEW r, NEW k,
             \/ exec_insert(s, k) \/ exec_delete(s, r) \/ exec_update(s, r, k)
             \/ auto_insert(s, k) \/ auto_delete(s, r) \/ auto_update(s, r, k)
      PROVE  next_row_id <= next_row_id'
    BY <1>2, <1>3 DEF exec_insert, exec_delete, exec_update, auto_insert, auto_delete, auto_update
<1>4. ASSUME NEW s, NEW r, NEW level, NEW idx,
             \/ txn_begin(s, level) \/ exec_select(s) \/ StmtError(s) \/ CommitFails(s)
             \/ acquire_row_locks(s, r) \/ txn_savepoint(s) \/ txn_rollback_to(s, idx)
             \/ txn_release(s, idx) \/ txn_rollback(s) \/ commit_taken_txn(s)
             \/ auto_error(s) \/ txn_vacuum(s) \/ txn_checkpoint(s) \/ UNCHANGED vars
      PROVE  next_row_id' = next_row_id
    BY <1>4 DEF txn_begin, exec_select, StmtError, CommitFails, acquire_row_locks, txn_savepoint,
                txn_rollback_to, txn_release, txn_rollback, commit_taken_txn, auto_error,
                txn_vacuum, txn_checkpoint, vars, engine
<1> QED
    BY <1>1, <1>3, <1>4 DEF Next

(* The disk changes by COMMIT, by a statement outside a block and by        *)
(* CHECKPOINT.                                                              *)
LEMMA StepDisk ==
    ASSUME "unlocked" \notin Client, BInv, [Next]_vars
    PROVE  \/ Restart
           \/ disk' = disk /\ LiveSame
           \/ \E s \in Session : commit_taken_txn(s) \/ txn_checkpoint(s)
           \/ \E w, k, y : AutoWrite(w, k, y) /\ AutoKept(w, y)
<1>1. IInv /\ AInv /\ LInv /\ SInv
    BY DEF BInv
<1>2. ASSUME NEW s \in Session, NEW k \in Key, NEW r,
             auto_insert(s, k) \/ (r \in DOMAIN rows /\ auto_update(s, r, k))
      PROVE  disk' = disk \/ \E w, k2, y : AutoWrite(w, k2, y) /\ AutoKept(w, y)
    BY <1>1, <1>2, AutoEffect DEF AutoUndone
<1>3. ASSUME NEW s \in Session, NEW r \in DOMAIN rows, auto_delete(s, r)
      PROVE  disk' = disk \/ \E w, k2, y : AutoWrite(w, k2, y) /\ AutoKept(w, y)
  <2>1. rows[r].key \in Key
    BY <1>1, OpTypes DEF IInv
  <2> QED
    BY <1>1, <1>3, <2>1, AutoEffect DEF AutoUndone
<1>4. ASSUME NEW s, NEW r, NEW k,
             exec_insert(s, k) \/ exec_delete(s, r) \/ exec_update(s, r, k)
      PROVE  disk' = disk
    BY <1>4 DEF exec_insert, exec_delete, exec_update, Write
<1>5. ASSUME NEW s, NEW r, NEW level, NEW idx,
             \/ txn_begin(s, level) \/ exec_select(s) \/ StmtError(s) \/ CommitFails(s)
             \/ acquire_row_locks(s, r) \/ txn_savepoint(s) \/ txn_rollback_to(s, idx)
             \/ txn_release(s, idx) \/ txn_rollback(s)
             \/ auto_error(s) \/ txn_vacuum(s) \/ UNCHANGED vars
      PROVE  disk' = disk
    BY <1>5 DEF txn_begin, exec_select, StmtError, CommitFails, acquire_row_locks, txn_savepoint,
                txn_rollback_to, txn_release, txn_rollback, auto_error, txn_vacuum, vars, engine
<1>6. \/ Restart
      \/ disk' = disk
      \/ \E s \in Session : commit_taken_txn(s) \/ txn_checkpoint(s)
      \/ \E w, k, y : AutoWrite(w, k, y) /\ AutoKept(w, y)
    BY <1>2, <1>3, <1>4, <1>5 DEF Next
<1> QED
    BY <1>1, <1>6, StepLive

(* COMMIT and a statement outside a block write no version of a running     *)
(* transaction.                                                             *)
LEMMA CommitBlind ==
    ASSUME "unlocked" \notin Client, BInv, DInv, [Next]_vars, ~Restart,
           NEW s \in Session, commit_taken_txn(s)
    PROVE  \A r \in DOMAIN disk'.rows : r \in DOMAIN rows' => rows'[r].xmin \notin active'
<1> DEFINE t == txn[s]
           q == t.writes
           O == all_xids(t)
<1>1. /\ t.xid # 0 /\ Replayed(disk, rows, q, t.xid, disk') /\ active' = active \ O
      /\ Vacuumed(rows, active', snapshots', rows')
    BY EndEffect DEF BInv
<1>2. OpsHold(t, rows)
    BY <1>1 DEF BInv, SInv, TInv
<1>3. \A r \in DOMAIN disk'.rows : r \in DOMAIN disk.rows \/ \E i \in DOMAIN q : r # 0 /\ q[i].new = r
    BY <1>1 DEF Replayed, records_for_commit
<1>4. \A i \in DOMAIN q : q[i].new # 0 => rows[q[i].new].xmin \in O
    BY <1>2 DEF OpsHold, OpHolds
<1> HIDE DEF q, O
<1>5. \A r \in DOMAIN disk'.rows : r \notin DOMAIN disk.rows => rows[r].xmin \in O
    BY <1>3, <1>4
<1> QED
    BY <1>1, <1>5, OldOnDisk DEF Vacuumed

(* The same of a statement outside a block. *)
LEMMA AutoBlind ==
    ASSUME "unlocked" \notin Client, BInv, DInv, [Next]_vars, ~Restart,
           NEW w, NEW k, NEW y, AutoWrite(w, k, y), AutoKept(w, y)
    PROVE  \A r \in DOMAIN disk'.rows : r \in DOMAIN rows' => rows'[r].xmin \notin active'
<1>1. /\ Replayed(disk, y, <<w>>, next_xid, disk') /\ Wrote(rows, w, k, next_xid, y)
      /\ Vacuumed(y, active, snapshots, rows') /\ active' = active
    BY DEF AutoWrite, AutoKept
<1>2. next_xid \notin active
    BY Shapes DEF BInv, FieldTypes
<1>3. \A i \in DOMAIN <<w>> : <<w>>[i] = w
    OBVIOUS
<1>4. \A r \in DOMAIN disk'.rows : r \in DOMAIN disk.rows \/ (r # 0 /\ w.new = r)
    BY <1>1, <1>3 DEF Replayed, records_for_commit
<1>5. \A r \in DOMAIN disk'.rows : r \notin DOMAIN disk.rows => y[r].xmin = next_xid
    BY <1>1, <1>4 DEF Wrote
<1> QED
    BY <1>1, <1>2, <1>5, OldOnDisk DEF Vacuumed

(* Every step keeps memory and disk in agreement. *)
LEMMA DInvStep ==
    ASSUME "unlocked" \notin Client, "savepoint" \notin Client, "reupdate" \notin Client,
           BInv, DInv, [Next]_vars
    PROVE  DInv'
<1>1. \A s \in Session : Plain(txn'[s])
    BY PlainStep DEF DInv
<1>2. /\ next_row_id \in Nat /\ disk.next_row_id \in Nat
      /\ 0 < disk.next_row_id /\ disk.next_row_id <= next_row_id
      /\ OnDisk(rows, active, disk) /\ DiskImage(disk)
    BY Shapes DEF BInv, DInv, DiskImage
<1>3. ASSUME Restart PROVE DInv'
    BY <1>1, <1>2, <1>3 DEF Restart, DInv, OnDisk, LiveRow
<1>4. ASSUME ~Restart, disk' = disk, LiveSame PROVE DInv'
  <2>1. next_row_id <= next_row_id' /\ next_row_id' \in Nat
    BY <1>4, IdsGrow, NextIInv DEF BInv, IInv, FieldTypes
  <2>2. OnDisk(rows', active', disk)
    BY <1>2, <1>4, OldOnDisk DEF OnDisk, LiveSame
  <2> QED
    BY <1>1, <1>2, <1>4, <2>1, <2>2 DEF DInv
<1>5. ASSUME ~Restart, NEW s \in Session, commit_taken_txn(s) PROVE DInv'
    BY <1>1, <1>5, CommitOnDisk, CommitIds, CommitBlind DEF DInv, OnDisk
<1>6. ASSUME ~Restart, NEW w, NEW k, NEW y, AutoWrite(w, k, y), AutoKept(w, y) PROVE DInv'
    BY <1>1, <1>6, AutoOnDisk, AutoIds, AutoBlind DEF DInv, OnDisk
<1>7. ASSUME NEW s \in Session, txn_checkpoint(s) PROVE DInv'
  <2>1. OnDisk(rows', active', disk')
    BY <1>7, CheckpointOnDisk
  <2>2. disk'.next_row_id = next_row_id /\ next_row_id' = next_row_id
    BY <1>7 DEF txn_checkpoint, CheckpointImage, engine
  <2>3. 0 < next_row_id
    BY <1>2
  <2> QED
    BY <1>1, <1>2, <2>1, <2>2, <2>3 DEF DInv
<1> QED
    BY <1>3, <1>4, <1>5, <1>6, <1>7, StepDisk

(* They agree initially. *)
LEMMA InitDInv ==
    ASSUME Init
    PROVE  DInv
<1>1. PICK f \in Loads : rows = [i \in DOMAIN f |-> [key |-> f[i], xmin |-> 1, xmax |-> 0]]
    BY DEF Init
<1>2. \A r \in DOMAIN rows : rows[r].xmin = 1 /\ rows[r].xmax = 0
    BY <1>1
<1>3. /\ disk.rows = rows /\ disk.next_row_id = next_row_id /\ active = {}
      /\ txn = [s \in Session |-> NoTxn] /\ next_row_id = Cardinality(InitKeys) + 1
    BY DEF Init
<1>4. Cardinality(InitKeys) \in Nat
    BY ConstantsAssumption, FS_CardinalityType
<1>5. Plain(NoTxn)
    BY PlainNew DEF NoTxn
<1> QED
    BY <1>2, <1>3, <1>4, <1>5 DEF DInv, OnDisk, LiveRow

-----------------------------------------------------------------------------
(* The theorems.                                                            *)

(* The disk always holds exactly the rows a new session would see, so that  *)
(* Wal::open after a crash brings back every acknowledged write and nothing *)
(* else.                                                                    *)
THEOREM RecoveryExact ==
    ASSUME "unlocked" \notin Client, "savepoint" \notin Client, "reupdate" \notin Client
    PROVE  Spec => []RecoveryMatchesMemory
<1>1. BInv /\ DInv /\ [Next]_vars => DInv'
    BY DInvStep
<1>2. BInv /\ DInv => RecoveryMatchesMemory
  <2> SUFFICES ASSUME BInv, DInv PROVE RecoveryMatchesMemory
    OBVIOUS
  <2>1. \A r : r \in LiveRows <=> r \in DOMAIN disk.rows /\ disk.rows[r].xmax = 0
    BY LiveNow DEF BInv, DInv, OnDisk
  <2> QED
    BY <2>1 DEF RecoveryMatchesMemory
<1> QED
    BY <1>1, <1>2, InitDInv, BlocksApart, PTL DEF Spec

(* A restart leaves the live rows alone. *)
LEMMA RestartLive ==
    ASSUME BInv, DInv, Restart
    PROVE  LiveSame
    BY DEF DInv, OnDisk, Restart, LiveSame, LiveRow

(* ROLLBACK, ROLLBACK TO, a statement outside a block whose append fails,   *)
(* and a restart in the middle of a transaction give back every row the     *)
(* transaction had deleted and none it had created.  The restart needs the  *)
(* plain transactions whose commits replay exactly.                         *)
THEOREM RollbackRestores ==
    ASSUME "unlocked" \notin Client,
           "restart" \in Faults => "savepoint" \notin Client /\ "reupdate" \notin Client
    PROVE  Spec => RollbackKeepsLiveRows
<1> DEFINE J == "restart" \in Faults => DInv
<1>1. Init => J
    BY InitDInv
<1>2. BInv /\ J /\ [Next]_vars => J'
    BY DInvStep
<1>3. BInv /\ BInv' /\ J /\ [Next]_vars => [aborted' # aborted => LiveRows' = LiveRows]_vars
  <2> SUFFICES ASSUME BInv, BInv', J, [Next]_vars, aborted' # aborted PROVE LiveRows' = LiveRows
    OBVIOUS
  <2>1. CASE Restart
    <3>1. DInv
      BY <2>1 DEF Restart
    <3>2. LiveSame
      BY <2>1, <3>1, RestartLive
    <3> QED
      BY <3>2, LiveNow, LiveNext DEF BInv, LiveSame
  <2> QED
    BY <2>1, RollbackStep
<1> QED
    BY <1>1, <1>2, <1>3, BlocksApart, PTL DEF Spec, RollbackKeepsLiveRows

-----------------------------------------------------------------------------
(* The engine implements AtomicStore.                                       *)

(* The row ids handed out. *)
RInv == next_row_id <= MaxRow + 1

(* Only statements that fit in the bound take a row id. *)
LEMMA RowIdStep ==
    ASSUME BInv, DInv, RInv, [Next]_vars
    PROVE  RInv'
<1>1. next_row_id \in Nat /\ MaxRow \in Nat /\ disk.next_row_id \in Nat /\ FieldTypes
    BY Shapes, ConstantsAssumption DEF BInv, DiskImage
<1>2. ASSUME NEW s, NEW w, NEW k, Write(s, w, k) \/ autocommit_execute(s, w, k),
             w.new = 0 \/ next_row_id <= MaxRow
      PROVE  RInv'
    BY <1>1, <1>2 DEF Write, autocommit_execute, RInv
<1>3. ASSUME NEW s, NEW k, exec_insert(s, k) \/ auto_insert(s, k) PROVE RInv'
    BY <1>2, <1>3 DEF exec_insert, auto_insert, InsertAllowed
<1>4. ASSUME NEW s, NEW r, NEW k, exec_update(s, r, k) \/ auto_update(s, r, k) PROVE RInv'
    BY <1>2, <1>4 DEF exec_update, auto_update, UpdateAllowed
<1>5. ASSUME NEW s, NEW r, exec_delete(s, r) \/ auto_delete(s, r) PROVE RInv'
    BY <1>2, <1>5 DEF exec_delete, auto_delete, DeleteRow
<1>6. ASSUME NEW s, NEW r, NEW level, NEW idx,
             \/ txn_begin(s, level) \/ exec_select(s) \/ StmtError(s) \/ CommitFails(s)
             \/ acquire_row_locks(s, r) \/ txn_savepoint(s) \/ txn_rollback_to(s, idx)
             \/ txn_release(s, idx) \/ txn_rollback(s) \/ commit_taken_txn(s)
             \/ auto_error(s) \/ txn_vacuum(s) \/ txn_checkpoint(s) \/ UNCHANGED vars
      PROVE  RInv'
    BY <1>6 DEF txn_begin, exec_select, StmtError, CommitFails, acquire_row_locks, txn_savepoint,
                txn_rollback_to, txn_release, txn_rollback, commit_taken_txn, auto_error,
                txn_vacuum, txn_checkpoint, vars, engine, RInv
<1>7. CASE Restart
    BY <1>1, <1>7 DEF Restart, DInv, RInv
<1> QED
    BY <1>3, <1>4, <1>5, <1>6, <1>7 DEF Next

(* What is pending is what AtomicStore allows: a transaction removes live   *)
(* versions no other has claimed, and adds versions that are not live yet.  *)
PendingFits(s) ==
    /\ LiveRows \subseteq 1..MaxRow
    /\ PendingDel(s) \subseteq LiveRows
    /\ PendingAdd(s) \subseteq (1..MaxRow) \ LiveRows
    /\ \A u \in Session \ {s} : PendingDel(s) \cap PendingDel(u) = {}
    /\ txn[s].xid = 0 => PendingDel(s) = {} /\ PendingAdd(s) = {}

(* The invariant gives every session pending work that fits. *)
LEMMA PendingOK ==
    ASSUME BInv, RInv, NEW s \in Session
    PROVE  PendingFits(s)
<1>1. /\ IInv /\ SInv /\ FieldTypes /\ next_row_id \in Nat /\ MaxRow \in Nat
      /\ Bounded(rows, next_xid) /\ RowTable(rows, next_row_id)
    BY Shapes, ConstantsAssumption DEF BInv, SInv
<1>2. \A r \in DOMAIN rows : r \in 1..MaxRow
    BY <1>1 DEF RowTable, RInv
<1>3. \A r : r \in LiveRows <=> LiveRow(rows, active, r)
    BY <1>1, LiveNow
<1>4. LiveRows \subseteq 1..MaxRow
    BY <1>2 DEF LiveRows
<1>5. ASSUME txn[s].xid = 0 PROVE PendingDel(s) = {} /\ PendingAdd(s) = {}
  <2>1. txn[s] = NoTxn
    BY <1>1, <1>5 DEF IInv, XidOwnership, Open
  <2>2. all_xids(txn[s]) = {0}
    BY <2>1 DEF all_xids, NoTxn, NewTxn
  <2> QED
    BY <1>1, <2>2 DEF PendingDel, PendingAdd, Bounded
<1>6. ASSUME txn[s].xid # 0
      PROVE  /\ PendingDel(s) \subseteq LiveRows
             /\ PendingAdd(s) \subseteq (1..MaxRow) \ LiveRows
             /\ \A u \in Session \ {s} : PendingDel(s) \cap PendingDel(u) = {}
  <2>1. PendingDel(s) \subseteq LiveRows
    BY <1>3, <1>6, StampedLive DEF PendingDel
  <2>2. PendingAdd(s) \subseteq (1..MaxRow) \ LiveRows
    BY <1>1, <1>2, <1>3, <1>6, OpenXids DEF PendingAdd, LiveRow
  <2>3. ASSUME NEW u \in Session \ {s}, NEW r \in PendingDel(s), r \in PendingDel(u) PROVE FALSE
    <3>1. /\ rows[r].xmax \in all_xids(txn[s]) /\ rows[r].xmax \in all_xids(txn[u])
          /\ rows[r].xmax # 0
      BY <2>3 DEF PendingDel
    <3>2. CASE txn[u].xid # 0
      BY <1>1, <1>6, <3>1, <3>2, DisjointXids
    <3>3. CASE txn[u].xid = 0
      <4>1. txn[u] = NoTxn
        BY <1>1, <3>3 DEF IInv, XidOwnership, Open
      <4> QED
        BY <3>1, <4>1 DEF all_xids, NoTxn, NewTxn
    <3> QED
      BY <3>2, <3>3
  <2> QED
    BY <2>1, <2>2, <2>3
<1>7. ASSUME txn[s].xid = 0 PROVE \A u \in Session \ {s} : PendingDel(s) \cap PendingDel(u) = {}
    BY <1>5, <1>7
<1> QED
    BY <1>4, <1>5, <1>6, <1>7 DEF PendingFits

(* A step that is foreign to session u leaves its pending work alone.       *)
LEMMA PendingKept ==
    ASSUME BInv, NEW u \in Session, txn'[u] = txn[u],
           txn[u].xid # 0 => SameFor(all_xids(txn[u]), rows, rows'), SInv'
    PROVE  PendingDel(u)' = PendingDel(u) /\ PendingAdd(u)' = PendingAdd(u)
<1>1. /\ IInv /\ SInv /\ Bounded(rows, next_xid) /\ Bounded(rows', next_xid')
    BY DEF BInv, SInv
<1>2. CASE txn[u].xid = 0
  <2>1. txn[u] = NoTxn
    BY <1>1, <1>2 DEF IInv, XidOwnership, Open
  <2>2. all_xids(txn[u]) = {0}
    BY <2>1 DEF all_xids, NoTxn, NewTxn
  <2> QED
    BY <1>1, <2>2 DEF PendingDel, PendingAdd, Bounded
<1>3. CASE txn[u].xid # 0
  <2> DEFINE A == all_xids(txn[u])
  <2>1. /\ \A r \in DOMAIN rows : rows[r].xmin \in A \/ rows[r].xmax \in A =>
                r \in DOMAIN rows' /\ rows'[r] = rows[r]
        /\ \A r \in DOMAIN rows' : rows'[r].xmin \in A \/ rows'[r].xmax \in A =>
                r \in DOMAIN rows /\ rows'[r] = rows[r]
    BY <1>3 DEF SameFor, Carries
  <2>2. /\ PendingDel(u) = {r \in DOMAIN rows : rows[r].xmax \in A \ {0} /\ rows[r].xmin \notin A}
        /\ PendingAdd(u) = {r \in DOMAIN rows : rows[r].xmin \in A /\ rows[r].xmax = 0}
        /\ PendingDel(u)' = {r \in DOMAIN rows' : rows'[r].xmax \in A \ {0} /\ rows'[r].xmin \notin A}
        /\ PendingAdd(u)' = {r \in DOMAIN rows' : rows'[r].xmin \in A /\ rows'[r].xmax = 0}
    BY DEF PendingDel, PendingAdd, all_xids
  <2> HIDE DEF A
  <2> QED
    BY <2>1, <2>2
<1> QED
    BY <1>2, <1>3

(* The pending work of u does not change in this step. *)
Idle(u) == PendingDel(u)' = PendingDel(u) /\ PendingAdd(u)' = PendingAdd(u)

(* A step of s that leaves the live rows alone is work of s. *)
LEMMA WorkStep ==
    ASSUME NEW s \in Session, PendingFits(s)', LiveRows' = LiveRows,
           next_xid' \in {next_xid, next_xid + 1}, \A u \in Session \ {s} : Idle(u)
    PROVE  Store!Work(s)
<1>1. [v \in Session |-> PendingDel(v)'] =
            [[v \in Session |-> PendingDel(v)] EXCEPT ![s] = PendingDel(s)']
    BY DEF Idle
<1>2. [v \in Session |-> PendingAdd(v)'] =
            [[v \in Session |-> PendingAdd(v)] EXCEPT ![s] = PendingAdd(s)']
    BY DEF Idle
<1>3. PendingDel(s)' \subseteq LiveRows \ UNION {PendingDel(u) : u \in Session \ {s}}
    BY DEF PendingFits, Idle
<1>4. PendingAdd(s)' \subseteq (1..MaxRow) \ LiveRows
    BY DEF PendingFits
<1> QED
    BY <1>1, <1>2, <1>3, <1>4 DEF Store!Work, Store!Claimed

(* A step that leaves s no pending work is a commit or an abort. *)
LEMMA StoreEnd ==
    ASSUME NEW s \in Session, PendingDel(s)' = {}, PendingAdd(s)' = {}, next_xid' = next_xid,
           \A u \in Session \ {s} : Idle(u)
    PROVE  /\ LiveRows' = LiveRows => Store!Abort(s)
           /\ LiveRows' = (LiveRows \ PendingDel(s)) \cup PendingAdd(s) => Store!Commit(s)
<1>1. [v \in Session |-> PendingDel(v)'] = [[v \in Session |-> PendingDel(v)] EXCEPT ![s] = {}]
    BY DEF Idle
<1>2. [v \in Session |-> PendingAdd(v)'] = [[v \in Session |-> PendingAdd(v)] EXCEPT ![s] = {}]
    BY DEF Idle
<1> QED
    BY <1>1, <1>2 DEF Store!Abort, Store!Commit, Store!Forget

(* A step that removes no row an open transaction has claimed is an         *)
(* autocommit.                                                              *)
LEMMA StoreAutocommit ==
    ASSUME NEW s \in Session, LiveRows' \subseteq 1..MaxRow, next_xid' = next_xid + 1,
           \A u \in Session : Idle(u) /\ (LiveRows \cap PendingDel(u)) \subseteq LiveRows'
    PROVE  Store!Autocommit(s)
<1>1. [v \in Session |-> PendingDel(v)'] = [v \in Session |-> PendingDel(v)]
    BY DEF Idle
<1>2. [v \in Session |-> PendingAdd(v)'] = [v \in Session |-> PendingAdd(v)]
    BY DEF Idle
<1>3. LiveRows \cap UNION {PendingDel(u) : u \in Session \ {s}} \subseteq LiveRows'
    OBVIOUS
<1> QED
    BY <1>1, <1>2, <1>3 DEF Store!Autocommit, Store!Claimed

(* A step that changes neither live rows nor pending work is a stutter. *)
LEMMA IdleStep ==
    ASSUME LiveRows' = LiveRows, next_xid' = next_xid, \A u \in Session : Idle(u)
    PROVE  UNCHANGED Store!vars
<1>1. [v \in Session |-> PendingDel(v)'] = [v \in Session |-> PendingDel(v)]
    BY DEF Idle
<1>2. [v \in Session |-> PendingAdd(v)'] = [v \in Session |-> PendingAdd(v)]
    BY DEF Idle
<1> QED
    BY <1>1, <1>2 DEF Store!vars

(* A step that leaves the row table and the running transactions alone,     *)
(* but for a fresh xid.                                                     *)
LEMMA StillLive ==
    ASSUME BInv, rows' = rows, \A x : x # next_xid => (x \in active <=> x \in active')
    PROVE  LiveSame
<1>1. \A r \in DOMAIN rows : ~Carries(rows[r], {next_xid})
    BY NothingCarries, Shapes DEF BInv, SInv
<1> QED
    BY <1>1, ActiveLive DEF LiveSame

(* LiveSame is about the set LiveRows. *)
LEMMA SameLiveRows ==
    ASSUME BInv, BInv', LiveSame
    PROVE  LiveRows' = LiveRows
    BY LiveNow, LiveNext DEF BInv, LiveSame

(* A step of s that is foreign to every other transaction is idle for them. *)
LEMMA OthersIdle ==
    ASSUME BInv, BInv', NEW s \in Session, NEW t, txn' = [txn EXCEPT ![s] = t],
           \A v \in Session : v # s /\ txn[v].xid # 0 => SameFor(all_xids(txn[v]), rows, rows')
    PROVE  \A u \in Session \ {s} : Idle(u)
<1> SUFFICES ASSUME NEW u \in Session \ {s} PROVE Idle(u)
    OBVIOUS
<1>1. txn'[u] = txn[u]
    BY Shapes DEF BInv
<1> QED
    BY <1>1, PendingKept DEF BInv, Idle

(* A step that is foreign to every transaction is idle for all of them. *)
LEMMA AllIdle ==
    ASSUME BInv, BInv', UNCHANGED txn,
           \A v \in Session : txn[v].xid # 0 => SameFor(all_xids(txn[v]), rows, rows')
    PROVE  \A u \in Session : Idle(u)
    BY PendingKept DEF BInv, Idle

(* BEGIN and every statement of a block. *)
LEMMA BlockWorks ==
    ASSUME "unlocked" \notin Client, BInv, BInv', NEW s \in Session, PendingFits(s)',
           NEW level, NEW k, NEW r,
           \/ txn_begin(s, level) \/ exec_select(s) \/ StmtError(s)
           \/ (r \in DOMAIN rows /\ acquire_row_locks(s, r))
           \/ exec_insert(s, k)
           \/ (r \in DOMAIN rows /\ (exec_delete(s, r) \/ exec_update(s, r, k)))
    PROVE  Store!Work(s)
<1>1. IInv /\ AInv /\ LInv /\ SInv
    BY DEF BInv
<1>2. CASE \/ txn_begin(s, level) \/ exec_select(s) \/ StmtError(s)
           \/ (r \in DOMAIN rows /\ acquire_row_locks(s, r))
  <2>1. /\ rows' = rows /\ next_xid' \in {next_xid, next_xid + 1}
        /\ \A x : x # next_xid => (x \in active <=> x \in active')
        /\ \E t : txn' = [txn EXCEPT ![s] = t]
    BY <1>2 DEF txn_begin, exec_select, StmtError, acquire_row_locks
  <2>2. \A A : SameFor(A, rows, rows')
    BY <2>1 DEF SameFor
  <2>3. LiveRows' = LiveRows
    BY <2>1, StillLive, SameLiveRows
  <2>4. \A u \in Session \ {s} : Idle(u)
    BY <2>1, <2>2, OthersIdle
  <2> QED
    BY <2>1, <2>3, <2>4, WorkStep
<1>3. CASE \/ exec_insert(s, k)
           \/ (r \in DOMAIN rows /\ (exec_delete(s, r) \/ exec_update(s, r, k)))
  <2>1. Open(s)
    BY <1>3 DEF exec_insert, exec_delete, exec_update, Running
  <2>2. PICK w, k2, x : Write(s, w, k2) /\ WriteEffect(s, w, k2, x)
    BY <1>1, <1>3, DmlEffect
  <2>3. next_xid' = next_xid /\ \E t : txn' = [txn EXCEPT ![s] = t]
    BY <2>2 DEF Write
  <2>4. LiveRows' = LiveRows
    BY <1>1, <2>1, <2>2, WriteLive, SameLiveRows
  <2>5. \A v \in Session : v # s /\ txn[v].xid # 0 => SameFor(all_xids(txn[v]), rows, rows')
    BY <1>1, <2>1, <2>2, WriteForeign
  <2>6. \A u \in Session \ {s} : Idle(u)
    BY <2>3, <2>5, OthersIdle
  <2> QED
    BY <2>3, <2>4, <2>6, WorkStep
<1> QED
    BY <1>2, <1>3

(* ROLLBACK and COMMIT. *)
LEMMA EndImplements ==
    ASSUME BInv, BInv', NEW s \in Session, PendingFits(s)', PendingFits(s),
           txn_rollback(s) \/ commit_taken_txn(s)
    PROVE  Store!Abort(s) \/ Store!Commit(s)
<1>1. /\ IInv /\ AInv /\ SInv /\ txn \in [Session -> Txn]
    BY Shapes DEF BInv
<1>2. /\ txn[s].xid # 0 /\ txn' = [txn EXCEPT ![s] = NoTxn] /\ next_xid' = next_xid
    BY <1>1, EndEffect
<1>3. PendingDel(s)' = {} /\ PendingAdd(s)' = {}
  <2>1. txn'[s].xid = 0
    BY <1>1, <1>2 DEF NoTxn, NewTxn
  <2> QED
    BY <2>1 DEF PendingFits
<1>4. \A u \in Session \ {s} : Idle(u)
    BY <1>1, <1>2, EndForeign, OthersIdle
<1>5. CASE txn_rollback(s)
  <2>1. LiveRows' = LiveRows
    BY <1>1, <1>5, RollbackLive, SameLiveRows
  <2> QED
    BY <1>2, <1>3, <1>4, <2>1, StoreEnd
<1>6. CASE commit_taken_txn(s)
  <2> DEFINE O == all_xids(txn[s])
  <2>1. \A x \in O : x \in active /\ x # 0
    BY <1>1, <1>2, OpenXids DEF IInv, FieldTypes
  <2>2. \A r : r \in LiveRows' <=>
            \/ LiveRow(rows, active, r) /\ rows[r].xmax \notin O
            \/ r \in DOMAIN rows /\ rows[r].xmin \in O /\ rows[r].xmax = 0
    BY <1>1, <1>6, CommitLive, LiveNext DEF BInv
  <2>3. \A r : r \in LiveRows <=> LiveRow(rows, active, r)
    BY <1>1, LiveNow
  <2>4. /\ \A r : r \in PendingDel(s) <=>
                r \in DOMAIN rows /\ rows[r].xmax \in O \ {0} /\ rows[r].xmin \notin O
        /\ \A r : r \in PendingAdd(s) <=> r \in DOMAIN rows /\ rows[r].xmin \in O /\ rows[r].xmax = 0
    BY DEF PendingDel, PendingAdd
  <2> HIDE DEF O
  <2>5. LiveRows' = (LiveRows \ PendingDel(s)) \cup PendingAdd(s)
    BY <2>1, <2>2, <2>3, <2>4 DEF LiveRow
  <2> QED
    BY <1>2, <1>3, <1>4, <2>5, StoreEnd
<1> QED
    BY <1>5, <1>6

(* A statement outside a block. *)
LEMMA AutoImplements ==
    ASSUME BInv, BInv', NEW s \in Session, PendingFits(s)', NEW w, NEW k, NEW y,
           AutoWrite(w, k, y), AutoKept(w, y) \/ AutoUndone(w, y)
    PROVE  Store!Autocommit(s)
<1>1. IInv /\ SInv /\ 0 \notin DOMAIN rows
    BY Shapes DEF BInv
<1>2. /\ next_xid' = next_xid + 1 /\ UNCHANGED txn
      /\ w.old # 0 => rows[w.old].xmax = 0
    BY DEF AutoWrite
<1>3. \A u \in Session : Idle(u)
    BY <1>1, <1>2, AutoForeign, AllIdle
<1>4. LiveRows' \subseteq 1..MaxRow
    BY DEF PendingFits
<1>5. ASSUME NEW u \in Session, NEW r \in LiveRows, r \in PendingDel(u) PROVE r \in LiveRows'
  <2>1. r \in DOMAIN rows /\ rows[r].xmax # 0 /\ LiveRow(rows, active, r)
    BY <1>1, <1>5, LiveNow DEF PendingDel
  <2>2. CASE AutoKept(w, y)
    <3>1. r # w.old
      BY <1>1, <1>2, <2>1
    <3>2. LiveRow(rows', active', r)
      BY <1>1, <2>1, <2>2, <3>1, AutoKeptLive
    <3> QED
      BY <3>2, LiveNext DEF BInv
  <2>3. CASE AutoUndone(w, y)
    BY <1>1, <1>5, <2>3, AutoUndoneLive, SameLiveRows
  <2> QED
    BY <2>2, <2>3
<1> QED
    BY <1>2, <1>3, <1>4, <1>5, StoreAutocommit

(* Every step of the engine is one of AtomicStore, or a stutter. *)
LEMMA StepImplements ==
    ASSUME "unlocked" \notin Client, "savepoint" \notin Client, "reupdate" \notin Client,
           BInv, BInv', DInv, \A s \in Session : PendingFits(s) /\ PendingFits(s)', [Next]_vars
    PROVE  [Store!Next]_(Store!vars)
<1>1. /\ IInv /\ AInv /\ LInv /\ SInv /\ txn \in [Session -> Txn]
    BY Shapes DEF BInv
<1>2. ASSUME NEW s \in Session, Store!Work(s) PROVE Store!Next
    BY <1>2 DEF Store!Next
<1>3. ASSUME NEW s \in Session, NEW level, NEW k, NEW r,
             \/ txn_begin(s, level) \/ exec_select(s) \/ StmtError(s) \/ CommitFails(s)
             \/ (r \in DOMAIN rows /\ acquire_row_locks(s, r))
             \/ exec_insert(s, k)
             \/ (r \in DOMAIN rows /\ (exec_delete(s, r) \/ exec_update(s, r, k)))
      PROVE  Store!Next
    BY <1>2, <1>3, BlockWorks DEF CommitFails
<1>4. ASSUME NEW s \in Session, NEW idx,
             txn_savepoint(s) \/ txn_rollback_to(s, idx) \/ txn_release(s, idx)
      PROVE  FALSE
  <2>1. DOMAIN txn[s].savepoints = {}
    BY DEF DInv, Plain, Flat
  <2> QED
    BY <1>4, <2>1 DEF txn_savepoint, txn_rollback_to, txn_release
<1>5. ASSUME NEW s \in Session, txn_rollback(s) \/ commit_taken_txn(s) PROVE Store!Next
    BY <1>5, EndImplements DEF Store!Next
<1>6. ASSUME NEW s \in Session, NEW k \in Key, NEW r,
             auto_insert(s, k) \/ (r \in DOMAIN rows /\ (auto_delete(s, r) \/ auto_update(s, r, k)))
      PROVE  Store!Next
  <2>1. PICK w, k2, y : AutoWrite(w, k2, y) /\ (AutoKept(w, y) \/ AutoUndone(w, y))
    BY <1>1, <1>6, AutoEffect
  <2> QED
    BY <2>1, AutoImplements DEF Store!Next
<1>7. ASSUME NEW s \in Session, NEW r \in DOMAIN rows, auto_delete(s, r) PROVE Store!Next
  <2>1. rows[r].key \in Key
    BY <1>1, OpTypes DEF IInv
  <2> QED
    BY <1>6, <1>7, <2>1
<1>8. ASSUME rows' = rows, UNCHANGED <<active, txn>>
      PROVE  LiveRows' = LiveRows /\ \A u \in Session : Idle(u)
  <2>1. \A A : SameFor(A, rows, rows')
    BY <1>8 DEF SameFor
  <2> QED
    BY <1>8, <2>1, StillLive, SameLiveRows, AllIdle
<1>9. ASSUME NEW s \in Session, auto_error(s) PROVE Store!Next
  <2>1. next_xid' = next_xid + 1 /\ LiveRows' = LiveRows /\ \A u \in Session : Idle(u)
    BY <1>8, <1>9 DEF auto_error
  <2>2. LiveRows' \subseteq 1..MaxRow
    BY DEF PendingFits
  <2>3. Store!Autocommit(s)
    BY <2>1, <2>2, StoreAutocommit
  <2> QED
    BY <2>3 DEF Store!Next
<1>10. ASSUME NEW s \in Session, txn_vacuum(s) PROVE UNCHANGED Store!vars
  <2>1. /\ Vacuumed(rows, active, snapshots, rows')
        /\ UNCHANGED <<active, txn, next_xid>>
    BY <1>10, VacuumVacuums DEF txn_vacuum
  <2>2. \A v \in Session : txn[v].xid # 0 => SameFor(all_xids(txn[v]), rows, rows')
    BY <1>1, <2>1, OpenXids, VacuumedForeign
  <2>3. \A u \in Session : Idle(u)
    BY <2>1, <2>2, AllIdle
  <2>4. LiveRows' = LiveRows
    BY <1>10, MaintenanceLive, SameLiveRows
  <2> QED
    BY <2>1, <2>3, <2>4, IdleStep
<1>11. ASSUME UNCHANGED vars \/ \E s \in Session : txn_checkpoint(s) PROVE UNCHANGED Store!vars
  <2>1. UNCHANGED <<rows, active, txn, next_xid>>
    BY <1>11 DEF txn_checkpoint, vars, engine
  <2> QED
    BY <1>8, <2>1, IdleStep
<1>12. ASSUME Restart PROVE Store!Next
  <2>1. LiveRows' = LiveRows
    BY <1>12, RestartLive, SameLiveRows
  <2>2. next_xid' <= next_xid
    BY <1>1, <1>12 DEF Restart, AInv, Clean
  <2>3. \A u \in Session : PendingDel(u)' = {} /\ PendingAdd(u)' = {}
    <3>1. \A u \in Session : txn'[u].xid = 0
      BY <1>12 DEF Restart, NoTxn, NewTxn
    <3> QED
      BY <3>1 DEF PendingFits
  <2>4. /\ [v \in Session |-> PendingDel(v)'] = [v \in Session |-> {}]
        /\ [v \in Session |-> PendingAdd(v)'] = [v \in Session |-> {}]
    BY <2>3
  <2>5. Store!Crash
    BY <2>1, <2>2, <2>4 DEF Store!Crash, Store!Nothing
  <2> QED
    BY <2>5 DEF Store!Next
<1> QED
    BY <1>3, <1>4, <1>5, <1>6, <1>7, <1>9, <1>10, <1>11, <1>12 DEF Next

(* The initial states match. *)
LEMMA InitImplements ==
    ASSUME Init, \A s \in Session : PendingFits(s), LiveRows \subseteq 1..MaxRow
    PROVE  Store!Init
<1>1. \A s \in Session : txn[s].xid = 0
    BY DEF Init, NoTxn, NewTxn
<1>2. \A s \in Session : PendingDel(s) = {} /\ PendingAdd(s) = {}
    BY <1>1 DEF PendingFits
<1>3. /\ [s \in Session |-> PendingDel(s)] = [s \in Session |-> {}]
      /\ [s \in Session |-> PendingAdd(s)] = [s \in Session |-> {}]
    BY <1>2
<1>4. next_xid \in Nat
    BY DEF Init
<1> QED
    BY <1>3, <1>4 DEF Store!Init, Store!Nothing

(* To sessions that lock the rows they write the engine is an atomic and    *)
(* durable store: the committed rows change by whole transactions only, no  *)
(* transaction removes a row another has claimed, and a failed append,      *)
(* VACUUM, CHECKPOINT and a restart between any two statements change       *)
(* nothing that is committed.                                               *)
THEOREM EngineIsAtomicStore ==
    ASSUME "unlocked" \notin Client, "savepoint" \notin Client, "reupdate" \notin Client,
           Cardinality(InitKeys) <= MaxRow
    PROVE  Spec => ImplementsStore
<1> DEFINE Fits == \A s \in Session : PendingFits(s)
           Rows == LiveRows \subseteq 1..MaxRow
<1>1. Init => RInv
  <2>1. Cardinality(InitKeys) \in Nat /\ MaxRow \in Nat
    BY ConstantsAssumption, FS_CardinalityType
  <2> QED
    BY <2>1 DEF Init, RInv
<1>2. BInv /\ DInv /\ [Next]_vars => DInv'
    BY DInvStep
<1>3. BInv /\ DInv /\ RInv /\ [Next]_vars => RInv'
    BY RowIdStep
<1>4. BInv /\ RInv => Fits
    BY PendingOK
<1>5. BInv /\ RInv => Rows
  <2>1. ASSUME BInv, RInv PROVE \A r \in DOMAIN rows : r \in 1..MaxRow
    <3>1. RowTable(rows, next_row_id) /\ next_row_id \in Nat /\ MaxRow \in Nat
      BY <2>1, Shapes, ConstantsAssumption DEF BInv
    <3> QED
      BY <2>1, <3>1 DEF RowTable, RInv
  <2> QED
    BY <2>1 DEF LiveRows
<1>6. Init /\ Fits /\ Rows => Store!Init
    BY InitImplements
<1>7. BInv /\ BInv' /\ DInv /\ Fits /\ Fits' /\ [Next]_vars => [Store!Next]_(Store!vars)
    BY StepImplements
<1> HIDE DEF Fits, Rows
<1> QED
    BY <1>1, <1>2, <1>3, <1>4, <1>5, <1>6, <1>7, InitDInv, BlocksApart, PTL
    DEF Spec, ImplementsStore, Store!Spec

-----------------------------------------------------------------------------
(* One live version per key, when the key has a unique index and no         *)
(* statement changes it.  The recheck at commit knows the top-level xid     *)
(* only, so again the transactions take no savepoints.                      *)

(* Without savepoints a transaction has one xid. *)
LEMMA FlatStep ==
    ASSUME "savepoint" \notin Client, IInv, \A s \in Session : Flat(txn[s]), [Next]_vars
    PROVE  \A s \in Session : Flat(txn'[s])
<1>1. FieldTypes /\ txn \in [Session -> Txn] /\ \A s \in Session : txn[s] \in Txn
    BY Shapes
<1>2. \A x, level : Flat(NewTxn(x, level))
    BY DEF Flat, NewTxn
<1>3. Flat(NoTxn)
    BY <1>2 DEF NoTxn
<1>4. ASSUME NEW s \in Session, NEW t, Flat(t), txn' = [txn EXCEPT ![s] = t]
      PROVE  \A v \in Session : Flat(txn'[v])
    BY <1>1, <1>4
<1>5. ASSUME NEW s \in Session, NEW level, txn_begin(s, level)
      PROVE  \A v \in Session : Flat(txn'[v])
    BY <1>2, <1>4, <1>5 DEF txn_begin
<1>6. ASSUME NEW s \in Session, NEW q,
             \/ txn' = [txn EXCEPT ![s] = Pinned(@)]
             \/ txn' = [txn EXCEPT ![s] = [Pinned(txn[s]) EXCEPT !.failed = TRUE]]
             \/ txn' = [txn EXCEPT ![s] = [Pinned(txn[s]) EXCEPT !.writes = Append(@, q)]]
      PROVE  \A v \in Session : Flat(txn'[v])
  <2> DEFINE p == Pinned(txn[s])
             f == [p EXCEPT !.failed = TRUE]
             w == [p EXCEPT !.writes = Append(@, q)]
  <2>1. /\ p \in Txn /\ p.owned_xids = txn[s].owned_xids /\ p.savepoints = txn[s].savepoints
        /\ p.sub_xids = txn[s].sub_xids
    BY <1>1, PinnedType, PinnedFields
  <2>2. PICK t \in {p, f, w} : txn' = [txn EXCEPT ![s] = t]
    BY <1>1, <1>6
  <2> HIDE DEF p
  <2>3. /\ f.owned_xids = p.owned_xids /\ f.savepoints = p.savepoints /\ f.sub_xids = p.sub_xids
        /\ w.owned_xids = p.owned_xids /\ w.savepoints = p.savepoints /\ w.sub_xids = p.sub_xids
    BY <2>1 DEF Txn
  <2> HIDE DEF f, w
  <2>4. Flat(t)
    BY <2>1, <2>2, <2>3 DEF Flat
  <2> QED
    BY <1>4, <2>2, <2>4
<1>7. ASSUME NEW s \in Session, NEW r, NEW k,
             \/ exec_select(s) \/ StmtError(s) \/ acquire_row_locks(s, r)
             \/ exec_insert(s, k) \/ exec_delete(s, r) \/ exec_update(s, r, k)
      PROVE  \A v \in Session : Flat(txn'[v])
    BY <1>6, <1>7 DEF exec_select, StmtError, acquire_row_locks, exec_insert, exec_delete,
                      exec_update, Write
<1>8. ASSUME NEW s \in Session, NEW idx,
             txn_savepoint(s) \/ txn_rollback_to(s, idx) \/ txn_release(s, idx)
      PROVE  FALSE
  <2>1. DOMAIN txn[s].savepoints = {}
    BY DEF Flat
  <2> QED
    BY <1>8, <2>1 DEF txn_savepoint, txn_rollback_to, txn_release
<1>9. ASSUME NEW s \in Session, txn_rollback(s) \/ commit_taken_txn(s)
      PROVE  \A v \in Session : Flat(txn'[v])
    BY <1>3, <1>4, <1>9 DEF txn_rollback, commit_taken_txn, retire_txn_family
<1>10. ASSUME NEW s \in Session, NEW r, NEW k,
              \/ auto_insert(s, k) \/ auto_delete(s, r) \/ auto_update(s, r, k)
              \/ auto_error(s) \/ txn_vacuum(s) \/ txn_checkpoint(s)
       PROVE  UNCHANGED txn
    BY <1>10 DEF auto_insert, auto_delete, auto_update, auto_error, txn_vacuum, txn_checkpoint,
                 autocommit_execute
<1>11. CASE Restart
    BY <1>3, <1>11 DEF Restart
<1>12. CASE UNCHANGED txn
    BY <1>12
<1> QED
    BY <1>5, <1>7, <1>8, <1>9, <1>10, <1>11, <1>12 DEF Next, vars, CommitFails

(* The versions t created and did not stamp have different keys. *)
OneTip(t, rws) ==
    \A q, r \in DOMAIN rws :
        /\ rws[q].xmin \in all_xids(t) /\ rws[q].xmax = 0
        /\ rws[r].xmin \in all_xids(t) /\ rws[r].xmax = 0
        /\ rws[q].key = rws[r].key
        => q = r

(* w, of a transaction with the xids A, brought key k into it: it inserted  *)
(* the key, or it took over the version of another transaction.             *)
Root(w, A, rws, k) ==
    \/ w.op = "insert" /\ w.new # 0 /\ rws[w.new].key = k
    \/ w.old # 0 /\ rws[w.old].xmin \notin A /\ rws[w.old].key = k

(* Every key t has a version of was brought in by an op of its log. *)
Rooted(t, rws) ==
    \A r \in DOMAIN rws : rws[r].xmin \in all_xids(t) =>
        \E i \in DOMAIN t.writes : Root(t.writes[i], all_xids(t), rws, rws[r].key)

OneLive(rws, act) ==
    \A q, r : LiveRow(rws, act, q) /\ LiveRow(rws, act, r) /\ rws[q].key = rws[r].key => q = r

UInv ==
    /\ \A s \in Session : Flat(txn[s])
    /\ \A s \in Session : txn[s].xid # 0 => OneTip(txn[s], rows) /\ Rooted(txn[s], rows)
    /\ OneLive(rows, active)

(* Both depend on the versions that carry the transaction's xids only. *)
LEMMA TipsForeign ==
    ASSUME NEW t, NEW rws, OpsHold(t, rws), OneTip(t, rws), Rooted(t, rws),
           NEW z, SameFor(all_xids(t), rws, z)
    PROVE  OneTip(t, z) /\ Rooted(t, z)
<1> DEFINE A == all_xids(t)
<1> HIDE DEF A
<1>1. \A r \in DOMAIN rws : rws[r].xmin \in A \/ rws[r].xmax \in A =>
            r \in DOMAIN z /\ z[r] = rws[r]
    BY DEF SameFor, Carries, A
<1>2. \A r \in DOMAIN z : z[r].xmin \in A => r \in DOMAIN rws /\ z[r] = rws[r]
    BY DEF SameFor, Carries, A
<1>3. OneTip(t, z)
    BY <1>2 DEF OneTip, A
<1>4. ASSUME NEW i \in DOMAIN t.writes, NEW k, Root(t.writes[i], A, rws, k)
      PROVE  Root(t.writes[i], A, z, k)
    BY <1>1, <1>4 DEF Root, OpsHold, OpHolds, A
<1>5. Rooted(t, z)
  <2> SUFFICES ASSUME NEW r \in DOMAIN z, z[r].xmin \in A
               PROVE  \E i \in DOMAIN t.writes : Root(t.writes[i], A, z, z[r].key)
    BY DEF Rooted, A
  <2>1. r \in DOMAIN rws /\ z[r] = rws[r]
    BY <1>2
  <2>2. PICK i \in DOMAIN t.writes : Root(t.writes[i], A, rws, rws[r].key)
    BY <2>1 DEF Rooted, A
  <2> QED
    BY <1>4, <2>1, <2>2
<1> QED
    BY <1>3, <1>5

(* A write of session s keeps its tips apart and rooted: the statement saw  *)
(* no other version of the key.                                             *)
LEMMA TipsWrite ==
    ASSUME Unique, "rekey" \notin Client, BInv, NEW s \in Session, Open(s),
           OneTip(txn[s], rows), Rooted(txn[s], rows),
           NEW w, NEW k, NEW x, Write(s, w, k), WriteEffect(s, w, k, x), w.new \in {0, next_row_id},
           NEW u, u.writes = txn'[s].writes, all_xids(u) = all_xids(txn[s])
    PROVE  OneTip(u, rows') /\ Rooted(u, rows')
<1> DEFINE t == txn[s]
           A == all_xids(t)
           q == t.writes
           n == Len(q)
<1>1. t \in Txn /\ 0 \notin DOMAIN rows /\ IInv /\ SInv /\ 0 \notin A
  <2>1. t \in Txn /\ 0 \notin DOMAIN rows /\ IInv /\ SInv /\ FieldTypes
    BY Shapes DEF BInv
  <2>2. \A y \in A : y \in active
    BY <2>1, OpenXids DEF Open
  <2> QED
    BY <2>1, <2>2 DEF FieldTypes
<1>2. /\ q \in Seq(WriteOp) /\ w \in WriteOp /\ x \in A /\ Wrote(rows, w, k, x, rows')
      /\ Keyed(w, k, t) /\ (w.old # 0 => w.old \in DOMAIN rows) /\ u.writes = Append(q, w)
    BY <1>1 DEF WriteEffect, Txn
<1>3. TInv(t, rows, LocksIn(lock_order, t.xid))
    BY <1>1 DEF SInv, Open
<1>4. OwnOnly(t, rows) /\ OpsHold(t, rows)
    BY <1>3 DEF TInv
<1>5. /\ n \in Nat /\ DOMAIN q = 1..n /\ DOMAIN u.writes = 1..n + 1
      /\ u.writes[n + 1] = w /\ \A i \in 1..n : u.writes[i] = q[i]
    BY <1>2, AppendDomain, LenProperties
<1> HIDE DEF t, A, q, n
<1>6. ASSUME NEW r \in DOMAIN rows, r # w.old, rows[r].xmin \in A, rows[r].xmax = 0, w.new # 0
      PROVE  rows[r].key # k
    BY <1>1, <1>2, <1>6 DEF Keyed, unique_violation, A
<1>7. \A r \in DOMAIN rows' : rows'[r].xmax = 0 =>
        \/ r \in DOMAIN rows /\ r # w.old /\ rows'[r] = rows[r]
        \/ r = w.new /\ w.new # 0 /\ rows'[r].key = k
    BY <1>1, <1>2 DEF Wrote
<1>8. OneTip(u, rows')
    BY <1>6, <1>7 DEF OneTip, t, A
<1>9. \A r \in DOMAIN rows : r \in DOMAIN rows' /\ rows'[r].key = rows[r].key
                                                /\ rows'[r].xmin = rows[r].xmin
    BY <1>2 DEF Wrote
<1>10. ASSUME NEW i \in DOMAIN q, NEW c, Root(q[i], A, rows, c)
       PROVE  i \in DOMAIN u.writes /\ Root(u.writes[i], A, rows', c)
    BY <1>4, <1>5, <1>9, <1>10 DEF Root, OpsHold, OpHolds, q
<1>11. ASSUME NEW r \in DOMAIN rows, rows[r].xmin \in A
       PROVE  \E i \in DOMAIN u.writes : Root(u.writes[i], A, rows', rows[r].key)
    BY <1>10, <1>11 DEF Rooted, t, A, q
<1>12. ASSUME w.new # 0
       PROVE  \E i \in DOMAIN u.writes : Root(u.writes[i], A, rows', k)
  <2>1. rows'[w.new].key = k /\ n + 1 \in DOMAIN u.writes
    BY <1>2, <1>5, <1>12 DEF Wrote
  <2>2. CASE w.op = "insert"
    BY <1>5, <1>12, <2>1, <2>2 DEF Root
  <2>3. CASE w.op = "update"
    <3>1. w.old \in DOMAIN rows /\ w.old # 0 /\ k = rows[w.old].key
      BY <1>2, <2>3 DEF Keyed
    <3>2. CASE rows[w.old].xmin \in A
      BY <1>11, <3>1, <3>2
    <3>3. CASE rows[w.old].xmin \notin A
      BY <1>5, <1>9, <2>1, <3>1, <3>3 DEF Root
    <3> QED
      BY <3>2, <3>3
  <2>4. w.op \in {"insert", "update"}
    BY <1>2, <1>12 DEF Keyed, WriteOp
  <2> QED
    BY <2>2, <2>3, <2>4
<1>13. Rooted(u, rows')
  <2> SUFFICES ASSUME NEW r \in DOMAIN rows', rows'[r].xmin \in A
               PROVE  \E i \in DOMAIN u.writes : Root(u.writes[i], A, rows', rows'[r].key)
    BY DEF Rooted, t, A
  <2>1. CASE r \in DOMAIN rows
    BY <1>9, <1>11, <2>1
  <2>2. CASE r = w.new /\ w.new # 0
    BY <1>2, <1>12, <2>2 DEF Wrote
  <2> QED
    BY <1>2, <2>1, <2>2 DEF Wrote
<1> QED
    BY <1>8, <1>13

(* COMMIT installs no second version of a key: what the transaction         *)
(* inserted is checked against everything committed, and what it updated    *)
(* replaces the one live version.                                           *)
LEMMA CommitOneLive ==
    ASSUME Unique, BInv, UInv, NEW s \in Session, commit_taken_txn(s)
    PROVE  OneLive(rows', active')
<1> DEFINE t == txn[s]
           A == all_xids(t)
           Old(r) == LiveRow(rows, active, r) /\ rows[r].xmax \notin A
           Tip(r) == r \in DOMAIN rows /\ rows[r].xmin \in A /\ rows[r].xmax = 0
<1>1. IInv /\ SInv /\ t.xid # 0 /\ Flat(t)
    BY DEF BInv, UInv, commit_taken_txn, Running, Open
<1>2. /\ A = {t.xid} /\ t.xid \in active
  <2>1. A = {t.xid}
    BY <1>1 DEF Flat, all_xids
  <2> QED
    BY <1>1, <2>1, OpenXids
<1>3. OneTip(t, rows) /\ Rooted(t, rows) /\ OneLive(rows, active)
    BY <1>1 DEF UInv
<1>4. OpsHold(t, rows) /\ Bounded(rows, next_xid)
    BY <1>1 DEF SInv, TInv
<1>5. \A r : LiveRow(rows', active', r) <=> Old(r) \/ Tip(r)
    BY <1>1, CommitLive
<1>6. \A r \in DOMAIN rows' : rows'[r] = rows[r]
    BY <1>1, EndEffect DEF Vacuumed
<1>7. ~CommitConflict(t.writes, t.xid)
    BY DEF commit_taken_txn
<1>8. ASSUME NEW r \in DOMAIN rows, rows[r].xmin \in A,
             NEW o, Old(o), rows[o].key = rows[r].key
      PROVE  FALSE
  <2>1. PICK i \in DOMAIN t.writes : Root(t.writes[i], A, rows, rows[r].key)
    BY <1>3, <1>8 DEF Rooted
  <2> DEFINE w == t.writes[i]
  <2>2. CASE w.op = "insert" /\ w.new # 0 /\ rows[w.new].key = rows[r].key
    <3>1. w.new \in DOMAIN rows /\ rows[w.new].xmin = t.xid
      BY <1>2, <1>4, <2>2 DEF OpsHold, OpHolds
    <3>2. ~committed_unique_violation(w.new, t.xid)
      BY <1>7, <2>2, <3>1 DEF CommitConflict, own_row
    <3>3. o \in DOMAIN rows /\ rows[o].xmin # t.xid /\ o # w.new
      BY <1>2, <1>8, <3>1 DEF LiveRow
    <3>4. row_visible(rows[o], take_snapshot, {t.xid})
      BY <1>2, <1>4, <1>8 DEF LiveRow, row_visible, take_snapshot, SeenCommitted, Bounded
    <3> QED
      BY <1>8, <2>2, <3>2, <3>3, <3>4 DEF committed_unique_violation
  <2>3. CASE w.old # 0 /\ rows[w.old].xmin \notin A /\ rows[w.old].key = rows[r].key
    <3>1. w.old \in DOMAIN rows /\ rows[w.old].xmax \in A
      BY <1>4, <2>3 DEF OpsHold, OpHolds
    <3>2. LiveRow(rows, active, w.old)
      BY <1>1, <2>3, <3>1, StampedLive
    <3>3. w.old = o
      BY <1>3, <1>8, <2>3, <3>2 DEF OneLive
    <3> QED
      BY <1>8, <3>1, <3>3
  <2> QED
    BY <2>1, <2>2, <2>3 DEF Root
<1>9. ASSUME NEW q, NEW r, Old(q) \/ Tip(q), Old(r) \/ Tip(r), rows[q].key = rows[r].key
      PROVE  q = r
    BY <1>3, <1>8, <1>9 DEF OneTip, OneLive
<1> HIDE DEF Old, Tip
<1> QED
    BY <1>5, <1>6, <1>9 DEF OneLive, LiveRow

(* Neither does a statement outside a block: its snapshot is fresh. *)
LEMMA AutoOneLive ==
    ASSUME Unique, BInv, UInv, NEW w, NEW k, NEW y, AutoWrite(w, k, y), AutoKept(w, y)
    PROVE  OneLive(rows', active')
<1> DEFINE Old(r) == LiveRow(rows, active, r) /\ r # w.old
<1>1. IInv /\ SInv /\ OneLive(rows, active) /\ Bounded(rows, next_xid) /\ 0 \notin DOMAIN rows
    BY Shapes DEF BInv, UInv, SInv
<1>2. \A r : LiveRow(rows', active', r) <=> Old(r) \/ (r = w.new /\ r # 0)
    BY <1>1, AutoKeptLive
<1>3. \A r \in DOMAIN rows' : r \in DOMAIN y /\ rows'[r] = y[r]
    BY DEF AutoKept, Vacuumed
<1>4. /\ \A r \in DOMAIN rows : y[r].key = rows[r].key /\ r # w.new
      /\ w.new # 0 => y[w.new].key = k
    BY DEF AutoWrite, Wrote
<1>5. stmt_snapshot(AutoTxn) = take_snapshot /\ all_xids(AutoTxn) = {next_xid}
    BY <1>1, AutoApart DEF stmt_snapshot
<1>6. ASSUME NEW o, Old(o), w.new # 0 PROVE rows[o].key # k
  <2>1. ~unique_violation(k, {w.old}, take_snapshot, {next_xid})
    BY <1>5, <1>6 DEF AutoWrite, Keyed
  <2>2. next_xid \notin active /\ next_xid \in Nat
    BY <1>1, Shapes DEF FieldTypes
  <2>3. /\ o \in DOMAIN rows \ {w.old} /\ rows[o].xmax \notin {next_xid}
        /\ row_visible(rows[o], take_snapshot, {next_xid})
    BY <1>1, <1>6, <2>2 DEF LiveRow, row_visible, take_snapshot, SeenCommitted, Bounded
  <2> QED
    BY <2>1, <2>3 DEF unique_violation
<1>7. ASSUME NEW o, Old(o) PROVE o \in DOMAIN rows
    BY <1>7 DEF LiveRow
<1>8. ASSUME NEW q, NEW r, Old(q), Old(r), rows[q].key = rows[r].key PROVE q = r
    BY <1>1, <1>8 DEF OneLive
<1> HIDE DEF Old
<1>9. ASSUME NEW q, NEW r, Old(q) \/ (q = w.new /\ q # 0), Old(r) \/ (r = w.new /\ r # 0),
             y[q].key = y[r].key
      PROVE  q = r
    BY <1>4, <1>6, <1>7, <1>8, <1>9
<1> QED
    BY <1>2, <1>3, <1>9 DEF OneLive, LiveRow

(* A step that leaves the live rows alone leaves their keys alone too. *)
LEMMA SameOneLive ==
    ASSUME "unlocked" \notin Client, BInv, [Next]_vars, ~Restart, LiveSame, OneLive(rows, active)
    PROVE  OneLive(rows', active')
<1>1. \A r \in DOMAIN rows' : r \in DOMAIN rows => rows'[r].key = rows[r].key
  <2>1. \A r \in DOMAIN rows : r # next_row_id
    BY Shapes DEF BInv, RowTable
  <2> QED
    BY <2>1, StepKeeps
<1> QED
    BY <1>1 DEF OneLive, LiveSame, LiveRow

(* Every step but a restart keeps one live version per key. *)
LEMMA StepOneLive ==
    ASSUME Unique, "unlocked" \notin Client, BInv, UInv, [Next]_vars, ~Restart
    PROVE  OneLive(rows', active')
<1>1. IInv /\ AInv /\ LInv /\ SInv
    BY DEF BInv
<1>2. ASSUME LiveSame PROVE OneLive(rows', active')
    BY <1>2, SameOneLive DEF UInv
<1> QED
    BY <1>1, <1>2, StepLive, CommitOneLive, AutoOneLive

(* Every step keeps the tips of the open transactions. *)
LEMMA StepTips ==
    ASSUME Unique, "unlocked" \notin Client, "rekey" \notin Client, BInv, UInv,
           [Next]_vars, \A s \in Session : Flat(txn'[s]),
           NEW u \in Session, txn'[u].xid # 0
    PROVE  OneTip(txn'[u], rows') /\ Rooted(txn'[u], rows')
<1> DEFINE Goal == OneTip(txn'[u], rows') /\ Rooted(txn'[u], rows')
<1>1. /\ IInv /\ AInv /\ LInv /\ SInv /\ FieldTypes /\ txn \in [Session -> Txn]
    BY Shapes DEF BInv
<1>2. all_xids(txn'[u]) = {txn'[u].xid}
    BY DEF Flat, all_xids
<1>3. txn[u].xid # 0 => /\ OneTip(txn[u], rows) /\ Rooted(txn[u], rows) /\ OpsHold(txn[u], rows)
                        /\ all_xids(txn[u]) = {txn[u].xid}
    BY <1>1 DEF UInv, SInv, TInv, Flat, all_xids
<1>4. ASSUME txn'[u] = txn[u], SameFor(all_xids(txn[u]), rows, rows') PROVE Goal
    BY <1>3, <1>4, TipsForeign
<1>5. ASSUME Quiet PROVE Goal
  <2>1. CASE txn[u].xid # 0
    <3>1. all_xids(txn'[u]) = all_xids(txn[u]) /\ txn'[u].writes = txn[u].writes
      BY <1>2, <1>3, <1>5, <2>1 DEF Quiet
    <3> QED
      BY <1>3, <1>5, <2>1, <3>1 DEF Quiet, OneTip, Rooted
  <2>2. CASE txn[u].xid = 0
    <3>1. txn'[u].xid = next_xid
      BY <1>5, <2>2 DEF Quiet
    <3>2. \A r \in DOMAIN rows' : rows'[r].xmin \notin all_xids(txn'[u])
      BY <1>1, <1>2, <1>5, <3>1, NothingCarries DEF Quiet, SInv, Carries
    <3> QED
      BY <3>2 DEF OneTip, Rooted
  <2> QED
    BY <2>1, <2>2
<1>6. ASSUME NEW s \in Session, NEW w, NEW k, NEW x,
             Open(s), Write(s, w, k), WriteEffect(s, w, k, x), w.new \in {0, next_row_id}
      PROVE  Goal
  <2>1. \A v \in Session : txn'[v].xid = txn[v].xid /\ (v # s => txn'[v] = txn[v])
    <3> DEFINE p == Pinned(txn[s])
               t == [p EXCEPT !.writes = Append(@, w)]
    <3>1. p \in Txn /\ p.xid = txn[s].xid
      BY <1>1, PinnedType, PinnedFields
    <3>2. txn' = [txn EXCEPT ![s] = t]
      BY <1>6 DEF Write
    <3> HIDE DEF p
    <3>3. t.xid = p.xid
      BY <3>1 DEF Txn
    <3> HIDE DEF t
    <3> QED
      BY <1>1, <3>1, <3>2, <3>3
  <2>2. CASE u = s
    BY <1>2, <1>3, <1>6, <2>1, <2>2, TipsWrite
  <2>3. CASE u # s
    BY <1>1, <1>4, <1>6, <2>1, <2>3, WriteForeign
  <2> QED
    BY <2>2, <2>3
<1>7. ASSUME NEW s \in Session, NEW idx, txn_rollback_to(s, idx) PROVE Goal
  <2>1. DOMAIN txn[s].savepoints = {}
    BY DEF UInv, Flat
  <2> QED
    BY <1>7, <2>1 DEF txn_rollback_to
<1>8. ASSUME NEW s \in Session, txn_rollback(s) \/ commit_taken_txn(s) PROVE Goal
  <2>1. txn' = [txn EXCEPT ![s] = NoTxn]
    BY <1>1, <1>8, EndEffect
  <2>2. u # s /\ txn'[u] = txn[u]
    BY <1>1, <2>1 DEF NoTxn, NewTxn
  <2> QED
    BY <1>1, <1>4, <1>8, <2>2, EndForeign
<1>9. ASSUME NEW w, NEW k, NEW y, AutoWrite(w, k, y), AutoKept(w, y) \/ AutoUndone(w, y) PROVE Goal
    BY <1>1, <1>4, <1>9, AutoForeign DEF AutoWrite
<1>10. ASSUME NEW s \in Session, txn_vacuum(s) PROVE Goal
  <2>1. /\ Vacuumed(rows, active, snapshots, rows') /\ txn' = txn
    BY <1>10, VacuumVacuums DEF txn_vacuum
  <2>2. \A x \in all_xids(txn[u]) : x \in active
    BY <1>1, <2>1, OpenXids
  <2> QED
    BY <1>4, <2>1, <2>2, VacuumedForeign
<1>11. ASSUME Restart PROVE Goal
  <2>1. txn'[u] = NoTxn
    BY <1>11 DEF Restart
  <2> QED
    BY <2>1 DEF NoTxn, NewTxn
<1> HIDE DEF Goal
<1>12. Goal
    BY <1>1, <1>5, <1>6, <1>7, <1>8, <1>9, <1>10, <1>11, StepKinds
<1> QED
    BY <1>12 DEF Goal

(* A version has one key, in memory and on disk. *)
KInv == \A r \in DOMAIN rows : r \in DOMAIN disk.rows => disk.rows[r].key = rows[r].key

(* Replay takes the key of a version it creates from the table. *)
LEMMA ReplayedKeys ==
    ASSUME NEW d, DiskImage(d), NEW rws, NEW writes, NEW own
    PROVE  LET e == apply_record(d, rws, writes, own)
           IN  \A r \in DOMAIN e.rows :
                    e.rows[r].key = IF r \in DOMAIN d.rows THEN d.rows[r].key ELSE rws[r].key
<1> DEFINE e == apply_record(d, rws, writes, own)
           logged == records_for_commit(rws, writes, own)
           created == {writes[i].new : i \in logged} \ {0}
           stamped == {writes[i].old : i \in {j \in logged : Replayable(d, writes, logged, j)}}
           v(r) == IF r \in DOMAIN d.rows THEN d.rows[r]
                   ELSE [key |-> rws[r].key, xmin |-> own, xmax |-> 0]
           D == DOMAIN d.rows \cup created
<1>1. e.rows = [r \in D |-> IF r \in stamped THEN [v(r) EXCEPT !.xmax = own] ELSE v(r)]
    BY DEF apply_record
<1>2. ASSUME NEW r \in D
      PROVE  /\ [v(r) EXCEPT !.xmax = own].key = v(r).key
             /\ v(r).key = IF r \in DOMAIN d.rows THEN d.rows[r].key ELSE rws[r].key
  <2>1. r \in DOMAIN d.rows => d.rows[r] \in RowVersion
    BY DEF DiskImage, RowTable
  <2> QED
    BY <2>1 DEF RowVersion
<1> HIDE DEF D, stamped, created, v, logged
<1>3. DOMAIN e.rows = D /\ \A r \in D : e.rows[r].key = v(r).key
    BY <1>1, <1>2
<1> QED
    BY <1>2, <1>3

(* COMMIT, a statement outside a block and CHECKPOINT write those keys.     *)
LEMMA KeysStep ==
    ASSUME "unlocked" \notin Client, BInv, DInv, KInv, [Next]_vars
    PROVE  KInv'
<1>1. IInv /\ AInv /\ LInv /\ SInv /\ FieldTypes /\ DiskImage(disk) /\ next_row_id \in Nat
    BY Shapes DEF BInv
<1>2. \A r \in DOMAIN disk.rows : r # next_row_id
    BY <1>1 DEF DInv, DiskImage, RowTable
<1>3. ASSUME ~Restart, NEW r \in DOMAIN rows', r \in DOMAIN disk.rows
      PROVE  disk.rows[r].key = rows'[r].key
    BY <1>2, <1>3, StepKeeps DEF KInv
<1>4. CASE Restart
    BY <1>4 DEF Restart, KInv
<1>5. ASSUME ~Restart, disk' = disk PROVE KInv'
    BY <1>3, <1>5 DEF KInv
<1>6. ASSUME ~Restart, NEW s \in Session, commit_taken_txn(s) PROVE KInv'
  <2>1. \A r \in DOMAIN rows' : rows'[r] = rows[r]
    BY <1>1, <1>6, EndEffect DEF Vacuumed
  <2>2. disk' = apply_record(disk, rows, txn[s].writes, txn[s].xid)
    BY <1>6 DEF commit_taken_txn
  <2>3. \A r \in DOMAIN disk'.rows :
            disk'.rows[r].key = IF r \in DOMAIN disk.rows THEN disk.rows[r].key ELSE rows[r].key
    BY <1>1, <2>2, ReplayedKeys
  <2> QED
    BY <1>3, <1>6, <2>1, <2>3 DEF KInv
<1>7. ASSUME ~Restart, NEW w, NEW k, NEW y, AutoWrite(w, k, y), AutoKept(w, y) PROVE KInv'
  <2>1. \A r \in DOMAIN rows' : rows'[r] = y[r]
    BY <1>7 DEF AutoKept, Vacuumed
  <2>2. \A r \in DOMAIN disk'.rows :
            disk'.rows[r].key = IF r \in DOMAIN disk.rows THEN disk.rows[r].key ELSE y[r].key
    BY <1>1, <1>7, ReplayedKeys DEF AutoKept
  <2> QED
    BY <1>3, <1>7, <2>1, <2>2 DEF KInv
<1>8. ASSUME NEW s \in Session, txn_checkpoint(s) PROVE KInv'
  <2>1. rows' = rows /\ disk' = CheckpointImage
    BY <1>8 DEF txn_checkpoint, engine
  <2>2. \A r \in DOMAIN CheckpointImage.rows :
            r \in DOMAIN rows /\ CheckpointImage.rows[r] = [rows[r] EXCEPT !.xmax = committed_xmax(@)]
    BY DEF CheckpointImage
  <2>3. \A r \in DOMAIN rows : [rows[r] EXCEPT !.xmax = committed_xmax(@)].key = rows[r].key
    BY <1>1 DEF FieldTypes, RowTable, RowVersion
  <2>4. \A r \in DOMAIN CheckpointImage.rows : CheckpointImage.rows[r].key = rows[r].key
    BY <2>2, <2>3
  <2> QED
    BY <2>1, <2>4 DEF KInv
<1> QED
    BY <1>4, <1>5, <1>6, <1>7, <1>8, StepDisk

(* Initially the rows have the keys of InitKeys, one each. *)
LEMMA InitUInv ==
    ASSUME Init
    PROVE  UInv /\ KInv
<1>1. PICK f \in Loads : rows = [i \in DOMAIN f |-> [key |-> f[i], xmin |-> 1, xmax |-> 0]]
    BY DEF Init
<1>2. \A i, j \in DOMAIN rows : rows[i].key = rows[j].key => i = j
    BY <1>1 DEF Loads
<1>3. \A s \in Session : txn[s].xid = 0 /\ Flat(txn[s])
    BY DEF Init, NoTxn, NewTxn, Flat
<1>4. disk.rows = rows
    BY DEF Init
<1> QED
    BY <1>2, <1>3, <1>4 DEF UInv, KInv, OneLive, LiveRow

(* A unique key has at most one live version, however inserts, updates and  *)
(* deletes of blocks and of statements outside blocks overlap, and across   *)
(* restarts: the recheck at commit and the locks of the updated rows close  *)
(* the gap between the check of a statement and the commit.                 *)
THEOREM UniqueKeys ==
    ASSUME Unique, "unlocked" \notin Client, "rekey" \notin Client, "savepoint" \notin Client,
           "restart" \in Faults => "reupdate" \notin Client
    PROVE  Spec => []OneLiveVersionPerKey
<1> DEFINE J == "restart" \in Faults => DInv /\ KInv
<1>1. Init => UInv /\ J
    BY InitUInv, InitDInv
<1>2. BInv /\ J /\ [Next]_vars => J'
    BY DInvStep, KeysStep
<1>3. BInv /\ UInv /\ J /\ [Next]_vars => UInv'
  <2> SUFFICES ASSUME BInv, UInv, J, [Next]_vars PROVE UInv'
    OBVIOUS
  <2>1. \A s \in Session : Flat(txn'[s])
    BY FlatStep DEF BInv, UInv
  <2>2. \A s \in Session : txn'[s].xid # 0 => OneTip(txn'[s], rows') /\ Rooted(txn'[s], rows')
    BY <2>1, StepTips
  <2>3. CASE ~Restart
    BY <2>1, <2>2, <2>3, StepOneLive DEF UInv
  <2>4. CASE Restart
    <3>1. DInv /\ KInv
      BY <2>4 DEF Restart
    <3>2. LiveSame
      BY <2>4, <3>1, RestartLive
    <3>3. \A r : LiveRow(rows', active', r) => LiveRow(rows, active, r) /\ rows'[r].key = rows[r].key
      BY <2>4, <3>1, <3>2 DEF LiveSame, LiveRow, Restart, KInv
    <3>4. OneLive(rows', active')
      BY <3>3 DEF UInv, OneLive
    <3> QED
      BY <2>1, <2>2, <3>4 DEF UInv
  <2> QED
    BY <2>3, <2>4
<1>4. BInv /\ UInv => OneLiveVersionPerKey
    BY LiveNow DEF BInv, UInv, OneLive, OneLiveVersionPerKey
<1> QED
    BY <1>1, <1>2, <1>3, <1>4, BlocksApart, PTL DEF Spec


-----------------------------------------------------------------------------
(* Undo, op by op.                                                          *)

(* z is rws without the ops of q after the first k. *)
UndoneAfter(rws, owns, q, k, z) ==
    /\ \A r : r \in DOMAIN z <=>
            /\ r \in DOMAIN rws
            /\ ~(rws[r].xmin \in owns /\ \E i \in k + 1..Len(q) : q[i].new = r)
    /\ \A r \in DOMAIN z :
        IF rws[r].xmax \in owns /\ \E i \in k + 1..Len(q) : q[i].old = r
        THEN /\ z[r].xmax \notin owns
             /\ \E i \in k + 1..Len(q) : /\ q[i].old = r
                                         /\ \A j \in k + 1..Len(q) : q[j].old = r => j <= i
                                         /\ z[r] = [rws[r] EXCEPT !.xmax = q[i].prev]
        ELSE z[r] = rws[r]

(* What undo_write_op does to a version. *)
LEMMA OneUndone ==
    ASSUME NEW rws, NEW owns, NEW w
    PROVE  LET z == undo_write_op(rws, owns, w) IN
           /\ \A r : r \in DOMAIN z <=> r \in DOMAIN rws /\ ~(r = w.new /\ rws[r].xmin \in owns)
           /\ \A r \in DOMAIN z : z[r] = IF r = w.old /\ rws[r].xmax \in owns
                                         THEN [rws[r] EXCEPT !.xmax = w.prev] ELSE rws[r]
           /\ z = [r \in DOMAIN z |-> z[r]]
    BY DEF undo_write_op

(* Undoing one op more. *)
LEMMA UndoneNext ==
    ASSUME NEW n, NEW rws, RowTable(rws, n), NEW owns, NEW q \in Seq(WriteOp),
           \A i \in DOMAIN q : q[i].prev \notin owns,
           NEW k \in 1..Len(q), NEW z, UndoneAfter(rws, owns, q, k, z)
    PROVE  UndoneAfter(rws, owns, q, k - 1, undo_write_op(z, owns, q[k]))
<1> DEFINE w == q[k]
           y == undo_write_op(z, owns, w)
           Later == k + 1..Len(q)
           All == (k - 1) + 1..Len(q)
           made(r) == \E i \in Later : q[i].new = r
           stamped(r) == \E i \in Later : q[i].old = r
<1>1. /\ DOMAIN q = 1..Len(q) /\ Len(q) \in Nat /\ k \in DOMAIN q
      /\ \A i : i \in All <=> i = k \/ i \in Later
      /\ \A i \in Later : k <= i /\ i \in DOMAIN q
      /\ k <= k
    BY LenProperties
<1>2. \A r \in DOMAIN rws : rws[r] \in RowVersion
    BY DEF RowTable
<1>3. /\ \A r : r \in DOMAIN y <=> r \in DOMAIN z /\ ~(r = w.new /\ z[r].xmin \in owns)
      /\ \A r \in DOMAIN y : y[r] = IF r = w.old /\ z[r].xmax \in owns
                                    THEN [z[r] EXCEPT !.xmax = w.prev] ELSE z[r]
    BY OneUndone
<1>4. /\ \A r : r \in DOMAIN z <=> r \in DOMAIN rws /\ ~(rws[r].xmin \in owns /\ made(r))
      /\ \A r \in DOMAIN z :
          IF rws[r].xmax \in owns /\ stamped(r)
          THEN /\ z[r].xmax \notin owns
               /\ \E i \in Later : /\ q[i].old = r
                                   /\ \A j \in Later : q[j].old = r => j <= i
                                   /\ z[r] = [rws[r] EXCEPT !.xmax = q[i].prev]
          ELSE z[r] = rws[r]
    BY DEF UndoneAfter
<1> HIDE DEF y, All, Later
<1>5. ASSUME NEW r \in DOMAIN z PROVE z[r].xmin = rws[r].xmin
  <2>1. rws[r] \in RowVersion
    BY <1>2, <1>4
  <2> HIDE DEF stamped, made
  <2>2. CASE z[r] = rws[r]
    BY <2>2
  <2>3. CASE \E i \in Later : z[r] = [rws[r] EXCEPT !.xmax = q[i].prev]
    BY <2>1, <2>3 DEF RowVersion
  <2> QED
    BY <1>4, <2>2, <2>3
<1>6. \A r : r \in DOMAIN y <=>
            r \in DOMAIN rws /\ ~(rws[r].xmin \in owns /\ \E i \in All : q[i].new = r)
  <2>1. \A r : (\E i \in All : q[i].new = r) <=> r = w.new \/ made(r)
    BY <1>1
  <2> HIDE DEF made, w
  <2> QED
    BY <1>3, <1>4, <1>5, <2>1
<1>7. \A r : (\E i \in All : q[i].old = r) <=> r = w.old \/ stamped(r)
    BY <1>1
<1>8. ASSUME NEW r \in DOMAIN y
      PROVE  IF rws[r].xmax \in owns /\ (r = w.old \/ stamped(r))
             THEN /\ y[r].xmax \notin owns
                  /\ \E i \in All : /\ q[i].old = r
                                    /\ \A j \in All : q[j].old = r => j <= i
                                    /\ y[r] = [rws[r] EXCEPT !.xmax = q[i].prev]
             ELSE y[r] = rws[r]
  <2>1. r \in DOMAIN z /\ rws[r] \in RowVersion
    BY <1>2, <1>3, <1>4
  <2>2. CASE rws[r].xmax \in owns /\ stamped(r)
    <3>1. PICK i \in Later : /\ q[i].old = r
                             /\ \A j \in Later : q[j].old = r => j <= i
                             /\ z[r] = [rws[r] EXCEPT !.xmax = q[i].prev]
      BY <1>4, <2>1, <2>2
    <3>2. z[r].xmax \notin owns
      BY <1>4, <2>1, <2>2
    <3>3. y[r] = z[r]
      BY <1>3, <3>2
    <3>4. i \in All /\ \A j \in All : q[j].old = r => j <= i
      BY <1>1, <3>1
    <3> QED
      BY <2>2, <3>1, <3>2, <3>3, <3>4
  <2>3. CASE rws[r].xmax \in owns /\ ~stamped(r) /\ r = w.old
    <3>1. z[r] = rws[r]
      BY <1>4, <2>1, <2>3
    <3>2. y[r] = [rws[r] EXCEPT !.xmax = w.prev]
      BY <1>3, <2>3, <3>1
    <3>3. y[r].xmax \notin owns
      BY <1>1, <2>1, <3>2 DEF RowVersion
    <3>4. k \in All /\ q[k].old = r /\ \A j \in All : q[j].old = r => j <= k
      BY <1>1, <2>3
    <3> QED
      BY <2>3, <3>2, <3>3, <3>4
  <2>4. CASE ~(rws[r].xmax \in owns /\ (r = w.old \/ stamped(r)))
    <3>1. z[r] = rws[r]
      BY <1>4, <2>1, <2>4
    <3> HIDE DEF w, stamped
    <3> QED
      BY <1>3, <2>4, <3>1
  <2> QED
    BY <2>2, <2>3, <2>4
<1>9. \A r \in DOMAIN y :
        IF rws[r].xmax \in owns /\ \E i \in All : q[i].old = r
        THEN /\ y[r].xmax \notin owns
             /\ \E i \in All : /\ q[i].old = r
                               /\ \A j \in All : q[j].old = r => j <= i
                               /\ y[r] = [rws[r] EXCEPT !.xmax = q[i].prev]
        ELSE y[r] = rws[r]
  <2> HIDE DEF w, stamped
  <2> QED
    BY <1>7, <1>8
<1>10. UndoneAfter(rws, owns, q, k - 1, y)
    BY <1>6, <1>9 DEF UndoneAfter, All
<1> QED
    BY <1>10 DEF y

(* Undoing all of them is what undo_all computes in one step. *)
LEMMA UndoneAll ==
    ASSUME NEW rws, NEW owns, NEW q \in Seq(WriteOp),
           NEW z, z = [r \in DOMAIN z |-> z[r]], UndoneAfter(rws, owns, q, 0, z)
    PROVE  z = undo_all(rws, owns, q)
<1> DEFINE gone == {r \in DOMAIN rws : /\ rws[r].xmin \in owns
                                       /\ \E i \in DOMAIN q : q[i].new = r}
           stamped(r) == \E i \in DOMAIN q : q[i].old = r
           val(r) == IF rws[r].xmax \in owns /\ stamped(r)
                     THEN [rws[r] EXCEPT !.xmax = q[NewestStamp(q, r)].prev]
                     ELSE rws[r]
<1>1. undo_all(rws, owns, q) = [r \in DOMAIN rws \ gone |-> val(r)]
    BY DEF undo_all
<1>2. DOMAIN q = 1..Len(q) /\ 0 + 1..Len(q) = DOMAIN q
    BY LenProperties
<1>3. DOMAIN z = DOMAIN rws \ gone
  <2>1. \A r : r \in DOMAIN z <=>
            r \in DOMAIN rws /\ ~(rws[r].xmin \in owns /\ \E i \in 0 + 1..Len(q) : q[i].new = r)
    BY DEF UndoneAfter
  <2>2. \A r : r \in DOMAIN z <=>
            r \in DOMAIN rws /\ ~(rws[r].xmin \in owns /\ \E i \in DOMAIN q : q[i].new = r)
    BY <1>2, <2>1
  <2> QED
    BY <2>2
<1>4. ASSUME NEW r \in DOMAIN z PROVE z[r] = val(r)
  <2>1. CASE rws[r].xmax \in owns /\ stamped(r)
    <3>1. PICK i \in DOMAIN q : /\ q[i].old = r
                                /\ \A j \in DOMAIN q : q[j].old = r => j <= i
                                /\ z[r] = [rws[r] EXCEPT !.xmax = q[i].prev]
      BY <1>2, <2>1 DEF UndoneAfter
    <3> DEFINE m == NewestStamp(q, r)
    <3>2. m \in DOMAIN q /\ q[m].old = r /\ \A j \in DOMAIN q : q[j].old = r => j <= m
      BY <3>1, Zenon DEF NewestStamp
    <3> HIDE DEF m
    <3>3. m <= i /\ i <= m
      BY <3>1, <3>2
    <3>4. m = i
      BY <1>2, <3>1, <3>2, <3>3
    <3> QED
      BY <2>1, <3>1, <3>4 DEF m
  <2>2. CASE ~(rws[r].xmax \in owns /\ stamped(r))
    BY <1>2, <2>2 DEF UndoneAfter
  <2> QED
    BY <2>1, <2>2
<1> HIDE DEF gone, val
<1>5. z = [r \in DOMAIN rws \ gone |-> val(r)]
    BY <1>3, <1>4
<1> QED
    BY <1>1, <1>5

(* The recursive function of UndoOneByOne exists. *)
UndoStep(rws, owns, ops, u, n) ==
    IF n = 0 THEN rws ELSE undo_write_op(u[n - 1], owns, ops[Len(ops) - n + 1])

LEMMA UndoRun ==
    ASSUME NEW rws, NEW owns, NEW ops, Len(ops) \in Nat
    PROVE  \E u : /\ u[0] = rws
                  /\ \A n \in 1..Len(ops) :
                        u[n] = undo_write_op(u[n - 1], owns, ops[Len(ops) - n + 1])
                  /\ UndoOneByOne(rws, owns, ops) = u[Len(ops)]
<1> DEFINE N == Len(ops)
           Sol(m, u) == u = [n \in 0..m |-> UndoStep(rws, owns, ops, u, n)]
           Good == {m \in 0..N : \A j \in 0..m : \E u : Sol(j, u)}
<1>1. \E u : Sol(N, u)
  <2>1. 0 \in Good
    <3> DEFINE u == [n \in 0..0 |-> rws]
    <3>1. Sol(0, u)
      BY DEF UndoStep
    <3>2. \A j \in 0..0 : j = 0
      OBVIOUS
    <3> QED
      BY <3>1, <3>2
  <2>2. PICK m \in Good : \A j \in Good : j <= m
    <3>1. Good \subseteq 0..N
      OBVIOUS
    <3> HIDE DEF Good
    <3> QED
      BY <2>1, <3>1, GreatestElement
  <2>3. PICK v : Sol(m, v)
    OBVIOUS
  <2>4. CASE m # N
    <3>1. m \in Nat /\ m + 1 \in 0..N /\ ~(m + 1 <= m) /\ (m + 1) - 1 = m
      BY <2>4
    <3> DEFINE u == [n \in 0..m + 1 |-> IF n = m + 1 THEN UndoStep(rws, owns, ops, v, n) ELSE v[n]]
    <3>2. \A n \in 0..m : v[n] = UndoStep(rws, owns, ops, v, n)
      BY <2>3
    <3>3. \A n \in 0..m + 1 : UndoStep(rws, owns, ops, u, n) = UndoStep(rws, owns, ops, v, n)
      BY <3>1 DEF UndoStep
    <3>4. Sol(m + 1, u)
      BY <3>1, <3>2, <3>3
    <3>5. \A j \in 0..m + 1 : j \in 0..m \/ j = m + 1
      BY <3>1
    <3>6. m + 1 \in Good
      BY <3>1, <3>4, <3>5
    <3> QED
      BY <2>2, <3>1, <3>6
  <2> QED
    BY <2>3, <2>4
<1>2. UndoOneByOne(rws, owns, ops) = (CHOOSE u : Sol(N, u))[N]
    BY DEF UndoOneByOne, UndoStep
<1> DEFINE u == CHOOSE u : Sol(N, u)
<1>3. Sol(N, u)
    BY <1>1
<1>4. \A n \in 0..N : u[n] = UndoStep(rws, owns, ops, u, n)
    BY <1>3
<1> HIDE DEF u
<1>5. u[0] = rws /\ \A n \in 1..N : u[n] = undo_write_op(u[n - 1], owns, ops[Len(ops) - n + 1])
    BY <1>4 DEF UndoStep
<1> QED
    BY <1>2, <1>5 DEF u

(* Op by op, newest first, comes to the same as all at once. *)
LEMMA UndoComesTo ==
    ASSUME NEW n, NEW rws, RowTable(rws, n), NEW owns, NEW q \in Seq(WriteOp),
           \A i \in DOMAIN q : q[i].prev \notin owns
    PROVE  undo_all(rws, owns, q) = UndoOneByOne(rws, owns, q)
<1> DEFINE N == Len(q)
<1>1. N \in Nat
    BY LenProperties
<1>2. PICK u : /\ u[0] = rws
               /\ \A m \in 1..N : u[m] = undo_write_op(u[m - 1], owns, q[N - m + 1])
               /\ UndoOneByOne(rws, owns, q) = u[N]
    BY <1>1, UndoRun
<1> DEFINE P(m) == UndoneAfter(rws, owns, q, N - m, u[m]) /\ u[m] = [r \in DOMAIN u[m] |-> u[m][r]]
           Good == {m \in 0..N : P(m)}
<1>3. P(0)
  <2>1. N - 0 = N /\ N + 1..N = {}
    BY <1>1
  <2>2. rws = [r \in DOMAIN rws |-> rws[r]]
    BY DEF RowTable
  <2> HIDE DEF N
  <2>3. UndoneAfter(rws, owns, q, N, rws)
    BY <2>1 DEF UndoneAfter, N
  <2> QED
    BY <1>2, <2>1, <2>2, <2>3
<1>4. ASSUME NEW m \in 0..N, P(m), m # N PROVE P(m + 1)
  <2> DEFINE k == N - m
  <2>1. /\ m + 1 \in 1..N /\ (m + 1) - 1 = m /\ N - (m + 1) + 1 = k
        /\ N - (m + 1) = k - 1 /\ k \in 1..N
    BY <1>1, <1>4
  <2> HIDE DEF k
  <2>2. u[m + 1] = undo_write_op(u[m], owns, q[k])
    BY <1>2, <2>1
  <2>3. UndoneAfter(rws, owns, q, k, u[m])
    BY <1>4 DEF k
  <2> HIDE DEF N
  <2>4. UndoneAfter(rws, owns, q, k - 1, undo_write_op(u[m], owns, q[k]))
    BY <2>1, <2>3, UndoneNext DEF N
  <2>5. undo_write_op(u[m], owns, q[k]) =
            [r \in DOMAIN undo_write_op(u[m], owns, q[k]) |-> undo_write_op(u[m], owns, q[k])[r]]
    BY OneUndone
  <2> QED
    BY <2>1, <2>2, <2>4, <2>5
<1>5. P(N)
  <2> HIDE DEF P
  <2>1. 0 \in Good /\ Good \subseteq 0..N
    BY <1>1, <1>3
  <2> HIDE DEF N
  <2>2. PICK m \in Good : \A j \in Good : j <= m
    <3> HIDE DEF Good
    <3> QED
      BY <1>1, <2>1, GreatestElement
  <2>3. m = N
    <3> SUFFICES ASSUME m # N PROVE FALSE
      OBVIOUS
    <3>1. m \in 0..N /\ P(m)
      OBVIOUS
    <3>2. P(m + 1)
      BY <1>4, <3>1
    <3>3. m + 1 \in 0..N /\ ~(m + 1 <= m)
      BY <1>1, <3>1
    <3> QED
      BY <2>2, <3>2, <3>3
  <2> QED
    BY <2>3
<1>6. N - N = 0
    BY <1>1
<1>7. UndoneAfter(rws, owns, q, 0, u[N]) /\ u[N] = [r \in DOMAIN u[N] |-> u[N][r]]
  <2> HIDE DEF N
  <2> QED
    BY <1>5, <1>6
<1> HIDE DEF N, P, Good
<1>8. u[N] = undo_all(rws, owns, q)
    BY <1>7, UndoneAll
<1> QED
    BY <1>2, <1>8

(* What makes it so: the xmax an op has overwritten is older than the op,   *)
(* and none of the transaction's own.                                       *)
Older(rws, n) == \A r \in DOMAIN rws : rws[r].xmax < n

Foreign(t, n) ==
    \A i \in DOMAIN t.writes : t.writes[i].prev < n /\ t.writes[i].prev \notin all_xids(t)

OInv ==
    /\ Older(rows, next_xid) /\ Older(disk.rows, disk.next_xid)
    /\ \A s \in Session : Foreign(txn[s], next_xid)

LEMMA InitOInv ==
    ASSUME Init
    PROVE  OInv
<1>1. PICK f \in Loads : rows = [i \in DOMAIN f |-> [key |-> f[i], xmin |-> 1, xmax |-> 0]]
    BY DEF Init
<1>2. \A r \in DOMAIN rows : rows[r].xmax = 0
    BY <1>1
<1>3. /\ next_xid = 2 /\ disk.rows = rows /\ disk.next_xid = 2
      /\ txn = [s \in Session |-> NoTxn]
    BY DEF Init
<1>4. NoTxn.writes = <<>>
    BY DEF NoTxn, NewTxn
<1> QED
    BY <1>2, <1>3, <1>4 DEF OInv, Older, Foreign

(* A log that gets no new op, of a transaction that may get the fresh xid.  *)
LEMMA ForeignKept ==
    ASSUME NEW t, NEW n \in Nat, Foreign(t, n), NEW m \in Nat, n <= m, NEW u,
           \A i \in DOMAIN u.writes : \E j \in DOMAIN t.writes : u.writes[i] = t.writes[j],
           \A i \in DOMAIN t.writes : t.writes[i].prev \in Nat,
           \A x \in all_xids(u) : x \in all_xids(t) \/ x = n
    PROVE  Foreign(u, m)
<1> SUFFICES ASSUME NEW i \in DOMAIN u.writes
             PROVE  u.writes[i].prev < m /\ u.writes[i].prev \notin all_xids(u)
    BY DEF Foreign
<1>1. PICK j \in DOMAIN t.writes : u.writes[i] = t.writes[j]
    OBVIOUS
<1>2. t.writes[j].prev < n /\ t.writes[j].prev \notin all_xids(t) /\ t.writes[j].prev \in Nat
    BY DEF Foreign
<1>3. t.writes[j].prev < m /\ t.writes[j].prev # n
    BY <1>2
<1> QED
    BY <1>1, <1>2, <1>3

(* The ops of a log are write ops. *)
LEMMA LogTyped ==
    ASSUME IInv, NEW s \in Session
    PROVE  /\ txn[s] \in Txn /\ txn[s].writes \in Seq(WriteOp)
           /\ \A i \in DOMAIN txn[s].writes : txn[s].writes[i] \in WriteOp /\ txn[s].writes[i].prev \in Nat
<1>1. txn[s] \in Txn
    BY DEF IInv, FieldTypes
<1>2. txn[s].writes \in Seq(WriteOp)
    BY <1>1 DEF Txn
<1>3. \A i \in DOMAIN txn[s].writes : txn[s].writes[i] \in WriteOp
    BY <1>2, ElementOfSeq, LenProperties
<1> QED
    BY <1>1, <1>2, <1>3 DEF WriteOp

(* A step that logs no op keeps the logs as they are, or cuts them.         *)
Kept(t, u) ==
    /\ \A i \in DOMAIN u.writes : \E j \in DOMAIN t.writes : u.writes[i] = t.writes[j]
    /\ \A x \in all_xids(u) : x \in all_xids(t) \/ x = next_xid

LEMMA LogsKept ==
    ASSUME IInv, OInv, next_xid' \in Nat, next_xid <= next_xid',
           \A s \in Session : txn'[s] = txn[s] \/ txn'[s].writes = <<>> \/ Kept(txn[s], txn'[s])
    PROVE  \A s \in Session : Foreign(txn'[s], next_xid')
<1> SUFFICES ASSUME NEW s \in Session PROVE Foreign(txn'[s], next_xid')
    OBVIOUS
<1>1. next_xid \in Nat /\ Foreign(txn[s], next_xid)
    BY DEF IInv, FieldTypes, OInv
<1>2. \A i \in DOMAIN txn[s].writes : txn[s].writes[i].prev \in Nat
    BY LogTyped
<1>3. CASE txn'[s].writes = <<>>
    BY <1>3 DEF Foreign
<1>4. CASE txn'[s] = txn[s] \/ Kept(txn[s], txn'[s])
  <2> DEFINE t == txn[s]
             u == txn'[s]
             m == next_xid'
  <2>1. /\ \A i \in DOMAIN u.writes : \E j \in DOMAIN t.writes : u.writes[i] = t.writes[j]
        /\ \A x \in all_xids(u) : x \in all_xids(t) \/ x = next_xid
    BY <1>4 DEF Kept
  <2>2. m \in Nat /\ next_xid <= m
    OBVIOUS
  <2> HIDE DEF t, u, m
  <2>3. Foreign(u, m)
    BY <1>1, <1>2, <2>1, <2>2, ForeignKept DEF t
  <2> QED
    BY <2>3 DEF u, m
<1> QED
    BY <1>3, <1>4

(* Versions with an older xmax stay so. *)
LEMMA OlderLater ==
    ASSUME NEW rws, NEW n \in Nat, NEW m \in Nat, n <= m, Older(rws, n),
           \A r \in DOMAIN rws : rws[r] \in RowVersion
    PROVE  Older(rws, m)
    BY DEF Older, RowVersion

LEMMA OlderVacuumed ==
    ASSUME NEW rws, NEW n, Older(rws, n), NEW act, NEW snaps, NEW z, Vacuumed(rws, act, snaps, z)
    PROVE  Older(z, n)
    BY DEF Older, Vacuumed

LEMMA OlderWrote ==
    ASSUME NEW rws, NEW n \in Nat, Older(rws, n), NEW w, NEW k, NEW x, x < n, 0 < n,
           NEW z, Wrote(rws, w, k, x, z)
    PROVE  Older(z, n)
    BY DEF Older, Wrote

LEMMA OlderUndone ==
    ASSUME NEW l \in Nat, NEW rws, RowTable(rws, l), NEW n, Older(rws, n), NEW owns,
           NEW ops \in Seq(WriteOp), \A i \in DOMAIN ops : ops[i].prev < n
    PROVE  Older(undo_all(rws, owns, ops), n)
<1> DEFINE gone == {r \in DOMAIN rws : /\ rws[r].xmin \in owns
                                       /\ \E i \in DOMAIN ops : ops[i].new = r}
           val(r) == IF rws[r].xmax \in owns /\ \E i \in DOMAIN ops : ops[i].old = r
                     THEN [rws[r] EXCEPT !.xmax = ops[NewestStamp(ops, r)].prev]
                     ELSE rws[r]
<1>1. undo_all(rws, owns, ops) = [r \in DOMAIN rws \ gone |-> val(r)]
    BY DEF undo_all
<1>2. ASSUME NEW r \in DOMAIN rws PROVE val(r).xmax < n
  <2>1. rws[r] \in RowVersion /\ rws[r].xmax < n
    BY DEF RowTable, Older
  <2>2. CASE rws[r].xmax \in owns /\ \E i \in DOMAIN ops : ops[i].old = r
    <3>1. ops[NewestStamp(ops, r)].prev < n
      BY <2>2, NewestStampExists
    <3> QED
      BY <2>1, <2>2, <3>1 DEF RowVersion
  <2>3. CASE ~(rws[r].xmax \in owns /\ \E i \in DOMAIN ops : ops[i].old = r)
    BY <2>1, <2>3
  <2> QED
    BY <2>2, <2>3
<1> HIDE DEF gone, val
<1> QED
    BY <1>1, <1>2 DEF Older

LEMMA OlderReplayed ==
    ASSUME NEW d, DiskImage(d), Older(d.rows, d.next_xid),
           NEW rws, NEW writes, NEW own \in Nat,
           NEW e, Replayed(d, rws, writes, own, e), e.next_xid \in Nat
    PROVE  Older(e.rows, e.next_xid)
<1>1. d.next_xid \in Nat \ {0} /\ \A r \in DOMAIN d.rows : d.rows[r] \in RowVersion
    BY DEF DiskImage, RowTable
<1> DEFINE logged == records_for_commit(rws, writes, own)
<1> HIDE DEF logged
<1>2. /\ \A r \in DOMAIN e.rows :
        e.rows[r].xmax =
            IF \E i \in logged : Replayable(d, writes, logged, i) /\ writes[i].old = r THEN own
            ELSE IF r \in DOMAIN d.rows THEN d.rows[r].xmax ELSE 0
      /\ d.next_xid <= e.next_xid
      /\ logged # {} => own < e.next_xid
    BY DEF Replayed, logged
<1>3. ASSUME NEW r \in DOMAIN e.rows PROVE e.rows[r].xmax < e.next_xid
  <2>1. CASE \E i \in logged : Replayable(d, writes, logged, i) /\ writes[i].old = r
    BY <1>2, <2>1
  <2>2. CASE ~\E i \in logged : Replayable(d, writes, logged, i) /\ writes[i].old = r
    BY <1>1, <1>2, <2>2 DEF Older, RowVersion
  <2> QED
    BY <2>1, <2>2
<1> QED
    BY <1>3 DEF Older

(* A step that writes no version. *)
LEMMA NoWriteOInv ==
    ASSUME IInv, OInv, UNCHANGED <<rows, disk>>, next_xid' \in {next_xid, next_xid + 1},
           \A s \in Session : txn'[s] = txn[s] \/ txn'[s].writes = <<>> \/ Kept(txn[s], txn'[s])
    PROVE  OInv'
<1>1. /\ next_xid \in Nat /\ next_xid' \in Nat /\ next_xid <= next_xid'
      /\ \A r \in DOMAIN rows : rows[r] \in RowVersion
    BY Shapes
<1>2. Older(rows, next_xid) /\ Older(disk.rows, disk.next_xid)
    BY DEF OInv
<1>3. Older(rows', next_xid')
    BY <1>1, <1>2, OlderLater
<1>4. \A s \in Session : Foreign(txn'[s], next_xid')
    BY <1>1, LogsKept
<1> QED
    BY <1>2, <1>3, <1>4 DEF OInv

(* BEGIN, reads, errors, FOR UPDATE, SAVEPOINT, RELEASE. *)
LEMMA ScopeOInv ==
    ASSUME IInv, OInv, NEW s \in Session, NEW level, NEW r, NEW idx,
           \/ txn_begin(s, level) \/ exec_select(s) \/ StmtError(s) \/ acquire_row_locks(s, r)
           \/ txn_savepoint(s) \/ txn_release(s, idx)
    PROVE  OInv'
<1>1. /\ txn \in [Session -> Txn] /\ txn[s] \in Txn /\ FieldTypes
      /\ Pinned(txn[s]) \in Txn /\ Pinned(txn[s]).xid = txn[s].xid
      /\ Pinned(txn[s]).owned_xids = txn[s].owned_xids
      /\ Pinned(txn[s]).writes = txn[s].writes
  <2>1. FieldTypes /\ txn \in [Session -> Txn]
    BY Shapes
  <2> QED
    BY <2>1, PinnedType, PinnedFields
<1>2. UNCHANGED <<rows, disk>> /\ next_xid' \in {next_xid, next_xid + 1}
    BY DEF txn_begin, exec_select, StmtError, acquire_row_locks, txn_savepoint, txn_release, engine
<1>3. PICK u : /\ txn' = [txn EXCEPT ![s] = u]
               /\ \/ u.writes = <<>>
                  \/ /\ u.writes = txn[s].writes /\ u.xid = txn[s].xid
                     /\ \A x \in u.owned_xids : x \in txn[s].owned_xids \/ x = next_xid
  <2>1. CASE txn_begin(s, level)
    <3>1. txn' = [txn EXCEPT ![s] = NewTxn(next_xid, level)]
      BY <2>1 DEF txn_begin
    <3>2. NewTxn(next_xid, level).writes = <<>>
      BY DEF NewTxn
    <3> QED
      BY <3>1, <3>2
  <2>2. CASE exec_select(s) \/ acquire_row_locks(s, r)
    <3>1. txn' = [txn EXCEPT ![s] = Pinned(txn[s])]
      BY <2>2 DEF exec_select, acquire_row_locks
    <3> QED
      BY <1>1, <3>1
  <2>3. CASE StmtError(s)
    <3> DEFINE p == Pinned(txn[s])
               f == [p EXCEPT !.failed = TRUE]
    <3>1. txn' = [txn EXCEPT ![s] = f]
      BY <2>3 DEF StmtError
    <3> HIDE DEF p
    <3>2. f.writes = p.writes /\ f.xid = p.xid /\ f.owned_xids = p.owned_xids
      BY <1>1 DEF Txn, p
    <3> HIDE DEF f
    <3> QED
      BY <1>1, <3>1, <3>2 DEF p
  <2>4. CASE txn_savepoint(s)
    <3> DEFINE t == txn[s]
               u == [t EXCEPT
                 !.savepoints = Append(@, [writes_len |-> Len(t.writes),
                                           lock_count |-> Len(Locks(t.xid))]),
                 !.sub_xids = Append(@, next_xid),
                 !.owned_xids = @ \cup {next_xid}]
    <3>1. txn' = [txn EXCEPT ![s] = u]
      BY <2>4 DEF txn_savepoint
    <3> HIDE DEF t
    <3>2. u.writes = t.writes /\ u.xid = t.xid /\ u.owned_xids = t.owned_xids \cup {next_xid}
      BY <1>1 DEF Txn, t
    <3> HIDE DEF u
    <3> QED
      BY <3>1, <3>2 DEF t
  <2>5. CASE txn_release(s, idx)
    <3> DEFINE t == txn[s]
               u == [t EXCEPT !.savepoints = Truncate(t.savepoints, idx - 1),
                              !.sub_xids = Truncate(t.sub_xids, idx - 1)]
    <3>1. txn' = [txn EXCEPT ![s] = u]
      BY <1>1, <2>5 DEF txn_release, Txn
    <3> HIDE DEF t
    <3>2. u.writes = t.writes /\ u.xid = t.xid /\ u.owned_xids = t.owned_xids
      BY <1>1 DEF Txn, t
    <3> HIDE DEF u
    <3> QED
      BY <3>1, <3>2 DEF t
  <2> QED
    BY <2>1, <2>2, <2>3, <2>4, <2>5
<1>4. txn'[s] = u /\ \A v \in Session : v # s => txn'[v] = txn[v]
    BY <1>1, <1>3
<1>5. u.writes = <<>> \/ Kept(txn[s], u)
    BY <1>3 DEF Kept, all_xids
<1> QED
    BY <1>2, <1>4, <1>5, NoWriteOInv

(* INSERT, UPDATE and DELETE in a block: the version they stamp is visible, *)
(* so no xid of the block has stamped it.                                   *)
LEMMA WriteOInv ==
    ASSUME IInv, AInv, OInv, NEW s \in Session, Open(s), NEW k,
           NEW w \in WriteOp, w.new \in {0, next_row_id}, Write(s, w, k),
           w.prev < next_xid, w.prev \notin all_xids(txn[s])
    PROVE  OInv'
<1> DEFINE t == txn[s]
           p == Pinned(t)
           u == [p EXCEPT !.writes = Append(@, w)]
           x == write_xid(t)
<1>1. /\ FieldTypes /\ txn \in [Session -> Txn] /\ t \in Txn /\ Undoable(t, rows, aborted)
      /\ RowTable(rows, next_row_id) /\ next_row_id \in Nat /\ next_xid \in Nat /\ 0 < next_xid
      /\ p \in Txn /\ p.xid = t.xid /\ p.owned_xids = t.owned_xids /\ p.writes = t.writes
      /\ t.writes \in Seq(WriteOp) /\ t.xid # 0
    BY Shapes, PinnedType, PinnedFields, LogTyped DEF AInv, Open
<1>2. /\ txn' = [txn EXCEPT ![s] = u] /\ rows' = Apply(rows, w, k, x)
      /\ UNCHANGED <<next_xid, disk>>
    BY DEF Write
<1> HIDE DEF p
<1>3. u.xid = t.xid /\ u.owned_xids = t.owned_xids /\ u.writes = Append(t.writes, w)
    BY <1>1 DEF Txn
<1> HIDE DEF u
<1>4. x \in all_xids(t)
    BY <1>1, WriteXid
<1>5. x < next_xid
    BY <1>1, <1>4, OpenXids
<1> HIDE DEF x, t
<1>6. Older(rows', next_xid)
    BY <1>1, <1>2, <1>5, ApplyWrites, OlderWrote DEF OInv
<1>7. Foreign(t, next_xid)
    BY DEF OInv, t
<1>8. all_xids(u) = all_xids(t)
    BY <1>3 DEF all_xids
<1>9. Foreign(u, next_xid)
  <2>1. /\ Len(t.writes) \in Nat /\ DOMAIN t.writes = 1..Len(t.writes)
        /\ DOMAIN u.writes = 1..Len(t.writes) + 1
        /\ u.writes[Len(t.writes) + 1] = w
        /\ \A i \in 1..Len(t.writes) : u.writes[i] = t.writes[i]
    BY <1>1, <1>3, AppendDomain, LenProperties
  <2>2. w.prev \notin all_xids(t)
    BY DEF t
  <2> SUFFICES ASSUME NEW i \in DOMAIN u.writes
               PROVE  u.writes[i].prev < next_xid /\ u.writes[i].prev \notin all_xids(u)
    BY DEF Foreign
  <2>3. i = Len(t.writes) + 1 \/ i \in 1..Len(t.writes)
    BY <2>1
  <2> QED
    BY <1>7, <1>8, <2>1, <2>2, <2>3 DEF Foreign
<1>10. \A v \in Session : Foreign(txn'[v], next_xid)
  <2>1. txn'[s] = u /\ \A v \in Session : v # s => txn'[v] = txn[v]
    BY <1>1, <1>2
  <2> QED
    BY <1>9, <2>1 DEF OInv
<1> QED
    BY <1>2, <1>6, <1>10 DEF OInv

LEMMA DmlOInv ==
    ASSUME IInv, AInv, OInv, NEW s \in Session, NEW k, NEW r,
           \/ exec_insert(s, k)
           \/ r \in DOMAIN rows /\ (exec_delete(s, r) \/ exec_update(s, r, k))
    PROVE  OInv'
<1>1. FieldTypes /\ Open(s) /\ 0 < next_xid
    BY Shapes DEF exec_insert, exec_delete, exec_update, Running
<1>2. 0 \notin all_xids(txn[s])
  <2>1. \A x \in active : x # 0
    BY <1>1 DEF FieldTypes
  <2> QED
    BY <1>1, <2>1, OpenXids DEF Open
<1>3. CASE exec_insert(s, k)
  <2>1. InsertRow(next_row_id).prev = 0
    BY DEF InsertRow
  <2> QED
    BY <1>1, <1>2, <1>3, <2>1, OpTypes, WriteOInv DEF exec_insert
<1>4. ASSUME r \in DOMAIN rows, Writable(txn[s], r)
      PROVE  rows[r].xmax < next_xid /\ rows[r].xmax \notin all_xids(txn[s])
  <2>1. row_visible(rows[r], stmt_snapshot(txn[s]), all_xids(txn[s]))
    BY <1>4 DEF Writable, Visible
  <2> QED
    BY <1>2, <1>4, <2>1 DEF row_visible, OInv, Older
<1>5. CASE r \in DOMAIN rows /\ exec_delete(s, r)
  <2>1. DeleteRow(r).prev = rows[r].xmax
    BY DEF DeleteRow
  <2>2. Writable(txn[s], r) /\ Write(s, DeleteRow(r), rows[r].key)
    BY <1>5 DEF exec_delete, DeleteAllowed
  <2> QED
    BY <1>1, <1>4, <1>5, <2>1, <2>2, OpTypes, WriteOInv
<1>6. CASE r \in DOMAIN rows /\ exec_update(s, r, k)
  <2>1. UpdateRow(r, next_row_id).prev = rows[r].xmax
    BY DEF UpdateRow
  <2>2. Writable(txn[s], r) /\ Write(s, UpdateRow(r, next_row_id), k)
    BY <1>6 DEF exec_update, UpdateAllowed
  <2> QED
    BY <1>1, <1>4, <1>6, <2>1, <2>2, OpTypes, WriteOInv
<1> QED
    BY <1>3, <1>5, <1>6

(* The ops of a log that undo is given are older than the counter.          *)
LEMMA RollbackToOInv ==
    ASSUME IInv, OInv, NEW s \in Session, NEW idx, txn_rollback_to(s, idx)
    PROVE  OInv'
<1> DEFINE t == txn[s]
           n == t.savepoints[idx].writes_len
           ops == UndoneOps(t, idx)
           u == [t EXCEPT !.writes = Truncate(t.writes, n),
                          !.savepoints = Truncate(t.savepoints, idx),
                          !.sub_xids = Restarted(t.sub_xids, idx, next_xid),
                          !.owned_xids = t.owned_xids \cup {next_xid},
                          !.failed = FALSE]
<1>1. /\ FieldTypes /\ t \in Txn /\ t.writes \in Seq(WriteOp) /\ txn \in [Session -> Txn]
      /\ next_xid \in Nat /\ RowTable(rows, next_row_id) /\ next_row_id \in Nat
      /\ Open(s) /\ idx \in DOMAIN t.savepoints
    BY Shapes, LogTyped DEF txn_rollback_to
<1>2. /\ txn' = [txn EXCEPT ![s] = u] /\ next_xid' = next_xid + 1 /\ UNCHANGED disk
      /\ rows' = undo_all(rows, all_xids(t), ops)
    BY DEF txn_rollback_to, Restarted
<1>3. n \in 0..Len(t.writes) /\ n \in Nat
  <2>1. MarksOK(t)
    BY <1>1 DEF IInv, SavepointMarks
  <2>2. t.savepoints \in Seq(SavepointMark)
    BY <1>1 DEF Txn
  <2>3. t.savepoints[idx] \in SavepointMark
    BY <1>1, <2>2, ElementOfSeq, LenProperties
  <2>4. Len(t.writes) \in Nat
    BY <1>1, LenProperties
  <2> QED
    BY <1>1, <2>1, <2>3, <2>4 DEF MarksOK, SavepointMark
<1>4. ops \in Seq(WriteOp)
    BY <1>1, <1>3, SuffixSeq DEF UndoneOps
<1>5. \A w : (\E j \in DOMAIN ops : ops[j] = w) <=> (\E i \in n + 1 .. Len(t.writes) : t.writes[i] = w)
    BY <1>1, <1>3, SuffixOps DEF UndoneOps
<1>6. /\ u.xid = t.xid /\ u.writes = Truncate(t.writes, n)
      /\ u.owned_xids = t.owned_xids \cup {next_xid}
  <2> HIDE DEF n, t
  <2> QED
    BY <1>1 DEF Txn
<1> HIDE DEF ops, u, n
<1>7. DOMAIN t.writes = 1..Len(t.writes) /\ Len(t.writes) \in Nat
    BY <1>1, LenProperties
<1>8. \A j \in DOMAIN ops : ops[j].prev < next_xid
  <2>1. \A i \in DOMAIN t.writes : t.writes[i].prev < next_xid
    BY DEF OInv, Foreign
  <2>2. \A i \in n + 1..Len(t.writes) : i \in DOMAIN t.writes
    BY <1>3, <1>7
  <2> HIDE DEF t
  <2> QED
    BY <1>5, <2>1, <2>2
<1> HIDE DEF t
<1>9. Older(rows', next_xid)
    BY <1>1, <1>2, <1>4, <1>8, OlderUndone DEF OInv
<1>10. Older(rows', next_xid')
  <2>1. RowTable(rows', next_row_id)
    BY <1>1, <1>2, <1>4, UndoAllType
  <2>2. \A r \in DOMAIN rows' : rows'[r] \in RowVersion
    BY <2>1 DEF RowTable
  <2>3. next_xid' \in Nat /\ next_xid <= next_xid'
    BY <1>1, <1>2
  <2> QED
    BY <1>1, <1>9, <2>2, <2>3, OlderLater
<1>11. Kept(txn[s], u)
  <2>1. DOMAIN u.writes = 1..n /\ \A i \in 1..n : u.writes[i] = t.writes[i]
    BY <1>1, <1>3, <1>6, TruncateDomain
  <2>2. \A i \in 1..n : i \in DOMAIN t.writes
    BY <1>3, <1>7
  <2> QED
    BY <1>6, <2>1, <2>2 DEF Kept, all_xids, t
<1>12. \A v \in Session : Foreign(txn'[v], next_xid')
  <2>1. txn'[s] = u /\ \A v \in Session : v # s => txn'[v] = txn[v]
    BY <1>1, <1>2
  <2>2. next_xid' \in Nat /\ next_xid <= next_xid'
    BY <1>1, <1>2
  <2> QED
    BY <1>11, <2>1, <2>2, LogsKept
<1> QED
    BY <1>2, <1>10, <1>12 DEF OInv

(* ROLLBACK and COMMIT. *)
LEMMA EndOInv ==
    ASSUME IInv, OInv, NEW s \in Session, txn_rollback(s) \/ commit_taken_txn(s)
    PROVE  OInv'
<1> DEFINE t == txn[s]
           z == undo_all(rows, all_xids(t), t.writes)
<1>1. /\ FieldTypes /\ t \in Txn /\ t.writes \in Seq(WriteOp) /\ txn \in [Session -> Txn]
      /\ next_xid \in Nat /\ RowTable(rows, next_row_id) /\ next_row_id \in Nat
      /\ DiskImage(disk) /\ t.xid \in Nat
  <2>1. t \in Txn
    BY LogTyped
  <2> QED
    BY <2>1, Shapes, LogTyped DEF Txn
<1>2. /\ txn' = [txn EXCEPT ![s] = NoTxn] /\ UNCHANGED next_xid
      /\ \/ rows' = auto_vacuum(z, t.writes, active', snapshots') /\ UNCHANGED disk
         \/ /\ rows' = auto_vacuum(rows, t.writes, active', snapshots')
            /\ disk' = apply_record(disk, rows, t.writes, t.xid)
    BY DEF txn_rollback, commit_taken_txn, retire_txn_family
<1> HIDE DEF t
<1>3. \A i \in DOMAIN t.writes : t.writes[i].prev < next_xid
    BY DEF OInv, Foreign, t
<1>4. Older(z, next_xid) /\ Older(rows, next_xid)
    BY <1>1, <1>3, OlderUndone DEF OInv
<1> HIDE DEF z
<1>5. Older(rows', next_xid)
    BY <1>2, <1>4, VacuumVacuums, OlderVacuumed
<1>6. Older(disk'.rows, disk'.next_xid)
  <2>1. CASE UNCHANGED disk
    BY <2>1 DEF OInv
  <2>2. CASE disk' = apply_record(disk, rows, t.writes, t.xid)
    <3>1. Replayed(disk, rows, t.writes, t.xid, disk')
      BY <1>1, <2>2, ReplayReplays
    <3>2. DiskImage(disk')
      BY <1>1, <2>2, ApplyRecordType
    <3>3. disk'.next_xid \in Nat
      BY <3>2 DEF DiskImage
    <3>4. Older(disk.rows, disk.next_xid)
      BY DEF OInv
    <3> QED
      BY <1>1, <3>1, <3>3, <3>4, OlderReplayed
  <2> QED
    BY <1>2, <2>1, <2>2
<1>7. \A v \in Session : Foreign(txn'[v], next_xid')
  <2>1. NoTxn.writes = <<>>
    BY DEF NoTxn, NewTxn
  <2>2. next_xid' \in Nat /\ next_xid <= next_xid'
    BY <1>1, <1>2
  <2>3. \A v \in Session : txn'[v] = txn[v] \/ txn'[v].writes = <<>>
    BY <1>1, <1>2, <2>1
  <2> QED
    BY <2>2, <2>3, LogsKept
<1> QED
    BY <1>2, <1>5, <1>6, <1>7 DEF OInv

(* Statements outside a block. *)
LEMMA AutocommitOInv ==
    ASSUME IInv, OInv, NEW k \in Key, NEW w \in WriteOp, w.new \in {0, next_row_id},
           w.prev < next_xid, NEW s, autocommit_execute(s, w, k)
    PROVE  OInv'
<1> DEFINE rws == Apply(rows, w, k, next_xid)
           n == IF w.new = 0 THEN next_row_id ELSE next_row_id + 1
           z == undo_all(rws, {next_xid}, <<w>>)
<1>1. /\ FieldTypes /\ next_xid \in Nat /\ RowTable(rows, next_row_id) /\ next_row_id \in Nat
      /\ DiskImage(disk) /\ \A r \in DOMAIN rows : rows[r] \in RowVersion
    BY Shapes
<1>2. /\ next_xid' = next_xid + 1 /\ UNCHANGED txn
      /\ \/ /\ rows' = auto_vacuum(rws, <<w>>, active, snapshots)
            /\ disk' = apply_record(disk, rws, <<w>>, next_xid)
         \/ rows' = auto_vacuum(z, <<w>>, active, snapshots) /\ UNCHANGED disk
    BY DEF autocommit_execute
<1>3. RowTable(rws, n) /\ n \in Nat
    BY <1>1, ApplyType
<1>4. /\ next_xid + 1 \in Nat /\ next_xid <= next_xid + 1 /\ next_xid < next_xid + 1
      /\ 0 < next_xid + 1
    BY <1>1
<1>5. Wrote(rows, w, k, next_xid, rws)
    BY <1>1, ApplyWrites
<1> HIDE DEF rws, n
<1>6. Older(rws, next_xid + 1)
  <2> DEFINE m == next_xid + 1
  <2>1. m \in Nat /\ next_xid <= m /\ next_xid < m /\ 0 < m
    BY <1>4
  <2> HIDE DEF m
  <2>2. Older(rows, m)
    BY <1>1, <2>1, OlderLater DEF OInv
  <2>3. Older(rws, m)
    BY <1>5, <2>1, <2>2, OlderWrote
  <2> QED
    BY <2>3 DEF m
<1>7. Older(z, next_xid + 1)
  <2>1. <<w>> \in Seq(WriteOp) /\ \A i \in DOMAIN <<w>> : <<w>>[i] = w
    OBVIOUS
  <2>2. w.prev < next_xid + 1
    BY <1>1 DEF WriteOp
  <2>3. \A i \in DOMAIN <<w>> : <<w>>[i].prev < next_xid + 1
    BY <2>1, <2>2
  <2> QED
    BY <1>3, <1>6, <2>1, <2>3, OlderUndone
<1> HIDE DEF z
<1>8. Older(rows', next_xid')
    BY <1>2, <1>6, <1>7, VacuumVacuums, OlderVacuumed
<1>9. Older(disk'.rows, disk'.next_xid)
  <2>1. CASE UNCHANGED disk
    BY <2>1 DEF OInv
  <2>2. CASE disk' = apply_record(disk, rws, <<w>>, next_xid)
    <3>1. Replayed(disk, rws, <<w>>, next_xid, disk')
      BY <1>1, <2>2, ReplayReplays
    <3>2. <<w>> \in Seq(WriteOp)
      OBVIOUS
    <3>3. DiskImage(disk')
      BY <1>1, <1>3, <2>2, <3>2, ApplyRecordType
    <3>4. disk'.next_xid \in Nat
      BY <3>3 DEF DiskImage
    <3>5. Older(disk.rows, disk.next_xid)
      BY DEF OInv
    <3> QED
      BY <1>1, <3>1, <3>4, <3>5, OlderReplayed
  <2> QED
    BY <1>2, <2>1, <2>2
<1>10. \A v \in Session : Foreign(txn'[v], next_xid')
  <2>1. next_xid' \in Nat /\ next_xid <= next_xid'
    BY <1>1, <1>2
  <2> QED
    BY <1>2, <2>1, LogsKept
<1> QED
    BY <1>8, <1>9, <1>10 DEF OInv

LEMMA AutoOInv ==
    ASSUME IInv, OInv, NEW s \in Session, NEW k \in Key, NEW r,
           \/ auto_insert(s, k)
           \/ r \in DOMAIN rows /\ (auto_delete(s, r) \/ auto_update(s, r, k))
    PROVE  OInv'
<1>1. FieldTypes /\ next_xid \in Nat /\ 0 < next_xid
    BY Shapes
<1>2. /\ InsertRow(next_row_id).prev = 0
      /\ \A q \in DOMAIN rows : /\ DeleteRow(q).prev = rows[q].xmax
                                /\ UpdateRow(q, next_row_id).prev = rows[q].xmax
                                /\ rows[q].xmax < next_xid
    BY DEF InsertRow, DeleteRow, UpdateRow, OInv, Older
<1>3. CASE auto_insert(s, k)
    BY <1>1, <1>2, <1>3, OpTypes, AutocommitOInv DEF auto_insert
<1>4. CASE r \in DOMAIN rows /\ auto_delete(s, r)
    BY <1>1, <1>2, <1>4, OpTypes, AutocommitOInv DEF auto_delete
<1>5. CASE r \in DOMAIN rows /\ auto_update(s, r, k)
    BY <1>1, <1>2, <1>5, OpTypes, AutocommitOInv DEF auto_update
<1> QED
    BY <1>3, <1>4, <1>5

(* VACUUM, CHECKPOINT and a restart. *)
LEMMA MaintenanceOInv ==
    ASSUME IInv, OInv, (\E s \in Session : txn_vacuum(s) \/ txn_checkpoint(s)) \/ Restart
    PROVE  OInv'
<1>1. CASE \E s \in Session : txn_vacuum(s)
  <2>1. UNCHANGED <<disk, txn, next_xid>> /\ rows' = vacuum_table(rows, active, snapshots)
    BY <1>1 DEF txn_vacuum
  <2>2. Older(rows', next_xid)
    BY <2>1, VacuumVacuums, OlderVacuumed DEF OInv
  <2> QED
    BY <2>1, <2>2 DEF OInv
<1>2. CASE \E s \in Session : txn_checkpoint(s)
  <2>1. UNCHANGED <<rows, txn, next_xid>> /\ disk' = CheckpointImage
    BY <1>2 DEF txn_checkpoint, engine
  <2>2. FieldTypes /\ 0 < next_xid
    BY Shapes
  <2>3. Imaged(disk')
    BY <2>1, <2>2, CheckpointImages
  <2>4. Older(disk'.rows, disk'.next_xid)
    BY <2>2, <2>3 DEF Imaged, Older, OInv, committed_xmax
  <2> QED
    BY <2>1, <2>4 DEF OInv
<1>3. CASE Restart
  <2>1. /\ rows' = disk.rows /\ next_xid' = disk.next_xid /\ disk' = disk
        /\ txn' = [s \in Session |-> NoTxn]
    BY <1>3 DEF Restart
  <2>2. NoTxn.writes = <<>>
    BY DEF NoTxn, NewTxn
  <2> QED
    BY <2>1, <2>2 DEF OInv, Foreign
<1> QED
    BY <1>1, <1>2, <1>3

LEMMA NextOInv ==
    ASSUME IInv, AInv, OInv, [Next]_vars
    PROVE  OInv'
<1>1. CASE UNCHANGED vars
    BY <1>1 DEF OInv, vars, engine
<1>2. ASSUME NEW s \in Session, NEW level, NEW r, NEW idx,
             \/ txn_begin(s, level) \/ exec_select(s) \/ StmtError(s) \/ CommitFails(s)
             \/ acquire_row_locks(s, r) \/ txn_savepoint(s) \/ txn_release(s, idx)
      PROVE  OInv'
    BY <1>2, ScopeOInv DEF CommitFails
<1>3. ASSUME NEW s \in Session, NEW r \in DOMAIN rows, exec_delete(s, r) \/ auto_delete(s, r)
      PROVE  OInv'
  <2>1. rows[r].key \in Key
    BY OpTypes DEF IInv
  <2> QED
    BY <1>3, <2>1, DmlOInv, AutoOInv
<1>4. ASSUME NEW s \in Session, NEW k \in Key, exec_insert(s, k) \/ auto_insert(s, k)
      PROVE  OInv'
    BY <1>4, DmlOInv, AutoOInv
<1>5. ASSUME NEW s \in Session, NEW r \in DOMAIN rows, NEW k \in Key,
             exec_update(s, r, k) \/ auto_update(s, r, k)
      PROVE  OInv'
    BY <1>5, DmlOInv, AutoOInv
<1>6. ASSUME NEW s \in Session, NEW idx, txn_rollback_to(s, idx) PROVE OInv'
    BY <1>6, RollbackToOInv
<1>7. ASSUME NEW s \in Session, txn_rollback(s) \/ commit_taken_txn(s) PROVE OInv'
    BY <1>7, EndOInv
<1>8. ASSUME NEW s \in Session, auto_error(s) PROVE OInv'
  <2>1. UNCHANGED <<rows, disk, txn>> /\ next_xid' \in {next_xid, next_xid + 1}
    BY <1>8 DEF auto_error
  <2> QED
    BY <2>1, NoWriteOInv
<1>9. CASE (\E s \in Session : txn_vacuum(s) \/ txn_checkpoint(s)) \/ Restart
    BY <1>9, MaintenanceOInv
<1> QED
    BY <1>1, <1>2, <1>3, <1>4, <1>5, <1>6, <1>7, <1>8, <1>9 DEF Next

(* ROLLBACK and ROLLBACK TO may undo a write log in one go or op by op,     *)
(* newest first, as undo_write_op does: the outcome is the same, whatever   *)
(* other sessions have stamped, vacuumed or restored in between, because no *)
(* op has overwritten an xmax of its own transaction.                       *)
THEOREM UndoIsOpByOp == Spec => []UndoAgrees
<1>1. Init => OInv
    BY InitOInv
<1>2. IInv /\ AInv /\ OInv /\ [Next]_vars => OInv'
    BY NextOInv
<1>3. IInv /\ OInv => UndoAgrees
  <2> SUFFICES ASSUME IInv, OInv, NEW s \in Session, NEW n \in 0..Len(txn[s].writes)
               PROVE  LET ops == SubSeq(txn[s].writes, n + 1, Len(txn[s].writes))
                      IN  undo_all(rows, all_xids(txn[s]), ops) =
                              UndoOneByOne(rows, all_xids(txn[s]), ops)
    BY DEF UndoAgrees
  <2> DEFINE t == txn[s]
             ops == SubSeq(t.writes, n + 1, Len(t.writes))
  <2>1. t.writes \in Seq(WriteOp) /\ RowTable(rows, next_row_id)
    BY LogTyped, Shapes
  <2>2. Len(t.writes) \in Nat /\ DOMAIN t.writes = 1..Len(t.writes) /\ n \in Nat
    BY <2>1, LenProperties
  <2>3. ops \in Seq(WriteOp)
    BY <2>1, <2>2, SuffixSeq
  <2>4. \A w : (\E j \in DOMAIN ops : ops[j] = w) <=> (\E i \in n + 1 .. Len(t.writes) : t.writes[i] = w)
    BY <2>1, <2>2, SuffixOps
  <2> HIDE DEF ops
  <2>5. \A i \in DOMAIN ops : ops[i].prev \notin all_xids(t)
    BY <2>2, <2>4 DEF OInv, Foreign
  <2> HIDE DEF t
  <2>6. undo_all(rows, all_xids(t), ops) = UndoOneByOne(rows, all_xids(t), ops)
    BY <2>1, <2>3, <2>5, UndoComesTo
  <2> QED
    BY <2>6 DEF ops, t
<1>4. Init => AInv
    BY InitAInv
<1>5. IInv /\ AInv /\ [Next]_vars => AInv'
    BY NextAInv
<1> QED
    BY <1>1, <1>2, <1>3, <1>4, <1>5, Invariance, PTL DEF Spec

-----------------------------------------------------------------------------
(* Every variable keeps the shape of its Rust field, no row id at or above  *)
(* next_row_id is in use, and no row version carries an xid at or above     *)
(* next_xid: neither in memory nor on disk, where the counter a restart     *)
(* resumes from is the disk's own and not ahead of the running one.  The    *)
(* xmins are bounded by AInv, the xmaxs by OInv: an undo gives back an xmax *)
(* its op had overwritten, so that one must be older than the counter too.  *)
THEOREM TypeCorrect == Spec => []TypeOK
<1>1. Init => AInv /\ OInv
    BY InitAInv, InitOInv
<1>2. IInv /\ AInv /\ OInv /\ [Next]_vars => AInv' /\ OInv'
    BY NextAInv, NextOInv
<1>3. IInv /\ AInv /\ OInv => TypeOK
    BY DEF TypeOK, XidsHandedOut, HandedOut, IInv, AInv, Clean, OInv, Older
<1> QED
    BY <1>1, <1>2, <1>3, Invariance, PTL DEF Spec

=============================================================================
