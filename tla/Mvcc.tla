-------------------------------- MODULE Mvcc --------------------------------
(***************************************************************************)
(* The storage engine's transaction core: row versions stamped with        *)
(* xmin/xmax, snapshots, SELECT ... FOR UPDATE row locks, savepoints as     *)
(* sub-xids, the write log that abort undoes and commit turns into WAL      *)
(* records, vacuum, checkpoint and restart.                                 *)
(*                                                                         *)
(* Every statement runs under the one engine mutex (server.rs,             *)
(* lock_engine), so one action is one statement of one session.  The       *)
(* database is one table with one column, `key'.  A statement's WHERE       *)
(* clause picks one row version; a statement on several rows is the same    *)
(* steps taken by one session in a row.                                     *)
(*                                                                         *)
(* `disk' is what Wal::open would rebuild: the checkpoint image plus every  *)
(* fsynced commit frame.  How that survives crashes byte by byte is the     *)
(* subject of module Wal.                                                   *)
(***************************************************************************)
EXTENDS Naturals, Sequences, FiniteSets

CONSTANTS
    Session,        \* connections
    Key,            \* values of the key column
    InitKeys,       \* keys of the rows the database starts with
    Level,          \* isolation levels in use: "RC" and/or "RR"
    Unique,         \* is there a unique index on the key column?
    Client,         \* what the clients do, a subset of ClientActs
    Faults,         \* subset of {"append", "restart"}
    MaxXid,         \* bound on xids handed out
    MaxRow,         \* bound on row ids handed out
    MaxSavepoints,  \* bound on the depth of the savepoint stack
    MaxWrites       \* bound on the length of a write log

(***************************************************************************)
(* The statements the clients issue, and how they use them:                 *)
(* "rekey"     UPDATE may change the key                                    *)
(* "unlocked"  a block may write a row it has not locked FOR UPDATE         *)
(* "reupdate"  a block may UPDATE a version its own UPDATE made             *)
(* "auto"      statements are issued outside transaction blocks too         *)
(***************************************************************************)
ClientActs == {"insert", "update", "delete", "lock", "savepoint", "checkpoint",
               "rekey", "unlocked", "reupdate", "auto"}

ASSUME ConstantsAssumption ==
    /\ InitKeys \subseteq Key /\ IsFiniteSet(InitKeys)
    /\ Level \subseteq {"RC", "RR"}
    /\ Unique \in BOOLEAN
    /\ Client \subseteq ClientActs
    /\ Faults \subseteq {"append", "restart"}
    /\ MaxXid \in Nat
    /\ MaxRow \in Nat
    /\ MaxSavepoints \in Nat
    /\ MaxWrites \in Nat

VARIABLES
    next_xid,       \* TxnManager.next_xid; 0 is never a real xid
    next_row_id,    \* TxnManager.next_row_id
    active,         \* TxnManager.active: xids of running transactions
    snapshots,      \* TxnManager.snapshots: xid -> registered snapshot
    rows,           \* Table.rows: row id -> row version
    row_locks,      \* TxnManager.row_locks: row id -> holding xid
    lock_order,     \* TxnManager.lock_order: xid -> row ids as taken
    txn,            \* Session.txn of every session
    disk,           \* what recovery would rebuild
    aborted         \* history: xids whose effects must leave no trace

engine == <<next_xid, next_row_id, active, snapshots, rows, row_locks, lock_order>>
vars == <<engine, txn, disk, aborted>>

-----------------------------------------------------------------------------
(* Data types. *)

NoEntries == [x \in {} |-> x]      \* an empty map
With(f, x, y) == [z \in DOMAIN f \cup {x} |-> IF z = x THEN y ELSE f[z]]
Without(f, S) == [z \in DOMAIN f \ S |-> f[z]]

Snapshot == [active : SUBSET Nat, next_xid : Nat]
NoSnapshot == [active |-> {}, next_xid |-> 0]

RowVersion == [key : Key, xmin : Nat, xmax : Nat]

(***************************************************************************)
(* WriteOp.  `old' is the version the op stamps (0: none), `new' the        *)
(* version it creates (0: none), `prev' the prev_xmax it overwrote.         *)
(***************************************************************************)
WriteOp == [op : {"insert", "delete", "update"}, old : Nat, new : Nat, prev : Nat]

InsertRow(id) == [op |-> "insert", old |-> 0, new |-> id, prev |-> 0]
DeleteRow(r) == [op |-> "delete", old |-> r, new |-> 0, prev |-> rows[r].xmax]
UpdateRow(r, id) == [op |-> "update", old |-> r, new |-> id, prev |-> rows[r].xmax]

SavepointMark == [writes_len : Nat, lock_count : Nat]

(* struct Txn; xid 0 stands for "no transaction". *)
Txn == [xid : Nat,
        level : {"RC", "RR"},
        snapshot : Snapshot,
        writes : Seq(WriteOp),
        savepoints : Seq(SavepointMark),
        sub_xids : Seq(Nat),
        owned_xids : SUBSET Nat,
        failed : BOOLEAN]

NewTxn(xid, level) ==
    [xid |-> xid, level |-> level, snapshot |-> NoSnapshot, writes |-> <<>>,
     savepoints |-> <<>>, sub_xids |-> <<>>, owned_xids |-> {}, failed |-> FALSE]

NoTxn == NewTxn(0, "RC")

Open(s) == txn[s].xid # 0
Running(s) == Open(s) /\ ~txn[s].failed

write_xid(t) == IF t.sub_xids = <<>> THEN t.xid ELSE t.sub_xids[Len(t.sub_xids)]
all_xids(t) == {t.xid} \cup t.owned_xids

-----------------------------------------------------------------------------
(* Snapshots and visibility. *)

take_snapshot == [active |-> active, next_xid |-> next_xid]

(* Committed as far as a snapshot can tell. *)
SeenCommitted(xid, snap) == xid < snap.next_xid /\ xid \notin snap.active

xid_committed(xid) == SeenCommitted(xid, take_snapshot)

row_visible(v, snap, owns) ==
    /\ v.xmin \in owns \/ SeenCommitted(v.xmin, snap)
    /\ v.xmax # 0 => v.xmax \notin owns /\ ~SeenCommitted(v.xmax, snap)

(***************************************************************************)
(* The snapshot of a statement: fresh at READ COMMITTED, pinned at the      *)
(* first statement at REPEATABLE READ.                                      *)
(***************************************************************************)
stmt_snapshot(t) ==
    IF t.level = "RC" \/ t.snapshot = NoSnapshot THEN take_snapshot ELSE t.snapshot

(* The transaction after a statement took its snapshot ... *)
Pinned(t) == IF t.level = "RC" THEN t ELSE [t EXCEPT !.snapshot = stmt_snapshot(t)]

(* ... and the registry VACUUM consults. *)
Registered(t) ==
    IF t.level = "RC" THEN snapshots
    ELSE With(snapshots, t.xid, stmt_snapshot(t))

Visible(t) == {r \in DOMAIN rows : row_visible(rows[r], stmt_snapshot(t), all_xids(t))}

(* Mutant of version_dead_to_all: VACUUM ignores the registered snapshots. *)
version_dead_to_all_NoSnapshots(v, act, snaps) ==
    v.xmax # 0 /\ v.xmin \notin act /\ v.xmax \notin act

(* Dead to every registered snapshot, given the active xids. *)
version_dead_to_all(v, act, snaps) ==
    /\ v.xmax # 0
    /\ v.xmin \notin act
    /\ v.xmax \notin act
    /\ \A x \in DOMAIN snaps : SeenCommitted(v.xmax, snaps[x])

vacuum_table(rws, act, snaps) ==
    [r \in {q \in DOMAIN rws : ~version_dead_to_all(rws[q], act, snaps)} |-> rws[r]]

(* Only DELETE and UPDATE leave dead versions behind, so only they vacuum. *)
auto_vacuum(rws, writes, act, snaps) ==
    IF \E i \in DOMAIN writes : writes[i].old # 0
    THEN vacuum_table(rws, act, snaps)
    ELSE rws

-----------------------------------------------------------------------------
(* What a statement checks before it writes. *)

(* Mutants: a check that never fails. *)
check_row_lock_Skipped(r, xid) == TRUE
committed_unique_violation_Skipped(id, own) == FALSE

(* A visible version deleted by a transaction that has committed: 40001. *)
check_write_conflict(t) ==
    t.level = "RR" =>
        \A r \in Visible(t) : rows[r].xmax = 0 \/ ~xid_committed(rows[r].xmax)

(* The locks of a transaction, in the order it took them. *)
Locks(xid) == IF xid \in DOMAIN lock_order THEN lock_order[xid] ELSE <<>>

(* No other active transaction holds a FOR UPDATE lock on r. *)
check_row_lock(r, xid) ==
    r \in DOMAIN row_locks => row_locks[r] = xid \/ row_locks[r] \notin active

unique_violation(k, exclude, snap, owns) ==
    /\ Unique
    /\ \E r \in DOMAIN rows \ exclude :
        /\ rows[r].key = k
        /\ rows[r].xmax \notin owns
        /\ rows[r].xmin \in owns \/ row_visible(rows[r], snap, owns)

(* The commit-time recheck against everything committed by now. *)
committed_unique_violation(id, own) ==
    /\ Unique
    /\ \E r \in DOMAIN rows \ {id} :
        /\ rows[r].key = rows[id].key
        /\ rows[r].xmin # own
        /\ row_visible(rows[r], take_snapshot, {own})

-----------------------------------------------------------------------------
(* Applying and undoing write ops. *)

(* Mutant of Apply: DELETE logs its op but leaves the version unstamped. *)
Apply_DeleteUnstamped(rws, w, k, xid) ==
    [r \in DOMAIN rws \cup ({w.new} \ {0}) |->
        IF r = w.new THEN [key |-> k, xmin |-> xid, xmax |-> 0]
        ELSE IF r = w.old /\ w.op # "delete" THEN [rws[r] EXCEPT !.xmax = xid]
        ELSE rws[r]]

(* Stamp w.old, create w.new. *)
Apply(rws, w, k, xid) ==
    [r \in DOMAIN rws \cup ({w.new} \ {0}) |->
        IF r = w.new THEN [key |-> k, xmin |-> xid, xmax |-> 0]
        ELSE IF r = w.old THEN [rws[r] EXCEPT !.xmax = xid]
        ELSE rws[r]]

(* Mutant of NewestStamp: undo runs the ops in the order they were logged.  *)
NewestStamp_Oldest(ops, r) ==
    CHOOSE i \in DOMAIN ops :
        /\ ops[i].old = r
        /\ \A j \in DOMAIN ops : ops[j].old = r => i <= j

(* The newest op in ops that stamped r. *)
NewestStamp(ops, r) ==
    CHOOSE i \in DOMAIN ops :
        /\ ops[i].old = r
        /\ \A j \in DOMAIN ops : ops[j].old = r => j <= i

(* Mutant of undo_all: the versions go but the stamps stay. *)
undo_all_KeepsStamps(rws, owns, ops) ==
    LET gone == {r \in DOMAIN rws : /\ rws[r].xmin \in owns
                                    /\ \E i \in DOMAIN ops : ops[i].new = r}
    IN  [r \in DOMAIN rws \ gone |-> rws[r]]

(***************************************************************************)
(* undo_write_op over a suffix of the write log, newest op first.  A        *)
(* version the transaction created goes; a stamp it left gets back the      *)
(* xmax its newest op overwrote, unless someone else has stamped since.     *)
(* That prev is never one of our own xids (a version we stamped is not      *)
(* visible to us), so older ops on the same version change nothing more.    *)
(***************************************************************************)
undo_all(rws, owns, ops) ==
    LET gone == {r \in DOMAIN rws : /\ rws[r].xmin \in owns
                                    /\ \E i \in DOMAIN ops : ops[i].new = r}
    IN  [r \in DOMAIN rws \ gone |->
            IF rws[r].xmax \in owns /\ \E i \in DOMAIN ops : ops[i].old = r
            THEN [rws[r] EXCEPT !.xmax = ops[NewestStamp(ops, r)].prev]
            ELSE rws[r]]

(* One op: remove the version it created, give back the xmax it overwrote.  *)
undo_write_op(rws, owns, w) ==
    LET kept == {r \in DOMAIN rws : ~(r = w.new /\ rws[r].xmin \in owns)}
    IN  [r \in kept |-> IF r = w.old /\ rws[r].xmax \in owns
                        THEN [rws[r] EXCEPT !.xmax = w.prev] ELSE rws[r]]

(* undo_all as the code runs it, op by op. *)
UndoOneByOne(rws, owns, ops) ==
    LET undone[n \in 0..Len(ops)] ==
            IF n = 0 THEN rws
            ELSE undo_write_op(undone[n - 1], owns, ops[Len(ops) - n + 1])
    IN  undone[Len(ops)]

-----------------------------------------------------------------------------
(* From the write log to WAL records, and from records to what replay       *)
(* rebuilds.  records_for_commit is called with the top-level xid only.     *)

own_row(rws, id, own) == id \in DOMAIN rws /\ rws[id].xmin = own

StillOurs(rws, r, own) == r \in DOMAIN rws /\ rws[r].xmax = own

(* records_for_commit returns Err: the commit fails with 40001. *)
CommitConflict(writes, own) ==
    \E i \in DOMAIN writes :
        LET w == writes[i]
            overwritten == w.old \in DOMAIN rows /\ ~StillOurs(rows, w.old, own)
        IN  \/ /\ w.op = "insert"
               /\ own_row(rows, w.new, own)
               /\ committed_unique_violation(w.new, own)
            \/ /\ w.op = "delete" /\ overwritten
               /\ i + 1 \in DOMAIN writes /\ writes[i + 1].op = "insert"
            \/ w.op = "update" /\ overwritten

(* The ops records_for_commit emits a record for. *)
records_for_commit(rws, writes, own) ==
    {i \in DOMAIN writes :
        /\ writes[i].old # 0 => StillOurs(rws, writes[i].old, own)
        /\ writes[i].new # 0 => own_row(rws, writes[i].new, own)}

(* Adjacent updates share one UpdateRows record. *)
SameRecord(writes, logged, j, i) ==
    \A m \in logged : j <= m /\ m <= i => writes[m].op = "update"

(***************************************************************************)
(* A record stamps w.old only if replay has that version by then.  An       *)
(* UpdateRows record stamps all of its old versions before it creates the   *)
(* new ones, so a version created earlier in the same record is missed.     *)
(***************************************************************************)
Replayable(d, writes, logged, i) ==
    \/ writes[i].old \in DOMAIN d.rows
    \/ \E j \in logged : /\ j < i
                         /\ writes[j].new = writes[i].old
                         /\ ~SameRecord(writes, logged, j, i)

(* The counter after replay met the ids of S: past the greatest of them. *)
Above(n, S) == IF \E x \in S : x >= n
               THEN (CHOOSE x \in S : \A y \in S : y <= x) + 1 ELSE n

(* Mutant of ResumeXid: replay resumes at the xid it met, not past it.      *)
ResumeXid_AtOwn(n, logged, own) == IF logged # {} /\ own >= n THEN own ELSE n

(* The xid counter after the records `logged' of own were replayed. *)
ResumeXid(n, logged, own) == IF logged = {} THEN n ELSE Above(n, {own})

(* apply_record over the records of one commit frame. *)
apply_record(d, rws, writes, own) ==
    LET logged  == records_for_commit(rws, writes, own)
        created == {writes[i].new : i \in logged} \ {0}
        stamped == {writes[i].old : i \in {j \in logged : Replayable(d, writes, logged, j)}}
        named   == created \cup {writes[i].old : i \in {j \in logged : writes[j].op = "update"}}
    IN  [rows |-> [r \in DOMAIN d.rows \cup created |->
                    LET v == IF r \in DOMAIN d.rows THEN d.rows[r]
                             ELSE [key |-> rws[r].key, xmin |-> own, xmax |-> 0]
                    IN  IF r \in stamped THEN [v EXCEPT !.xmax = own] ELSE v],
         next_xid |-> ResumeXid(d.next_xid, logged, own),
         next_row_id |-> Above(d.next_row_id, named)]

(* Mutant of checkpoint(): uncommitted deletes are written to the image.    *)
committed_xmax_Raw(xmax) == xmax

(* checkpoint(): committed versions only, uncommitted deletes masked. *)
committed_xmax(xmax) == IF xmax # 0 /\ xid_committed(xmax) THEN xmax ELSE 0

CheckpointImage ==
    [rows |-> [r \in {q \in DOMAIN rows : xid_committed(rows[q].xmin)} |->
                 [rows[r] EXCEPT !.xmax = committed_xmax(@)]],
     next_xid |-> next_xid,
     next_row_id |-> next_row_id]

-----------------------------------------------------------------------------
(* One committed row per key of InitKeys, loaded by transaction 1. *)
Loads == {f \in [1..Cardinality(InitKeys) -> InitKeys] :
            \A i, j \in DOMAIN f : f[i] = f[j] => i = j}

Init ==
    /\ next_xid = 2
    /\ next_row_id = Cardinality(InitKeys) + 1
    /\ active = {}
    /\ snapshots = NoEntries
    /\ \E f \in Loads : rows = [i \in DOMAIN f |-> [key |-> f[i], xmin |-> 1, xmax |-> 0]]
    /\ row_locks = NoEntries
    /\ lock_order = NoEntries
    /\ txn = [s \in Session |-> NoTxn]
    /\ disk = [rows |-> rows, next_xid |-> next_xid, next_row_id |-> next_row_id]
    /\ aborted = {}

-----------------------------------------------------------------------------
(* Statements inside a transaction block (txn_execute). *)

txn_begin(s, level) ==
    /\ ~Open(s)
    /\ next_xid <= MaxXid
    /\ next_xid' = next_xid + 1
    /\ active' = active \cup {next_xid}
    /\ txn' = [txn EXCEPT ![s] = NewTxn(next_xid, level)]
    /\ UNCHANGED <<next_row_id, snapshots, rows, row_locks, lock_order, disk, aborted>>

(* A read only pins the snapshot. *)
exec_select(s) ==
    /\ Running(s)
    /\ txn' = [txn EXCEPT ![s] = Pinned(@)]
    /\ snapshots' = Registered(txn[s])
    /\ UNCHANGED <<next_xid, next_row_id, active, rows, row_locks, lock_order, disk, aborted>>

(* Any statement that returns an error: the transaction is aborted until    *)
(* ROLLBACK [TO], its staged writes stay in the log.                        *)
StmtError(s) ==
    /\ Running(s)
    /\ txn' = [txn EXCEPT ![s] = [Pinned(txn[s]) EXCEPT !.failed = TRUE]]
    /\ snapshots' = Registered(txn[s])
    /\ UNCHANGED <<next_xid, next_row_id, active, rows, row_locks, lock_order, disk, aborted>>

(* try_row_lock succeeds for everyone but a second active transaction. *)
acquire_row_locks(s, r) ==
    /\ Running(s)
    /\ "lock" \in Client
    /\ r \in Visible(txn[s])
    /\ check_row_lock(r, txn[s].xid)
    /\ IF r \in DOMAIN row_locks /\ row_locks[r] = txn[s].xid
       THEN UNCHANGED <<row_locks, lock_order>>
       ELSE /\ row_locks' = With(row_locks, r, txn[s].xid)
            /\ lock_order' = With(lock_order, txn[s].xid, Append(Locks(txn[s].xid), r))
    /\ txn' = [txn EXCEPT ![s] = Pinned(@)]
    /\ snapshots' = Registered(txn[s])
    /\ UNCHANGED <<next_xid, next_row_id, active, rows, disk, aborted>>

(* The rows the clients' discipline lets a transaction block write. *)
MayWrite(t, r) ==
    /\ "unlocked" \in Client \/ rows[r].xmin \in all_xids(t)
       \/ (r \in DOMAIN row_locks /\ row_locks[r] = t.xid)
    /\ "reupdate" \in Client
       \/ \A i \in DOMAIN t.writes : t.writes[i].op = "update" => t.writes[i].new # r

(* UPDATE and DELETE: the checks every target row passes. *)
Writable(t, r) ==
    /\ r \in Visible(t)
    /\ check_write_conflict(t)
    /\ check_row_lock(r, t.xid)

(* The effect of a write: stamp and create versions, log the op. *)
Write(s, w, k) ==
    /\ Len(txn[s].writes) < MaxWrites
    /\ rows' = Apply(rows, w, k, write_xid(txn[s]))
    /\ txn' = [txn EXCEPT ![s] = [Pinned(txn[s]) EXCEPT !.writes = Append(@, w)]]
    /\ snapshots' = Registered(txn[s])
    /\ next_row_id' = IF w.new = 0 THEN next_row_id ELSE next_row_id + 1
    /\ UNCHANGED <<next_xid, active, row_locks, lock_order, disk, aborted>>

DeleteAllowed(t, r) == "delete" \in Client /\ Writable(t, r)

InsertAllowed(t, k) ==
    /\ "insert" \in Client
    /\ next_row_id <= MaxRow
    /\ ~unique_violation(k, {}, stmt_snapshot(t), all_xids(t))

UpdateAllowed(t, r, k) ==
    /\ "update" \in Client
    /\ next_row_id <= MaxRow
    /\ Writable(t, r)
    /\ "rekey" \in Client \/ k = rows[r].key
    /\ ~unique_violation(k, {r}, stmt_snapshot(t), all_xids(t))

exec_insert(s, k) ==
    /\ Running(s)
    /\ InsertAllowed(txn[s], k)
    /\ Write(s, InsertRow(next_row_id), k)

exec_delete(s, r) ==
    /\ Running(s)
    /\ DeleteAllowed(txn[s], r) /\ MayWrite(txn[s], r)
    /\ Write(s, DeleteRow(r), rows[r].key)

exec_update(s, r, k) ==
    /\ Running(s)
    /\ UpdateAllowed(txn[s], r, k) /\ MayWrite(txn[s], r)
    /\ Write(s, UpdateRow(r, next_row_id), k)

-----------------------------------------------------------------------------
(* Savepoints.  Each one opens a scope with a sub-xid of its own; names are *)
(* resolved to a position in the stack.                                     *)

Truncate(q, n) == SubSeq(q, 1, n)

txn_savepoint(s) ==
    LET t == txn[s] IN
    /\ Running(s)
    /\ "savepoint" \in Client
    /\ Len(t.savepoints) < MaxSavepoints
    /\ next_xid <= MaxXid
    /\ next_xid' = next_xid + 1
    /\ active' = active \cup {next_xid}
    /\ txn' = [txn EXCEPT ![s] = [t EXCEPT
                 !.savepoints = Append(@, [writes_len |-> Len(t.writes),
                                           lock_count |-> Len(Locks(t.xid))]),
                 !.sub_xids = Append(@, next_xid),
                 !.owned_xids = @ \cup {next_xid}]]
    /\ UNCHANGED <<next_row_id, snapshots, rows, row_locks, lock_order, disk, aborted>>

(* Mutant of KeptLocks: ROLLBACK TO forgets the later locks' table entries. *)
KeptLocks_All(xid, keep) == row_locks

(* release_locks_after: drop the locks taken after the first `keep'. *)
KeptLocks(xid, keep) ==
    LET dropped == {Locks(xid)[i] : i \in keep + 1 .. Len(Locks(xid))}
    IN  [r \in {q \in DOMAIN row_locks : ~(q \in dropped /\ row_locks[q] = xid)} |->
            row_locks[r]]

KeptOrder(xid, keep) ==
    [x \in DOMAIN lock_order |->
        IF x = xid THEN Truncate(lock_order[x], keep) ELSE lock_order[x]]

(* Mutant of UndoneOps: the first op after the savepoint is not undone. *)
UndoneOps_OffByOne(t, idx) ==
    SubSeq(t.writes, t.savepoints[idx].writes_len + 2, Len(t.writes))

(* The ops ROLLBACK TO undoes: writes.drain(to..). *)
UndoneOps(t, idx) ==
    SubSeq(t.writes, t.savepoints[idx].writes_len + 1, Len(t.writes))

(* Undo the tail of the write log, release the later locks, and restart the *)
(* scope under a fresh sub-xid; this also ends the aborted state.           *)
txn_rollback_to(s, idx) ==
    LET t == txn[s]
        mark == t.savepoints[idx]
    IN
    /\ Open(s)
    /\ idx \in DOMAIN t.savepoints
    /\ next_xid <= MaxXid
    /\ next_xid' = next_xid + 1
    /\ active' = active \cup {next_xid}
    /\ rows' = undo_all(rows, all_xids(t), UndoneOps(t, idx))
    /\ row_locks' = KeptLocks(t.xid, mark.lock_count)
    /\ lock_order' = KeptOrder(t.xid, mark.lock_count)
    /\ txn' = [txn EXCEPT ![s] = [t EXCEPT
                 !.writes = Truncate(@, mark.writes_len),
                 !.savepoints = Truncate(@, idx),
                 !.sub_xids = Append(Truncate(@, idx - 1), next_xid),
                 !.owned_xids = @ \cup {next_xid},
                 !.failed = FALSE]]
    /\ aborted' = aborted \cup {x \in t.owned_xids : x >= t.sub_xids[idx]}
    /\ UNCHANGED <<next_row_id, snapshots, disk>>

(* Mutant of txn_release: the sub-xid scopes outlive their savepoints. *)
txn_release_KeepsScopes(s, idx) ==
    /\ Running(s)
    /\ idx \in DOMAIN txn[s].savepoints
    /\ txn' = [txn EXCEPT ![s].savepoints = Truncate(@, idx - 1)]
    /\ UNCHANGED <<engine, disk, aborted>>

txn_release(s, idx) ==
    /\ Running(s)
    /\ idx \in DOMAIN txn[s].savepoints
    /\ txn' = [txn EXCEPT ![s].savepoints = Truncate(@, idx - 1),
                          ![s].sub_xids = Truncate(@, idx - 1)]
    /\ UNCHANGED <<engine, disk, aborted>>

-----------------------------------------------------------------------------
(* The end of a transaction. *)

(* Mutant of retired_xids: retire_txn instead of retire_txn_family. *)
retired_xids_TopOnly(t) == {t.xid}

(* The xids end_txn is called for. *)
retired_xids(t) == all_xids(t)

(* retire_txn_family, then auto_vacuum over rws. *)
retire_txn_family(s, rws) ==
    LET t     == txn[s]
        act   == active \ retired_xids(t)
        snaps == Without(snapshots, retired_xids(t))
    IN
    /\ active' = act
    /\ snapshots' = snaps
    /\ row_locks' = [r \in {q \in DOMAIN row_locks : row_locks[q] # t.xid} |-> row_locks[r]]
    /\ lock_order' = Without(lock_order, {t.xid})
    /\ rows' = auto_vacuum(rws, t.writes, act, snaps)
    /\ txn' = [txn EXCEPT ![s] = NoTxn]

(* ROLLBACK, COMMIT of an aborted transaction, and disconnect. *)
txn_rollback(s) ==
    /\ Open(s)
    /\ retire_txn_family(s, undo_all(rows, all_xids(txn[s]), txn[s].writes))
    /\ aborted' = aborted \cup all_xids(txn[s])
    /\ UNCHANGED <<next_xid, next_row_id, disk>>

(* COMMIT whose records are fsynced before the xids retire. *)
commit_taken_txn(s) ==
    /\ Running(s)
    /\ ~CommitConflict(txn[s].writes, txn[s].xid)
    /\ disk' = apply_record(disk, rows, txn[s].writes, txn[s].xid)
    /\ retire_txn_family(s, rows)
    /\ UNCHANGED <<next_xid, next_row_id, aborted>>

(* COMMIT that conflicts, or whose append_batch fails: the transaction is   *)
(* handed back marked failed.                                               *)
CommitFails(s) ==
    /\ CommitConflict(txn[s].writes, txn[s].xid) \/ "append" \in Faults
    /\ StmtError(s)

-----------------------------------------------------------------------------
(* Outside a transaction block (autocommit_execute): xid, snapshot, write,  *)
(* append_batch, retire and auto_vacuum in one engine-lock section.  The    *)
(* statement's own xid is on no version yet, so a snapshot that counts it   *)
(* as active sees what take_snapshot sees.                                  *)

AutoTxn == NewTxn(next_xid, "RC")

autocommit_execute(s, w, k) ==
    LET rws == Apply(rows, w, k, next_xid) IN
    /\ next_xid' = next_xid + 1
    /\ next_row_id' = IF w.new = 0 THEN next_row_id ELSE next_row_id + 1
    /\ \/ /\ rows' = auto_vacuum(rws, <<w>>, active, snapshots)
          /\ disk' = apply_record(disk, rws, <<w>>, next_xid)
          /\ UNCHANGED aborted
       \/ /\ "append" \in Faults
          /\ rows' = auto_vacuum(undo_all(rws, {next_xid}, <<w>>), <<w>>, active, snapshots)
          /\ aborted' = aborted \cup {next_xid}
          /\ UNCHANGED disk
    /\ UNCHANGED <<active, snapshots, row_locks, lock_order, txn>>

AutoReady(s) == "auto" \in Client /\ ~Open(s) /\ next_xid <= MaxXid

auto_insert(s, k) ==
    /\ AutoReady(s)
    /\ InsertAllowed(AutoTxn, k)
    /\ autocommit_execute(s, InsertRow(next_row_id), k)

auto_delete(s, r) ==
    /\ AutoReady(s)
    /\ DeleteAllowed(AutoTxn, r)
    /\ autocommit_execute(s, DeleteRow(r), rows[r].key)

auto_update(s, r, k) ==
    /\ AutoReady(s)
    /\ UpdateAllowed(AutoTxn, r, k)
    /\ autocommit_execute(s, UpdateRow(r, next_row_id), k)

(* A failing statement only burns its xid. *)
auto_error(s) ==
    /\ AutoReady(s)
    /\ next_xid' = next_xid + 1
    /\ aborted' = aborted \cup {next_xid}
    /\ UNCHANGED <<next_row_id, active, snapshots, rows, row_locks, lock_order, txn, disk>>

-----------------------------------------------------------------------------
(* Maintenance and restart. *)

txn_vacuum(s) ==
    /\ ~Open(s)
    /\ rows' = vacuum_table(rows, active, snapshots)
    /\ UNCHANGED <<next_xid, next_row_id, active, snapshots, row_locks, lock_order,
                   txn, disk, aborted>>

txn_checkpoint(s) ==
    /\ ~Open(s)
    /\ "checkpoint" \in Client
    /\ disk' = CheckpointImage
    /\ UNCHANGED <<engine, txn, aborted>>

(* The server dies; Wal::open rebuilds the engine from disk.  Xids above    *)
(* the recovered counter are handed out afresh.                             *)
Restart ==
    /\ "restart" \in Faults
    /\ rows' = disk.rows
    /\ next_xid' = disk.next_xid
    /\ next_row_id' = disk.next_row_id
    /\ active' = {}
    /\ snapshots' = NoEntries
    /\ row_locks' = NoEntries
    /\ lock_order' = NoEntries
    /\ txn' = [s \in Session |-> NoTxn]
    /\ aborted' = {x \in aborted \cup active : x < disk.next_xid}
    /\ UNCHANGED disk

Next ==
    \/ \E s \in Session :
        \/ \E level \in Level : txn_begin(s, level)
        \/ exec_select(s)
        \/ StmtError(s)
        \/ \E r \in DOMAIN rows : acquire_row_locks(s, r) \/ exec_delete(s, r)
        \/ \E k \in Key : exec_insert(s, k)
        \/ \E r \in DOMAIN rows, k \in Key : exec_update(s, r, k)
        \/ txn_savepoint(s)
        \/ \E idx \in 1..MaxSavepoints : txn_rollback_to(s, idx) \/ txn_release(s, idx)
        \/ txn_rollback(s)
        \/ commit_taken_txn(s)
        \/ CommitFails(s)
        \/ \E k \in Key : auto_insert(s, k)
        \/ \E r \in DOMAIN rows : auto_delete(s, r)
        \/ \E r \in DOMAIN rows, k \in Key : auto_update(s, r, k)
        \/ auto_error(s)
        \/ txn_vacuum(s)
        \/ txn_checkpoint(s)
    \/ Restart

Spec == Init /\ [][Next]_vars

-----------------------------------------------------------------------------
(* Properties. *)

MarksOK(t) ==
    /\ Len(t.sub_xids) = Len(t.savepoints)
    /\ \A i \in DOMAIN t.savepoints :
        /\ t.savepoints[i].writes_len <= Len(t.writes)
        /\ t.savepoints[i].lock_count <= Len(Locks(t.xid))
        /\ \A j \in 1..i : /\ t.savepoints[j].writes_len <= t.savepoints[i].writes_len
                           /\ t.savepoints[j].lock_count <= t.savepoints[i].lock_count

(* A row table all of whose row ids are below n. *)
RowTable(rws, n) ==
    /\ rws \in [DOMAIN rws -> RowVersion]
    /\ DOMAIN rws \subseteq 1..(n - 1)

(* What a checkpoint or a replayed log holds. *)
DiskImage(d) ==
    /\ DOMAIN d = {"rows", "next_xid", "next_row_id"}
    /\ d.next_xid \in Nat \ {0}
    /\ d.next_row_id \in Nat
    /\ RowTable(d.rows, d.next_row_id)

(* Every variable has the shape of the Rust field it stands for, and the    *)
(* active xids and the row ids are below their counters.                    *)
FieldTypes ==
    /\ next_xid \in Nat \ {0}
    /\ next_row_id \in Nat
    /\ active \subseteq 1..(next_xid - 1)
    /\ snapshots \in [DOMAIN snapshots -> Snapshot]
    /\ RowTable(rows, next_row_id)
    /\ row_locks \in [DOMAIN row_locks -> Nat]
    /\ lock_order \in [DOMAIN lock_order -> Seq(Nat)]
    /\ txn \in [Session -> Txn]
    /\ DiskImage(disk)
    /\ aborted \subseteq Nat

(* No version of rws is stamped with an xid at or above n. *)
HandedOut(rws, n) == \A r \in DOMAIN rws : rws[r].xmin < n /\ rws[r].xmax < n

(* Every xid a row version carries, in memory and in what recovery would    *)
(* rebuild, has been handed out by the counter that goes on from there: a   *)
(* counter that restarts at or below one of them would make a finished      *)
(* transaction's versions those of a new one.                               *)
XidsHandedOut ==
    /\ HandedOut(rows, next_xid)
    /\ HandedOut(disk.rows, disk.next_xid)
    /\ disk.next_xid <= next_xid

(* The types of the fields, and no id at or above the counters in use, in   *)
(* memory or on disk: begin_txn, SAVEPOINT, autocommit, replay, checkpoint  *)
(* and restart keep next_xid above every xmin and xmax, next_row_id above   *)
(* every row id.                                                            *)
TypeOK == FieldTypes /\ XidsHandedOut

(* The active set is exactly the xids of the open transactions, each owned  *)
(* by one session, and the snapshot registry VACUUM consults is exactly     *)
(* their pinned snapshots: nothing leaks past COMMIT, ROLLBACK or a crash,  *)
(* and no running transaction is taken for a finished one.                  *)
XidOwnership ==
    /\ \A s \in Session : ~Open(s) => txn[s] = NoTxn
    /\ active = UNION {all_xids(txn[s]) : s \in {u \in Session : Open(u)}}
    /\ \A s, u \in Session :
        s # u /\ Open(s) /\ Open(u) => all_xids(txn[s]) \cap all_xids(txn[u]) = {}
    /\ DOMAIN snapshots = {txn[s].xid : s \in {u \in Session : txn[u].snapshot # NoSnapshot}}
    /\ \A s \in Session :
        txn[s].snapshot # NoSnapshot => snapshots[txn[s].xid] = txn[s].snapshot

(* A FOR UPDATE lock is held by an open transaction that lists it exactly   *)
(* once in lock_order, and every listed lock is held: locks never leak past *)
(* transaction end and ROLLBACK TO releases the ones it should.             *)
LockTable ==
    /\ \A r \in DOMAIN row_locks : \E s \in Session :
        /\ Open(s) /\ txn[s].xid = row_locks[r]
        /\ \E i \in DOMAIN Locks(row_locks[r]) : Locks(row_locks[r])[i] = r
    /\ \A x \in DOMAIN lock_order :
        /\ x \in active
        /\ \A i \in DOMAIN lock_order[x] :
            /\ lock_order[x][i] \in DOMAIN row_locks
            /\ row_locks[lock_order[x][i]] = x
            /\ \A j \in DOMAIN lock_order[x] : lock_order[x][i] = lock_order[x][j] => i = j

(* The savepoint stack and the sub-xid stack move together, and the marks   *)
(* grow along the stack and never point past the write log or the lock      *)
(* list, so that ROLLBACK TO's drain(to..) and drain(keep..) cannot panic.  *)
SavepointMarks == \A s \in Session : Open(s) => MarksOK(txn[s])

(* An aborted transaction, or a savepoint scope rolled back, leaves no      *)
(* version behind, in memory or on disk: xid_committed takes every xid that *)
(* is not active for committed, so such a version would be visible.         *)
AbortedLeaveNoVersion ==
    /\ \A r \in DOMAIN rows : rows[r].xmin \notin aborted
    /\ \A r \in DOMAIN disk.rows : disk.rows[r].xmin \notin aborted

(* For every suffix of every write log, undo_all is what undoing the ops one *)
(* by one comes to: no op gives back an xmax that an older one should have, *)
(* and none misses a version because a newer one was undone before it.      *)
UndoAgrees ==
    \A s \in Session : \A n \in 0..Len(txn[s].writes) :
        LET ops == SubSeq(txn[s].writes, n + 1, Len(txn[s].writes))
        IN  undo_all(rows, all_xids(txn[s]), ops) = UndoOneByOne(rows, all_xids(txn[s]), ops)

(* What a fresh READ COMMITTED statement of a new session sees. *)
LiveRows == {r \in DOMAIN rows : row_visible(rows[r], take_snapshot, {})}

(* Versions of one key replace each other: at most one is live. *)
OneLiveVersionPerKey ==
    \A q, r \in LiveRows : rows[q].key = rows[r].key => q = r

(* What recovery would rebuild is what sessions see: no acknowledged write  *)
(* is lost by a restart and none comes back.                                *)
RecoveryMatchesMemory ==
    LiveRows = {r \in DOMAIN disk.rows : disk.rows[r].xmax = 0}

(* While a REPEATABLE READ transaction holds its snapshot, what it sees     *)
(* changes only by its own statements.                                      *)
SnapshotStable ==
    [][\A s \in Session :
        /\ txn[s].snapshot # NoSnapshot
        /\ txn'[s] = txn[s]
        => Visible(txn[s])' = Visible(txn[s])]_vars

(* A row locked FOR UPDATE by one transaction is not deleted or updated by  *)
(* another while the lock is held.                                          *)
LockedRowStaysLive ==
    [][\A r \in DOMAIN row_locks :
        /\ r \in LiveRows
        /\ r \in DOMAIN row_locks' /\ row_locks'[r] = row_locks[r]
        => r \in LiveRows']_vars

(* The step ends s's transaction without retiring its xid as aborted. *)
Commits(s) ==
    /\ Open(s) /\ txn'[s] = NoTxn
    /\ txn[s].xid < next_xid' /\ txn[s].xid \notin aborted'

(* COMMIT returns success only if its deletes hold: afterwards no row the   *)
(* transaction deleted or replaced is live, and every version it created    *)
(* and did not replace itself is.                                           *)
CommitTakesEffect ==
    [][\A s \in Session : Commits(s) =>
        LET olds == {txn[s].writes[i].old : i \in DOMAIN txn[s].writes} \ {0}
            news == {txn[s].writes[i].new : i \in DOMAIN txn[s].writes} \ {0}
        IN  olds \cap LiveRows' = {} /\ (news \ olds) \subseteq LiveRows']_vars

(* ROLLBACK, ROLLBACK TO and a failed autocommit leave the committed rows   *)
(* as they were: undo gives back every row the transaction had deleted.     *)
RollbackKeepsLiveRows ==
    [][aborted' # aborted => LiveRows' = LiveRows]_vars

-----------------------------------------------------------------------------
(* The promise of AtomicStore.  A session's pending work is read off its    *)
(* write log.                                                               *)

PendingAdd(s) ==
    {r \in DOMAIN rows : rows[r].xmin \in all_xids(txn[s]) /\ rows[r].xmax = 0}

PendingDel(s) ==
    {r \in DOMAIN rows : /\ rows[r].xmax \in all_xids(txn[s]) \ {0}
                         /\ rows[r].xmin \notin all_xids(txn[s])}

Store == INSTANCE AtomicStore WITH
            Row <- 1..MaxRow,
            live <- LiveRows,
            del <- [s \in Session |-> PendingDel(s)],
            add <- [s \in Session |-> PendingAdd(s)],
            xids <- next_xid

(* With every writer holding the row's lock, the engine is an atomic and    *)
(* durable store: COMMIT installs the whole write set in one step, and      *)
(* ROLLBACK, a failed append, VACUUM, CHECKPOINT and restart change nothing *)
(* that is committed.                                                       *)
ImplementsStore == Store!Spec
=============================================================================
