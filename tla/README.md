# A TLA+ verification project for rustgres

rustgres is a PostgreSQL-compatible server in Rust. This project models the
parts of it that keep state and can get it wrong: the multi-version storage
engine and its transactions, what COMMIT writes to the log, the log and
checkpoint files, replication slots and the walsender, the session and its
protocol, sequences, and deferrable foreign keys. The modules are translated
from the source; every definition is tied to its lines in `PROJECT.json`
("map").

## 1. The system

### Components, their state and their operations

| Component | Source | State | Operations that change it |
|---|---|---|---|
| Transaction engine | `src/storage.rs` | `TxnManager` (`next_xid`, `next_row_id`, `active`, `snapshots`, `row_locks`, `lock_order`), `Database.tables` (row versions with `xmin`/`xmax`) | `begin_txn`, `end_txn`, `take_snapshot`, `register_snapshot`, `try_row_lock`, `release_locks_after`, `vacuum_table`, `undo_write_op` |
| Transaction blocks, autocommit | `src/server.rs` | `Session.txn: Option<Txn>`: xid, level, snapshot, write log, savepoint marks, sub-xids, owned xids, failed flag | BEGIN, a statement, a failed statement, SAVEPOINT, ROLLBACK TO, RELEASE, COMMIT, ROLLBACK, disconnect, `autocommit_execute`, VACUUM, CHECKPOINT |
| DML executor | `src/exec/dml.rs` | none of its own | stamps `xmax`, pushes versions, appends `WriteOp`s, after the conflict, lock and uniqueness checks |
| Row locks | `src/storage.rs`, `src/exec/dispatch.rs` | `row_locks`, `lock_order` | SELECT ... FOR UPDATE |
| Commit records, replay | `src/wal/recovery.rs` | none of its own | `records_for_commit` (write log to records), `apply_record` (records to engine) |
| Log and checkpoint files | `src/wal/writer.rs` | `wal.log`, `checkpoint.dat`, `Wal.len`, `Wal.base_lsn` | `append_batch`, `checkpoint`, `open` |
| Replication slots, walsender | `src/repl.rs` | `Engine.repl_slots`, per connection the position of its stream | create, drop, start, poll and send, standby status, flush record, cleanup |
| Session state machine, cursors, settings | `src/server.rs` | settings and their undo stack, transaction characteristics, savepoint marks, cursors, portal, `in_error`, implicit blocks | the messages of the simple and the extended protocol |
| Deferred constraints | `src/exec/deferred.rs`, `constraint.rs` | `Engine.deferred_fk` per session: queue and modes | queue, SET CONSTRAINTS, fire at COMMIT, truncate at ROLLBACK TO, clear |
| Sequences | `src/exec/seq.rs` | versions per name, `Engine.seq_advanced` | nextval, setval, CREATE, ALTER, DROP SEQUENCE |
| Encodings | `src/wal/encoding.rs`, `records.rs` | none | pure codecs, a CRC per frame |
| TOAST, indexes | `src/toast.rs`, `src/exec/indexes.rs` | out-of-line values, index entries | follow the row versions |
| DDL, roles, RLS | `src/exec/alter.rs`, `catalog.rs`, `roles.rs` ... | versioned catalog entries | one `WriteOp` kind each |
| Parser, evaluation, planner, wire protocol, formatting | `src/sql`, `src/exec/*`, `src/protocol.rs` | none | pure or read-only |

### How they interact

One thread per connection. All of them share `Arc<Mutex<Engine>>` and
`Arc<Mutex<Wal>>`; a statement takes the engine lock once and holds it from its
snapshot to its last effect (COMMIT and autocommit take the WAL lock inside it).
So the unit of interleaving is a statement, never a Rust instruction, and
everything hard happens *between* statements of different sessions: a version
stamped by a transaction that is still open, a snapshot pinned long ago, a lock
taken after somebody else's uncommitted write, marks recorded for a later
ROLLBACK TO. A transaction is published by removing its xids from `active`; it
is durable because `records_for_commit` turned its write log into a frame that
was fsynced before. The two are independent descriptions of the same
transaction, and what a restart brings back is only the second one.

Replication is the exception: its commands take the engine lock, release it,
and take the WAL lock afterwards, so the catalog of slots and its records can
be separated by anything, a checkpoint and a crash included.

A session by itself is sequential, but it unwinds a dozen lists (write log,
settings stack, four stacks of savepoint marks, cursors, postponed checks ...)
at ROLLBACK TO, RELEASE, COMMIT, ROLLBACK, and on errors from several layers,
each in a place of its own.

The files are the other place where order matters. `append_batch` is a write
and an fsync; `checkpoint` is six steps on two files and a directory; the
process can die, or an I/O call fail, between any two of them.

### What is hard, and what makes each part correct

`PROJECT.json` ("hazards") lists each hazard at its line with the properties
aimed at it. In short:

* **Engine.** Xids and registered snapshots are exactly those of open
  transactions; nothing of an aborted transaction or rolled-back scope remains;
  a pinned snapshot does not change; VACUUM removes nothing anybody can see.
* **Locks.** A lock is held by an open transaction and listed once; ROLLBACK TO
  releases exactly the later ones; a locked row stays.
* **Commit.** The commit takes effect as a whole, in memory and on disk alike;
  one version per key stays live.
* **Files.** An acknowledged batch survives, once and in order; a refused one
  never appears; LSNs agree with the file and never go back.
* **Replication.** One walsender per slot; the catalog survives a restart; a
  confirmed position never goes back and never passes what the consumer got;
  what is in the log is sent.
* **Session.** An error aborts what it must; marks never point past the lists
  they cut; every setting, mode and cursor ends up where its scope says.
* **Sequences.** No value twice, values in bounds, DDL undone and replayed.
* **Foreign keys.** No committed child without a parent, no check lost on the
  way to COMMIT, no consistent transaction refused.

## 2. The modules

| Module | What it is |
|---|---|
| `Mvcc` | the engine, transaction blocks, autocommit, locks, DML, commit records and replay |
| `AtomicStore` | abstract: a committed set of rows that changes by whole transactions only |
| `Wal` | `wal.log` and `checkpoint.dat`, step by step, with crashes and I/O errors |
| `DurableLog` | abstract: an append-only log of commit batches |
| `Replication` | slots, their records and replay, the walsender, its consumer |
| `Session` | one connection: protocols, blocks, settings, savepoints, cursors, portals, COPY |
| `SequenceObjects` | sequence versions, nextval and setval, undo, records, replay |
| `ForeignKeys` | a deferrable foreign key: checks, actions, queue, SET CONSTRAINTS |
| `MCMvcc`, `MCWal`, `MCReplication`, `MCSession`, `MCSequenceObjects`, `MCForeignKeys` | instances for TLC |
| `MvccProofs`, `MvccStoreProofs`, `WalProofs`, `ReplicationProofs`, `SessionProofs`, `SequenceProofs`, `ForeignKeyProofs`, `ForeignKeyCoverProofs` | theorems, proved with TLAPS; `MvccStoreProofs` extends `MvccProofs`, `ForeignKeyCoverProofs` extends `ForeignKeyProofs` |

### Mvcc

*State.* `next_xid`, `next_row_id`, `active`, `snapshots`, `row_locks`,
`lock_order` are the fields of `TxnManager`; `rows` is one table's versions by
row id; `txn[s]` is session s's `Txn` (xid 0: none). `disk` is what `Wal::open`
would rebuild, checkpoint image plus fsynced frames. `aborted` is a history
variable: xids whose effects must leave no trace.

*Actions.* One per statement, the whole engine-lock section: `txn_begin`,
`exec_select`, `exec_insert`, `exec_update`, `exec_delete`,
`acquire_row_locks`, `StmtError` (any failing statement poisons the block),
`txn_savepoint`, `txn_rollback_to`, `txn_release`, `txn_rollback`,
`commit_taken_txn` (checks, records, fsync, retiring, `auto_vacuum`),
`CommitFails`, the four autocommit forms (including the failed append that is
undone in the same section), `txn_vacuum`, `txn_checkpoint` and `Restart`.

*Abstractions.* One table with one column. A row's contents are its key. A
statement touches one row; one on several rows is the same steps by one
session. `undo_all` is stated in closed form; `undo_write_op` and
`UndoOneByOne` are the loop of the code, and `UndoAgrees` says that the two are
equal: on logs of two ops in the run `mvcc_savepoints`, on every reachable log
by the theorem `UndoIsOpByOp`. `records_for_commit` and `apply_record` keep
their conditions (whose stamp, whose version, merged `UpdateRows`, counters
folded in) and drop the values carried.

*Client.* The constant `Client` says which statements are issued and how. Two
of its members switch off a discipline under which the engine's promises hold:
without `"unlocked"` a block writes only rows it has locked FOR UPDATE, and
without `"reupdate"` it does not update a row version of its own. The promises
are checked under the discipline; section 5 shows what the code does without
it. Bookkeeping properties (ownership, marks, locks, aborted versions) are
checked, and where stated proved, for all clients.

### Wal

*State.* Each file twice: as the process sees it and as of its last fsync;
`len` and `base_lsn` as the `Wal` struct has them; `db`, the batches applied to
the engine; `pc`, the step the one writer (WAL lock held) is at. A frame is its
batch number, or `Torn`.

*Actions.* `Submit`, `WriteAll`, `SyncAll` are `append_batch`; `Rename`,
`DirSync`, `SetLen`, `WriteHeader`, `SyncReset` are `checkpoint`;
`WriteAllFails`, `SyncAllFails`, `CheckpointFails` are their error returns,
after which the server goes on; `Crash` picks any outcome for what was not
fsynced; `Open` is `Wal::open`: header, checkpoint, replay by LSN up to the
first undecodable frame.

*Abstractions.* LSNs count frames instead of bytes, and the CRC is taken to
detect every torn frame. `AppendBehindJunk` says whether commits go on once
`wal.log` holds bytes that `len` does not account for. The code never checks,
so TRUE is the code and is what the *violation* run uses; FALSE restricts the
runs to behaviours in which an operator stops the server at that point, and
under it the log's promises do hold.

### Replication

*State.* `slots` is `Engine.repl_slots`; `log`, `base_lsn` and `image` are the
log since the last checkpoint and the slots of the image; per connection `pc`
is the part of the command that comes next and `next_lsn`, `saved`, `end` the
thread's locals; `chan`, `got` are the wire and the consumer. `born` and `lost`
are history.

*Actions.* One per lock section of repl.rs, because those are what other
threads interleave with: `create_slot`, `CreateLogged`, `CreateNotLogged`,
`CreateUndo`, and the same for DROP; `start_replication` (the pre-check),
`Activate`, `CopyBothSent`; the loop `Poll`, `Progress`, `ReadStatus`,
`ReadTimeout`, `FlushLog`; `Cleanup`, `FinalLog`; and `Commit`, `checkpoint`
and `Crash`, after which the slots are what replay makes of image and log.

*Abstractions.* A frame counts one LSN, an append adds its frame or nothing
and a checkpoint is one step; `Wal` has the steps in between. The consumer
confirms any frame it has received, not always the last. `OverlappingDDL` is
FALSE in the runs: nobody uses a slot while its CREATE or DROP is under way.

### Session

*State.* `session` is `struct Session` (transaction, settings, one-shot mode,
cursors); `query` is the Query message in progress, `prepared` and `portal` the
unnamed statement and portal, `in_error` the skip-until-Sync flag. The fields
`before`, `want`, `errs`, `ended`, `depth` are history.

*Actions.* The protocol's messages: `ReceiveQuery` and a `QueryStatement`,
`QueryCopy` or `QueryCopyGarbled` per statement of it, `QueryEnd`,
`handle_parse`, `handle_bind`, `handle_describe`, `handle_execute`,
`handle_close`, `Sync`, `Malformed`, `Disconnect`. Statements are operators
from a session to the set of its possible results (`txn_begin`,
`commit_taken_txn`, `txn_rollback_to`, `stmt_set_guc` ...), so the two
protocols share them as they do in the code.

*Abstractions.* A transaction has a number of staged writes; a setting is at
its default or set. Five settings stand for the kinds the code treats apart
(`Covers` says which fields a SET changes). `client`, constant in a
behaviour, is the workload.

### SequenceObjects

*State.* `versions` is the name's entry in `Database.sequences`, `advanced`
says whether the name is in `seq_advanced`; `log` and `image` are the records
and the checkpoint. `issued` is history: the values nextval returned since the
position was last moved otherwise.

*Actions.* `txn_execute`, `autocommit_execute` (nextval, setval, CREATE,
ALTER, DROP, and a statement that fails after its nextval),
`copy_from_ingest`, `Begin`, `Commit`, `CommitRefused`, `txn_rollback`,
`txn_savepoint`, `txn_rollback_to`, `checkpoint`, `Crash`. `sequence_params`,
`seq_nextval` and the rest are the functions of seq.rs with bigint and smallint
shrunk to `IntMax` and `SmallMax`. Undo, commit records and replay go through
their lists in the order of the code, as recursive functions (`undo_all`,
`records_for_commit`, `Replayed`).

### ForeignKeys

*State.* `rows` are both tables' versions, `txn` the blocks with sub-xids,
write log and marks, `deferred` the queue and mode of each session; `fk` is
the constraint, chosen once.

*Actions.* `txn_execute` and `autocommit_execute` (INSERT, UPDATE, DELETE of a
parent or a child, SET CONSTRAINTS), `copy_from_ingest`, `Commit`,
`CommitRejected` and `CommitFails` (the flush fires the queue, an error of it
rolls back; then the log may refuse the commit, which hands the block back
failed with its queue already gone), `txn_rollback`, savepoints. A statement
plans and applies the referential action in its step, as the code does.

The parent's key is its primary key: `unique_violation` checks it at the
statement, where versions the block has removed itself do not count, so a block
may give a removed key to a new row; `CommitConflict` checks it again against
what has committed by then. The database starts with a parent and a child for
each key of `Loaded`.

*Abstractions.* A row is its key; row locks are `Mvcc`'s business, and the log
is only asked whether it takes the commit.

The constant `Quirks` of `Session`, `SequenceObjects` and `ForeignKeys` names
client behaviour under which the code departs from the properties. The runs
leave those out (`Session` keeps one in), so that the properties say what holds
for everybody else; each quirk is in the table of section 5. Three quirks of
`ForeignKeys` are there for the sake of the proofs or of one property only, and
the run has them on: `"restore"` (a block gives a removed parent key to a new
row), `"race"` (two sessions give one key to a parent each) and `"rekey"` (a
parent key moves while its check is postponed).

## 3. The runs

| Run | Expect | What it shows |
|---|---|---|
| `mvcc_savepoints` | pass | two sessions, savepoints two deep, locks, unlocked updates, logs in which both sessions stamp one version in turn: `XidOwnership`, `LockTable`, `SavepointMarks`, `AbortedLeaveNoVersion`, `UndoAgrees` |
| `mvcc_locked` | pass | writers that lock first, with savepoints: `SnapshotStable`, `LockedRowStaysLive`, `CommitTakesEffect`, `RollbackKeepsLiveRows` |
| `mvcc_durable` | pass | the same with a unique index, autocommit, failures, checkpoints and restarts: `TypeOK` (no xid of a row version at or above its counter), `OneLiveVersionPerKey`, `RecoveryMatchesMemory`, and `Mvcc` implements `AtomicStore` |
| `wal_crash` | pass | crashes, torn frames, failed writes and failed checkpoints: `Wal` implements `DurableLog`, `LsnMatchesFile`, `LsnNeverRegresses` |
| `wal_failing_disk` | pass | failing fsyncs and a failing reset as well: `AckedOnce` |
| `repl_slots` | pass | two connections, failing slot records and a crash: `ActiveHasOneStream`, `SlotCatalogDurable`, `DurablePositionMonotone` |
| `repl_stream` | pass | one walsender with network faults, a checkpoint and a crash, fair: `StreamFaithful` (no gap, in order, once), `StreamCatchesUp`, `SlotCatalogDurable` |
| `session` | pass | four workloads: `TypeOK` (with the nesting of marks), `BlockBoundary`, `SettingsAtEnd`, `RollbackToRestores`, `ErrorsAbort` |
| `sequences` | pass | DDL, savepoints, autocommit, checkpoint, crash: `NeverTwice`, `RecoveryMatches`, `ValueInBounds`, `UndoRestores`, `TypeOK` (with one live version) |
| `foreign_keys` | pass | two definitions of the constraint, keys given back, raced for and moved, refused commits: `FkHolds`, `QueueHoldsPostponed`, `NoFalseReject`, `FlushSparesParented` |
| `savepoint_not_durable` | violation | a row written inside a savepoint scope is published but not logged |
| `wal_append_behind_torn_tail` | violation | commits after a restart are lost by the next one |

Each property of a passing run has a mutant in `PROJECT.json`: a plausible slip
in the code (a lock check dropped, a drain one too late, VACUUM ignoring
snapshots, a directory fsync forgotten, a stream resumed at restart_lsn, a
settings stack undone oldest first, a DROP not replayed, a queue cut to
nothing ...) under which TLC finds the property violated with the same
configuration.

### Bounds, and why they are enough

*Mvcc.* Two sessions, because every promise is about one transaction and one
other; symmetric, so TLC takes them up to renaming. `MaxXid` 4 or 5: the
initial rows have xid 1, which leaves three or four transactions or savepoint
scopes, enough for a writer, a second writer, and a transaction that starts
after either has ended. `MaxRow` 3: an initial version and two successors.
`MaxWrites` 2: the shortest log that has an order. In `mvcc_savepoints` the
order must matter, and undo restores an xmax in the wrong order only where a
block stamps one version twice with somebody else's stamp in between; each such
UPDATE makes a version, so `MaxRow` is 4 there. That run is at REPEATABLE READ
only, to pay for it: snapshots are registered at that level, and the run's
properties are proved for both. `MaxSavepoints` 2 where the marks are the
question (an inner scope can be released or rolled back over), 1 in
`mvcc_locked`; any depth is covered by the proofs.

*Wal.* Four batches and three checkpoints: a batch before, between and after
two checkpoints and one more to be lost or kept.

*Replication.* `MaxLsn` 4 and two data frames: a create record, two changes
that can be confirmed apart, and a flush. Two connections on one slot in
`repl_slots`; slots do not interact. No checkpoint there, since a failed append
with a checkpoint before its undo is a row of section 5. A crash at any point.
One checkpoint as well as a crash in `repl_stream`, in either order and at any point of a stream.

*Session.* Each workload is one kind of interaction (messages and portals;
settings; characteristics; cursors), since those share the block but not each
other's state. Three statements per message: before, at, and after the one that
ends the block. Two savepoint names and a depth of two: an inner scope of the
same or another name. A settings stack of three: SET, SET LOCAL, and one inside
the scope.

*SequenceObjects.* bigint is -5 .. 4 and smallint -4 .. 3, so that every bound,
wrap and overflow is a few steps away. The server starts with no sequence
or with one in the checkpoint file; three statements are then an alter and two
draws around a rollback or crash.

*ForeignKeys.* Two keys, and four row versions: a parent and its child to start
with, and two more, which is what it takes to remove a key and give it back, to
move it and back, or to write a child and another parent. With the parent and
the child loaded, three statements are enough for both branches of `fire_parent`,
the key gone or back on another row (one statement removes it, one gives it back,
one is left for SET CONSTRAINTS or the other session), and for a child that is
written before or after. One savepoint; the two definitions differ in their
initial mode, which SET CONSTRAINTS turns into the other, and between them do all
that an action does: refuse, remove the children, move them, set them to null.

Deadlock is checked for `Mvcc`, `Wal` and `Replication`: no statement blocks
(conflicts fail with 40001), so some session can always take a step. In the
other modules a behaviour simply ends when the statement bound is used up or,
in `Session`, can only go on by disconnecting, so it is not checked there.

### Fairness

`Replication!FairSpec` assumes weak fairness of each walsender's own steps, and
of nothing else: not of the consumer, of commits or of DDL. The code justifies
it. The thread loops without waiting for anything unbounded: a mutex is never
held across a socket operation, and the read between two polls returns after
`POLL_INTERVAL`. `StreamCatchesUp` follows: a committed frame is sent unless
the stream ends or a checkpoint removes the frame. No other component waits for
anything (a lock conflict is an error, not a queue), so no other liveness is
stated.

## 4. What is proved

All theorems hold for every value of the constants; they rest on the modules'
assumptions (`ConstantsAssumption`, `WalAssumption`, `ReplicationAssumption`,
`SessionAssumption`, `SequencesAssumption`, `ForeignKeysAssumption`) and on the
hypotheses named below, which are those of the runs, two of the foreign keys' excepted.

### The engine

`MvccProofs` proves, without further hypotheses:

* `XidsOwned`: the active set is the disjoint union of the open transactions'
  xids, and the registry holds exactly their pinned snapshots.
* `MarksInRange`: invariant I2 of `docs/adr/0001-embedded-api.md`, extended to
  locks and sub-xids. The marks of the savepoint stack never point past the
  lists they cut, and grow along the stack.

The two are proved by one induction (`Invariance`) over `IInv`, their conjunction
with the fields' types (`FieldTypes`), because none is inductive alone. ROLLBACK TO leaves the write log a
sequence because the marks are in range; the marks stay in range while another
session's locks are cut because no two sessions share an xid; and a fresh xid
is not owned because active xids are below `next_xid`. Each action needs a few
facts about ownership (`OwnedStatement`, `OwnedBegin`, `OwnedScope`,
`OwnedRetire`) and about marks (`MarksGrow`, `MarksPush`, `MarksCut`,
`MarksPop`).

The second part of `MvccProofs` proves `NothingAbortedRemains`: nothing that ROLLBACK,
ROLLBACK TO, a failed autocommit statement or a crash aborted leaves a row
version, in memory or on disk. The invariant `AInv` says that tables and disk
carry only xids that were handed out and not aborted (`Clean`), and for each
transaction that its write log can undo it (`Undoable`): sub-xids grow along
the stack (`Scopes`), every version it created is in the log and the ops below
a savepoint's mark have xids below the savepoint's (`Logged`), and none of its
xids is aborted (`Unaborted`). `Logged` is the heart of it: ROLLBACK TO cuts
the log at a *position* and aborts a range of *xids*, and it is what makes the
two the same set.

The third part starts with `LocksAgree`, again for every client: the lock
table and the per-transaction lock lists describe the same locks. The other
theorems of the part assume that blocks lock the rows they write
(`"unlocked"` is not in `Client`):

* `LockedRowsKept`: a row held FOR UPDATE stays live until its holder ends.
* `CommitsInstalled`: COMMIT takes effect as a whole.
* `SnapshotsStable`: a pinned snapshot changes by its own transaction only.

They rest on the invariant `SInv` (`BlocksApart`), which says for each open
transaction (`TInv`) how stamps, log and locks fit together. Every version it
stamped is in its log, and is its own or one it locked *before* any savepoint
that keeps the op (`Stamps`, `Guarded`), so ROLLBACK TO never gives up the lock
of a stamp that stays. Nobody else stamps what it created (`OwnOnly`). An op
overwrote no stamp, so that undoing it puts back 0 (`OpsHold`), and no version
is stamped or created twice (`OpsApart`). And no pinned snapshot takes a
running transaction for a committed one (`PinnedOK`). The proof is about what a
step does to the versions that carry one transaction's xids: `Wrote`, `Undone`,
`Vacuumed` describe the four ways the table changes, and each is *foreign* to
every other open transaction. `WritableClean` is the lemma where the code's
checks meet: a row that passes visibility, the conflict check and the lock check
carries no stamp of anybody who still runs.

`MvccStoreProofs` proves that memory and disk agree (`RecoveryExact`), that
nothing that fails changes a live row (`RollbackRestores`), and that `Mvcc`
implements `AtomicStore` (`EngineIsAtomicStore`). For the first and the last,
blocks lock what they write, take no savepoint and do not update a version of
their own; section 5 shows what the code loses without each of them.
`RollbackRestores` needs the last two only where restarts happen, and the
refinement needs the initial rows to fit in `MaxRow`, as rows beyond it are
unknown to the abstract store. The invariant `DInv` adds that transactions are
plain (`Plain`), so that `records_for_commit` keeps every op and `apply_record`
finds every version it names (`EveryOpReplays`), and that disk has the live
versions of the table, live, and no version of a running transaction
(`OnDisk`).

`UniqueKeys` is the promise of a unique index: never two live versions of a
key. Hypotheses: blocks lock what they write, UPDATE does not change the key
(section 5: two that do can both commit), no savepoints (the recheck at commit
knows the top-level xid only) and, where restarts happen, no update of an own
version. In `UInv` an open transaction has at most one unstamped version of a
key (`OneTip`), and it has one only of a key that it inserted, which COMMIT
checks again, or took over from the version it had locked (`Rooted`).

`UndoIsOpByOp` has no hypothesis: the closed form `undo_all` is what
`undo_write_op` makes of the table, newest op first, for every suffix of every
reachable log. `UndoneAfter` is the closed form part of the way through the log
and `UndoneNext` takes it one op further. That the two agree depends on the log,
not on the operators: the xmax an op overwrote must not be one of the
transaction's own (`Foreign` in `OInv`), else an older op would find a stamp to
give back that a newer one has just restored. It holds because a version the
transaction stamped is not visible to it, and because every xmax in memory and on
disk is older than the counter from which later sub-xids come (`Older`).

`TypeCorrect`, without hypotheses either, is the type invariant: besides the
fields' types, no row version carries an xmin or xmax at or above `next_xid`, in
memory or, against the counter a restart would resume from, on disk, and that
counter is not ahead of the running one (`XidsHandedOut`). It needs `AInv` for
the xmins and `OInv` for the xmaxs: an undo writes back an xmax that its op had
read from the table, so the logs have to be bounded as well (`Foreign`).

### The log

`WalProofs` proves that the two files implement the abstract log
(`WalImplementsLog`), that an acknowledged batch is there exactly once
(`AckedExactlyOnce`), that LSNs agree with the file (`LsnAgrees`) and never go
back (`LsnMonotone`), and `WalTypeCorrect`. Hypotheses: `"sync"` and `"reset"`
are not among the faults and `AppendBehindJunk` is FALSE.

The invariant `WInv` describes what would survive. `Stable` is the part of the
log a crash leaves in place: the fsynced frames, or none while a reset of the
log is not fsynced. Beyond it is at most the frame being appended, or a torn
one (`Beyond`). The fsynced log makes up `db` with *either* checkpoint file
that may survive (`SyncedLog`); while a reset is not fsynced either checkpoint
has everything (`SeenLog`); and how far a checkpoint has got says which
(`Checkpointing`). `SurvivorIs` shows that a crash leaves one of a handful of
files and `SurvivorReplay` that each of them replays to `db`, or to `db` and
the batch in flight. That is the refinement. `AckedExactlyOnce` then follows
from the abstract log alone: batches are numbered as submitted, so the one in
flight is larger than all that are there.

### Replication

`ReplicationProofs` proves six theorems, for any number of connections, slots,
commits, checkpoints and crashes. `Types` and `InOrder` (one stream neither
repeats nor reorders) have no hypothesis. `DurablePositions` assumes that DDL on
one slot does not overlap (`OverlappingDDL` is FALSE). `SlotsDurable` and
`Faithful` assume that and also that no append fails or no checkpoint comes: a
checkpoint between a failed append and its undo is in the table of section 5.
`OneWalsender` assumes no overlapping DDL and that the CopyBoth response can be
sent (`"startup"` is not among the faults), which only the direction "an active
slot is streamed" needs. The invariants build on each other:

* `RInv` (one walsender): an active slot exists, so the cleanup finds it; a slot
  whose CREATE may be undone is in nobody's hands and nobody is about to start
  it; a slot whose DROP may be undone is away and comes back inactive; no two
  DDL commands are about one slot. Most steps are `Quiet`: they change no
  slot's `active` and no connection's phase.
* `TInv` (types): with the shapes, no position of a slot, a connection, a frame,
  the image or the replayed catalog lies beyond the end of the log.
* `PInv` (positions): every position replay may use (`Low`: the replayed one, and
  those of flush records under way) is at most every position the catalog holds
  or an undo would restore (`Top`).
* `CInv` (catalog): a slot outside a command is there exactly when replay has it;
  inside a window that an undo may end, replay has what the undo restores.
* `OInv` (order): what a stream has sent is increasing and below its position.
* `GInv` (gaps): nothing is missing below any position a slot is at, was at, or
  may yet be put back to (`Mark`: what the consumer has received, what the
  catalog, the replayed catalog and every record under way confirm, and, where
  there is a slot, the beginning of the log). The other half is `WInv`: what is
  on its way to the consumer, and what the stream reads next, leave no gap
  behind what the consumer has had. `Logged` (the data frames in the log are the
  commits not lost) and `Rest` (a connection between commands has no position)
  complete it. A covered position stays covered (`ReachKept`), since changes are
  only added at the end of the log and a new slot starts there.

What the folds of the model compute, replay of slot records (`Replayed`) and the
lines of a batch (`Lines`), is used through the lemmas `ReplayedAppend` and
`LinesAre`, which prove what one more frame does.

### The session

`SessionProofs` proves five theorems, for every set of workloads and every
bound. `Types`, `Boundaries` and `Errors` have no hypothesis: they hold for
every quirk. `Settings` assumes that no setting is SET after it was SET LOCAL
(`"set_after_local"`), `Rollbacks` that no cursor older than the innermost
savepoint is closed (`"redeclare"`), and both that no custom setting is reset by
RESET ALL in a block (`"reset_custom"`): these are rows of the table of section 5.
The quirk of the run, a commit that fails, is in all five.

The invariant is `SInv`: `Good(session, client)`, and the shapes of the message
in progress (`QueryGood`) and of the portal (`PortalGood`). `Good` is

* `Core`: the types; a closed transaction has left nothing (`Bounded`); the marks
  of the savepoints are nested positions inside the logs they cut (`Nested`);
  what crosses the end of a block (`AtBoundary`); an error that must abort has
  failed the transaction and is held by no mark (`ErrorsFail`); a mark knows
  exactly the cursors declared before it (`CursorsMarked`).
* `SettingsUndo`, without which the settings theorems are not inductive. The
  stack of settings is read from each moment a transaction may go back to, its
  marks and the present one (`Moments`): undoing the entries below it gives the
  settings before the block (`AbortUndoes`), undoing only the local ones gives
  the settings the surviving SETs asked for (`CommitUndoes`), and undoing the
  entries down to an earlier mark gives that mark's (`MarkUndoes`). All three
  are `Undoes`, which says this without a recursion: for each field, the oldest
  entry that saved it holds the value to come back, and where none did the
  present value is right already.

`RestoredGoal` connects `Undoes` with `Restored`, the recursive function the
model computes with: by the least number of undone entries at which it would
fail, since induction theorems are out of reach. The lemmas on `Undoes` then say
what a push, a cut at a mark and a release do to it. `StmtGood` proves that every
statement takes a good session to good ones and that its results are right
(`StmtRel`: commits commit no error, endings leave the right settings, rewinds
restore the mark); each message of both protocols adds only its own bookkeeping
(`StepGood`).

### Sequences

`SequenceProofs` is about one sequence under any number of sessions, options,
savepoints, checkpoints and crashes. Its theorems assume `Orderly`: no quirk of
the table of section 5 but `"shrink"` and `"copy"`.

* `SequenceTypes`: at most one version is live for any session, and positions
  stay 64-bit integers.
* `NextvalInBounds`: the next value is within the bounds, without `"shrink"`.
* `RestartMatches`: a restart shows the sequence the committed transactions made.
* `UndoBringsBack`: ROLLBACK and ROLLBACK TO restore what the undone DDL replaced.
* `NextvalNeverTwice`: nextval repeats no value until the sequence is repositioned,
  without `"copy"` (`Exact`).

The invariant `SInv` says

* who may change the sequence: one block at a time has DDL in its write log
  (`Solo`), and a pinned snapshot shows what a new one would
  (`SnapshotsFresh`);
* the versions (`Shape`): each is sound (parameters, and with them the position
  unless `"shrink"`), made by an ended transaction or by the block with the DDL,
  and at most one is live and at most one is shown to the others;
* the write log of that block (`LogGood`): its DDL begins with the version it
  found and goes on with its own, which is what makes a position of the log an
  exact description of the versions (`After`): the last DDL done says what is
  live, the first what the others still see;
* the files (`FilesGood`), and that replaying them gives versions of the same
  shape that show what memory shows to everyone (`Rebuilt`).

Undo goes back along the log one op at a time (`UndoNext`), each step landing on
the versions `After` one op less; what the oldest undone DDL had found is then
there again. A commit appends the records of its ops, and replay of them is
followed op by op as well (`Committed`): after the records of n ops the rebuilt
versions are those that the ops had made by then, so far as anyone can see them.
A checkpoint keeps the versions shown to the ended transactions, which are the
rebuilt ones. What the recursive functions compute is used through lemmas that
unfold one element (`UndoExists`, `RecordsExist`, `ReplayExists`,
`PickedLists`), proved from the least place where they could fail.

For `NextvalNeverTwice` the invariant `PInv` relates the position of every version,
wherever it is kept, to the history of what nextval has returned: the live version
has gone past all of it (`AllPast`); so has every version that an undo may put
back, but for what the transaction it would undo has drawn itself, which undo adds
by keeping the position it finds (`LogPast`); what an open block has drawn is
marked in its write log (`Marked`), so that its commit writes a record of the
position, with which the version rebuilt from the files goes past all that
committed transactions hold (`SettledPast`). A crash forgets the rest.

### Foreign keys

`ForeignKeyProofs` (types, and what a transaction leaves behind) and
`ForeignKeyCoverProofs` (referential integrity) prove, for every foreign key and any
number of sessions, keys, rows and savepoints:

* `TypesHold`: the type invariant of `ForeignKeys`, under every quirk;
* `ReferencesHold` (`FkHolds`): no committed child without a parent, when
  `"overlap"`, `"sub"`, `"immediate"`, `"refused"`, `"restore"` and `"race"` are
  off (`"rekey"` and `"copy"` may be on);
* `PostponedIsQueued` (`QueueHoldsPostponed`): what dangles in a block's own view
  has an entry in its queue, and the queue is empty between transactions; `"copy"`
  off as well, the only way in which something is left behind
  (`NothingIsLeftOver`, which needs no other hypothesis).

Each quirk that is assumed off has a violation in section 5, but for `"restore"`
and `"race"`: the run `foreign_keys` has these two on and finds nothing, the
proof leaves them out. Its invariant counts on a key having one row that may
still matter (`Fine`, `Postponed`), where with them it has several.

The invariant `XInv` gives the shapes (`Shape`: a queued check of a parent names a
row), the savepoint stack (`Scoped`: a sub-xid and a mark for each savepoint, both
growing along the stack) and who owns which xid (`Owned`). What the recursive
functions of the model do, undo of a write log (`UndoRun`), a cascade
(`CascadeRun`) and the firing of a queue (`FlushRun`), is used through lemmas that
unfold one element; `CountUp` is the induction they share. A statement only
appends versions and stamps old ones (`Grown`), which is what keeps queued row
ids and write logs meaningful while other entries fire.

`FkHolds` says nothing of what running transactions may still do, so `FkInv` adds
to `XInv` what is `Kept` at every step, for all open transactions at once:

* every child that is an orphan in a transaction's view is looked at by an entry
  of its queue (`Cover`), and after ROLLBACK TO any of its savepoints it would
  still be, by the queue cut at the savepoint's mark (`LevelCover`); for a new
  snapshot nothing covers, which is `FkHolds`;
* the write log past each savepoint's mark names exactly the versions created or
  stamped by the xids of that scope (`Logged`), which is what makes undo the same
  as purging those xids from the rows (`UndoIsPurge`);
* a queued parent is a row the transaction itself removed, one entry a key
  (`Postponed`), and once there are sub-xids the parents and the removals of their
  children belong to the top-level xid (`TopOnly`), which the checks see;
* among transactions (`Fine`): a key has one live parent, only the transaction that
  removes a key writes its children, and nobody stamps what another open
  transaction created.

A statement, a cascade and a firing are followed write by write under this
(`Running`); a flush leaves nothing covered by the entries it has consumed
(`RunFlush`). A commit turns the transaction's view into everyone's
(`RestCommitted`): another view could only lose a parent it relies on if both had
written the key, which `Fine` excludes. Autocommit and COPY are the same steps
with a transaction begun for the statement (`Lent`), so they are BEGIN, the
statement, and COMMIT or ROLLBACK in one.

### Only model-checked

* `NoFalseReject` and `FlushSparesParented` of `ForeignKeys`: they compare the view
  in which a COMMIT begins its flush with what the flush refuses or leaves behind;
  `FkInv` speaks of what is covered, not of what is spared. Also only
  model-checked are `FkHolds` and `QueueHoldsPostponed` for blocks that give a key
  back and for sessions that race for one (`"restore"`, `"race"`).
* Liveness (`StreamCatchesUp`), which is out of the prover's reach, as is what a
  recursive definition computes on every input.

## 5. Where code and documents disagree

The two *violation* runs are findings in `PROJECT.json`, each with the sentence
it contradicts. The same modules show the following as well; take the run's
configuration, change the constants as given, and check the property.

| What happens | Property | Run and constants |
|---|---|---|
| Undo puts back the `xmax` it found, whose transaction has rolled back meanwhile (`storage.rs:8858`, against the comment at `storage.rs:7695`): a live row is gone | `RollbackKeepsLiveRows` | `mvcc_locked`, `Client` with `"unlocked"` |
| A DELETE whose stamp was overwritten commits while the row stays live (`recovery.rs:1286`: "the row stays deleted") | `CommitTakesEffect` | the same |
| FOR UPDATE locks a row that an open transaction has deleted (`storage.rs:7638`, `README.md:748`) | `LockedRowStaysLive`, `SnapshotStable` | the same |
| Two concurrent UPDATEs of a row both commit; replay skips the missing old version (`recovery.rs:1334`; `README.md:828`: "the first committer gets 40001 rather than silently duplicating the row") | `OneLiveVersionPerKey` (add to the cfg) | the same |
| Two UPDATEs in one block are merged into one record, which replay reads differently (`recovery.rs:663`, `:1370`; `wal/mod.rs:22`: "identical visibility") | `RecoveryMatchesMemory` | `savepoint_not_durable`, `Client = {"update", "lock", "reupdate"}` |
| Two UPDATEs that move different rows to one unique key both commit (`recovery.rs:1321`, `README.md:406`) | `OneLiveVersionPerKey` | `mvcc_durable`, `Key = {a, b, c}`, `InitKeys = {a, b}`, `MaxRow = 4`, `Client = {"update", "lock", "rekey"}` |
| After a failed write a later batch is appended behind the torn frame and lost by the next restart (`writer.rs:415`) | `AckedSurvive` | `wal_append_behind_torn_tail`, `Faults = {"crash", "write"}` |
| After a failed fsync the refused batch is replayed, under a sequence number used again (`writer.rs:418`; `README.md:885`: "A failed WAL write never becomes visible.") | `RefusedNeverVisible`, `AppliedOnce` | the same, `Faults = {"crash", "sync"}` |
| The header cannot be written after the truncation: commits go to a log without one (`writer.rs:1089`) | `AckedSurvive` | the same, `Faults = {"crash", "reset"}`, `CHECK_DEADLOCK FALSE` |
| The CopyBoth response cannot be sent: the slot stays active for good (`repl.rs:649`, against `repl.rs:608`: "EVERY exit path" and `README.md:450`) | `ActiveHasOneStream` | `repl_slots`, `Faults = {"startup"}` |
| DROP of a slot whose CREATE is not yet logged: the records are in the wrong order (`repl.rs:313`, `:359`) | `SlotCatalogDurable` | `repl_slots`, `OverlappingDDL = TRUE`, `Faults = {}` |
| A checkpoint between a failed append and its undo stores the slot that is then undone (`repl.rs:313`) | `SlotCatalogDurable` | `repl_slots`, `MaxCheckpoints = 1` |
| A checkpoint truncates what a slot still needs (`writer.rs:1088`, against the "WAL retention floor" of `storage.rs:6259`) | `RetentionFloor` | `repl_stream` |
| An error inside COPY in an implicit block does not abort it, the handler having returned Ok (`server.rs:1353`) | `AnyErrorAborts` | `session`, `Clients <- CopyClients` |
| SET after SET LOCAL in one block is undone at its end | `SettingsAtEnd` | `session`, `Quirks = {"set_after_local"}` |
| A cursor closed and declared again after a savepoint is not the old one after ROLLBACK TO | `RollbackToRestores` | `session`, `Quirks = {"redeclare"}` |
| RESET of a custom setting is not undone by ROLLBACK | `SettingsAtEnd` | `session`, `Quirks = {"reset_custom"}`, `Clients <- CustomClients` |
| Overlapping transactions write one sequence's versions | `NeverTwice`, `TypeOK`, `RecoveryMatches`, `UndoRestores` | `sequences`, `Quirks = {"overlap"}` |
| Replay of ALTER SEQUENCE leaves the old version live (`recovery.rs:1084`) | `TypeOK`, `RecoveryMatches` | `sequences`, `Quirks = {"alter"}` |
| COPY FROM draws values without marking the sequence advanced (`server.rs:1643`) | `NeverTwice` | `sequences`, `Quirks = {"copy"}` |
| ALTER moves a bound past the position: the next value is outside (`seq.rs:515`) | `ValueInBounds` | `sequences`, `Quirks = {"shrink"}`, `AlterOpts <- ShrinkingAlters` |
| A block that creates, drops and creates a sequence, or commits two versions of it: undo and replay find a version by its `created_xmin`, which they share | `RecoveryMatches`; `TypeOK` | `sequences`, `Quirks = {"recreate"}`; `{"twice"}` |
| One open block writes children while another removes their parent's key (`constraint.rs:785`) | `FkHolds`, `QueueHoldsPostponed` | `foreign_keys`, `Quirks = {"overlap"}` |
| Rows written inside a savepoint scope have a sub-xid the check does not know (`constraint.rs:785`) | `FkHolds`, `QueueHoldsPostponed`, `NoFalseReject` | `foreign_keys`, `Quirks = {"sub"}` |
| SET CONSTRAINTS IMMEDIATE after a savepoint empties the queue the savepoint's mark points into; a later ROLLBACK TO cuts it at a stale length (`deferred.rs:344`) | `FkHolds`, `QueueHoldsPostponed` | `foreign_keys`, `Quirks = {"immediate"}` |
| COMMIT flushes the queue and is then refused by the log (`server.rs:5058`, `:5076`): a ROLLBACK TO revives the block and brings a dangling child back, whose check is gone | `FkHolds`, `QueueHoldsPostponed` | `foreign_keys`, `Quirks = {"refused"}` |
| A parent key updated while the constraint is deferred: the postponed action looks the row up by the id of its old version and applies ON DELETE to the children (`deferred.rs:594`, against the comment at `:591`: "still present (an UPDATE moved the key) or gone (a DELETE)") | `RekeyKeepsChildren` (add to the cfg) | `foreign_keys` as it is |
| COPY FROM leaves the checks it queued behind when it fails (`server.rs:1775`) | `QueueHoldsPostponed` | `foreign_keys`, `Quirks = {"copy"}` |

Noted while reading, where the model follows the code and no property separates
the two:

* `docs/adr/0001-embedded-api.md:254` says a failed COMMIT goes to Idle with
  the writes undone. The code hands the block back failed and waits for
  ROLLBACK (`server.rs:5058`); its xid stays active, so nothing shows until
  then. An implicit block whose commit fails is left open in the same way.
* Errors of the simple protocol that do not come from the executor (SET, an
  unknown savepoint, DECLARE outside a block) do not mark an explicit block
  failed; the model calls them "utility".
* A COPY FROM whose rows do not parse rolls an explicit block back as a whole.
* Suspended portals survive the end of their transaction; a WITH HOLD cursor
  that was not fetched runs its query after COMMIT; ROLLBACK closes also WITH
  HOLD cursors of earlier transactions.
* The keepalive reports the end of the log, which may lie beyond frames not yet
  sent (`repl.rs:787`); a client that confirmed it would lose them.
* CYCLE at the largest bigint fails instead of wrapping (`seq.rs`,
  `checked_add`), and BEGIN; DROP SEQUENCE; CREATE SEQUENCE; COMMIT of the same
  name is always refused.

## 6. What is not modelled, and the plan

Not modelled, because there is no state to get wrong or no bound to put on it:
parser, expression evaluation and SQL functions, date and number formatting,
planner and aggregates, wire framing, byte encodings, privileges. They are most
of the source by lines, which is why the map covers a few per cent of it; the
modules cover the parts in which order and failure matter.

Not modelled within the modelled components: catalog versions other than rows
and sequences, SKIP LOCKED, ON CONFLICT and MERGE, SQL functions on slots,
decoding a frame to text, cursor positions, named statements and portals,
currval and OWNED BY, deferred UNIQUE, constraint triggers, multi-column and
MATCH FULL keys, partitions.

Next, most important first:

1. CREATE and DROP TABLE as versions in `Mvcc`, racing with DML and CHECKPOINT.
2. Composition of `Mvcc` with `Wal`, so that `disk` is derived from the files.
3. Deferred UNIQUE and constraint triggers beside `ForeignKeys`.
4. The cursor window of FETCH and MOVE against a reference definition.
5. Proofs: `NoFalseReject` and `FlushSparesParented` of `ForeignKeys`, its other
   theorems with `"restore"` and `"race"`, and `AckedOnce` of `Wal` when fsyncs fail.
