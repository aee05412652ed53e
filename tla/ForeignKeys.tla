----------------------------- MODULE ForeignKeys -----------------------------
(***************************************************************************)
(* A deferrable foreign key from table child to table parent: the checks     *)
(* and referential actions of exec/constraint.rs, the queue of postponed     *)
(* checks of exec/deferred.rs, SET CONSTRAINTS, and how the server fires,    *)
(* truncates and clears the queue at COMMIT, ROLLBACK TO and the end of a    *)
(* transaction (server.rs).                                                  *)
(*                                                                         *)
(* A row is its key: the referenced key of a parent, the referencing key of  *)
(* a child.  Versions, xids and sub-xids are those of Mvcc.tla; blocks run   *)
(* at READ COMMITTED, row locks are left out, and of the log only that it may   *)
(* refuse a commit.  A statement changes one row and what the foreign key      *)
(* adds to it.                                                               *)
(***************************************************************************)
EXTENDS Integers, Sequences, FiniteSets, SequencesExt, FiniteSetsExt

CONSTANTS
    Sessions,
    Keys,               \* key values, positive integers
    Loaded,             \* the keys that start with a parent and a child
    Constraints,        \* the definitions the foreign key may have
    Quirks,             \* subset of AllQuirks
    MaxXid,             \* bound on xids handed out
    MaxRows,            \* bound on row versions
    MaxSavepoints,      \* bound on the depth of the savepoint stack
    MaxStatements       \* bound on the statements the clients send

(***************************************************************************)
(* What clients do beyond the rest.  Under these the code departs from        *)
(* FkHolds or QueueHoldsPostponed:                                          *)
(* "overlap"    one open block writes children while another removes keys    *)
(* "sub"        after a savepoint a block writes parents, or children whose  *)
(*              parents it has removed                                       *)
(* "immediate"  SET CONSTRAINTS IMMEDIATE while a savepoint is set           *)
(* "copy"       COPY FROM fails after it queued a check                      *)
(* "refused"    COMMIT is refused by the log while a savepoint is set         *)
(* Under these it does not, though "rekey" breaks RekeyKeepsChildren:         *)
(* "rekey"      a parent key is updated while the constraint is deferred     *)
(* "restore"    a block gives a parent key that it removed to a new row       *)
(* "race"       two open blocks, or a block and a statement, give one key to  *)
(*              a parent each                                               *)
(***************************************************************************)
AllQuirks == {"overlap", "sub", "immediate", "rekey", "copy", "refused", "restore", "race"}
Actions == {"restrict", "cascade", "set null"}

ASSUME ForeignKeysAssumption ==
    /\ Keys \subseteq Nat \ {0}
    /\ Loaded \subseteq Keys /\ IsFiniteSet(Loaded)
    /\ Constraints \subseteq
          [initially_deferred : BOOLEAN, on_delete : Actions, on_update : Actions]
    /\ Quirks \subseteq AllQuirks
    /\ MaxXid \in Nat /\ MaxRows \in Nat /\ MaxSavepoints \in Nat /\ MaxStatements \in Nat

VARIABLES
    fk,             \* the DEFERRABLE foreign key: FkDef, never altered
    rows,           \* both tables' versions by row id; NoRow where undone
    next_xid,       \* TxnManager.next_xid
    active,         \* TxnManager.active
    txn,            \* Session.txn of every session
    deferred,       \* Engine.deferred_fk of every session
    statements

vars == <<fk, rows, next_xid, active, txn, deferred, statements>>

-----------------------------------------------------------------------------
(* Versions, transactions and the deferred state. *)

Null == 0
Row(table, key, xid) == [table |-> table, key |-> key, xmin |-> xid, xmax |-> 0]
NoRow == [table |-> "none", key |-> Null, xmin |-> 0, xmax |-> 0]

NoTxn == [xid |-> 0, sub_xids |-> <<>>, owned_xids |-> {}, writes |-> <<>>,
          saves |-> <<>>, failed |-> FALSE, deletes |-> FALSE]
InTxn(s) == txn[s].xid # 0
write_xid(t) == IF t.sub_xids = <<>> THEN t.xid ELSE Last(t.sub_xids)
all_xids(t) == {t.xid} \cup t.owned_xids

Default == [queue |-> <<>>, modes |-> <<>>]     \* no entry in the map

Committed(xid, snap) == xid < snap.next_xid /\ xid \notin snap.active
row_visible(r, snap, owns) ==
    /\ r.table # "none"
    /\ r.xmin \in owns \/ Committed(r.xmin, snap)
    /\ r.xmax # 0 => r.xmax \notin owns /\ ~Committed(r.xmax, snap)

Fresh == [next_xid |-> next_xid, active |-> active]

(* What a statement runs under: StmtCtx. *)
Ctx(t, snap) == [own |-> t.xid, owns |-> all_xids(t), write_xid |-> write_xid(t), snap |-> snap]
TxnCtx(s) == Ctx(txn[s], Fresh)
AutoCtx == Ctx([NoTxn EXCEPT !.xid = next_xid],
               [next_xid |-> next_xid + 1, active |-> active \cup {next_xid}])

(* The statement's working state: the rows, its write ops, its deferred state. *)
Start(d) == [ok |-> TRUE, rows |-> rows, ops |-> <<>>, queue |-> d.queue, modes |-> d.modes]
Fail(st) == [st EXCEPT !.ok = FALSE]

Delete(st, c, id) ==
    [st EXCEPT !.rows[id].xmax = c.write_xid,
               !.ops = Append(@, [old |-> id, new |-> 0, prev |-> st.rows[id].xmax])]
Insert(st, c, table, key) ==
    [st EXCEPT !.rows = Append(@, Row(table, key, c.write_xid)),
               !.ops = Append(@, [old |-> 0, new |-> Len(st.rows) + 1, prev |-> 0])]
Update(st, c, id, key) ==
    [st EXCEPT !.rows = Append([@ EXCEPT ![id].xmax = c.write_xid],
                               Row(st.rows[id].table, key, c.write_xid)),
               !.ops = Append(@, [old |-> id, new |-> Len(st.rows) + 1,
                                  prev |-> st.rows[id].xmax])]

(* Newest first; a version of ours goes, a stamp of ours gets prev back. *)
undo_write_op(rs, owns, w) ==
    [id \in DOMAIN rs |->
        IF id = w.new /\ rs[id].xmin \in owns THEN NoRow
        ELSE IF id = w.old /\ rs[id].xmax \in owns THEN [rs[id] EXCEPT !.xmax = w.prev]
        ELSE rs[id]]
undo_all(rs, owns, ops) ==
    LET undone[n \in 0 .. Len(ops)] ==
            IF n = 0 THEN rs
            ELSE undo_write_op(undone[n - 1], owns, ops[Len(ops) - n + 1])
    IN  undone[Len(ops)]

-----------------------------------------------------------------------------
(* The foreign key. *)

fk_mode_deferred(st) == IF st.modes = <<>> THEN fk.initially_deferred ELSE st.modes[1]

(* The checks see the top-level xid's rows only, not the sub-xids'. *)
OwnRows(st, c, table, key) ==
    {id \in DOMAIN st.rows : /\ st.rows[id].table = table /\ st.rows[id].key = key
                             /\ row_visible(st.rows[id], c.snap, {c.own})}
fk_parent_key_exists(st, c, key) == OwnRows(st, c, "parent", key) # {}

Pending(side, key, row) == [side |-> side, key |-> key, row |-> row]
queue_child_fk(st, key) == [st EXCEPT !.queue = Append(@, Pending("child", key, 0))]
queue_parent_fk(st, id, key) == [st EXCEPT !.queue = Append(@, Pending("parent", key, id))]

check_fk_child_row(st, c, key) ==
    IF key = Null THEN st
    ELSE IF fk_mode_deferred(st) THEN queue_child_fk(st, key)
    ELSE IF fk_parent_key_exists(st, c, key) THEN st
    ELSE Fail(st)

(* The referential action for a parent key that goes (<<>>) or becomes new. *)
FkAct(new) == IF new = <<>> THEN fk.on_delete ELSE fk.on_update

(* apply_fk_cascade of one planned child row. *)
apply_fk_cascade(st, c, id, new) ==
    IF FkAct(new) = "set null" THEN Update(st, c, id, Null)
    ELSE IF new = <<>> THEN Delete(st, c, id)
    ELSE Update(st, c, id, new[1])

(* plan_fk_cascade for one parent key under an immediate constraint: the       *)
(* children that carry the key, in row order, and what is done to each.        *)
Cascade(st, c, key, new) ==
    LET refs == OwnRows(st, c, "child", key)
        acted[n \in 0 .. Len(st.rows)] ==
            IF n = 0 THEN st
            ELSE IF n \in refs THEN apply_fk_cascade(acted[n - 1], c, n, new)
            ELSE acted[n - 1]
    IN  IF FkAct(new) = "restrict" /\ refs # {} THEN Fail(st) ELSE acted[Len(st.rows)]

plan_fk_cascade(st, c, id, new) ==
    LET key == st.rows[id].key IN
    IF fk_mode_deferred(st) THEN queue_parent_fk(st, id, key)
    ELSE Cascade(st, c, key, new)

(* Mutant of fire_child: the row may be gone by now. *)
fire_child_Unconditional(st, c, key) ==
    IF fk_parent_key_exists(st, c, key) THEN st ELSE Fail(st)

(* Does a visible child still carry the key, and no parent? *)
fire_child(st, c, key) ==
    LET present == \E id \in DOMAIN st.rows :
            /\ st.rows[id].table = "child" /\ st.rows[id].key = key
            /\ row_visible(st.rows[id], c.snap, c.owns)
    IN  IF present /\ ~fk_parent_key_exists(st, c, key) THEN Fail(st) ELSE st

(* Mutant of fire_parent: the action runs although the key is back. *)
fire_parent_Unconditional(st, c, e) ==
    LET new == IF row_visible(st.rows[e.row], c.snap, c.owns) THEN <<st.rows[e.row].key>> ELSE <<>>
    IN  Cascade(st, c, e.key, new)

(* Mutant of fire_parent: only the queued row is asked for the key. *)
fire_parent_ByRow(st, c, e) ==
    LET r == st.rows[e.row]
        seen == row_visible(r, c.snap, c.owns)
    IN  IF seen /\ r.key = e.key THEN st
        ELSE Cascade(st, c, e.key, IF seen THEN <<r.key>> ELSE <<>>)

(* The action runs now unless the key is back; the queued row's current       *)
(* image, looked up by row id, tells a moved key from a deleted row.          *)
fire_parent(st, c, e) ==
    LET new == IF row_visible(st.rows[e.row], c.snap, c.owns) THEN <<st.rows[e.row].key>> ELSE <<>>
    IN  IF fk_parent_key_exists(st, c, e.key) THEN st ELSE Cascade(st, c, e.key, new)

Fire(st, c, e) ==
    IF ~st.ok THEN st
    ELSE IF e.side = "child" THEN fire_child(st, c, e.key)
    ELSE fire_parent(st, c, e)

(* Mutant of flush_deferred_fk: only the first entry is fired. *)
flush_deferred_fk_First(st, c) ==
    IF st.queue = <<>> THEN st ELSE Fire([st EXCEPT !.queue = <<>>], c, Head(st.queue))

(* The queue is taken out before its entries are fired, in order; an error     *)
(* leaves the rest unfired and the queue empty.  The fired constraint counts  *)
(* as immediate meanwhile, so nothing is queued again.                        *)
flush_deferred_fk(st, c) ==
    LET fired[n \in 0 .. Len(st.queue)] ==
            IF n = 0 THEN [st EXCEPT !.queue = <<>>]
            ELSE Fire(fired[n - 1], c, st.queue[n])
    IN  fired[Len(st.queue)]

exec_set_constraints(st, c, d) ==
    LET set == [st EXCEPT !.modes = <<d>>] IN IF d THEN set ELSE flush_deferred_fk(set, c)

-----------------------------------------------------------------------------
(* Statements. *)

Seen(st, c, table) ==
    {id \in DOMAIN st.rows : st.rows[id].table = table /\ row_visible(st.rows[id], c.snap, c.owns)}

(* The primary key of parent, at the statement: our own versions count unless *)
(* we removed them, others' if the snapshot shows them; exclude is the row an *)
(* UPDATE replaces.                                                         *)
unique_violation(key, exclude, c) ==
    \E id \in DOMAIN rows \ exclude :
        /\ rows[id].table = "parent" /\ rows[id].key = key
        /\ rows[id].xmax \notin c.owns
        /\ rows[id].xmin \in c.owns \/ row_visible(rows[id], c.snap, c.owns)

Statements ==
    [kind : {"insert child", "insert parent"}, key : Keys] \cup
    [kind : {"delete"}, row : 1 .. MaxRows] \cup
    [kind : {"update"}, row : 1 .. MaxRows, key : Keys] \cup
    [kind : {"set constraints"}, deferred : BOOLEAN]

IsParent(q) == q.kind = "insert parent" \/
               (q.kind \in {"delete", "update"} /\ rows[q.row].table = "parent")
RemovesKey(q) == q.kind # "insert parent" /\ IsParent(q)
GivesKey(q) == q.kind \in {"insert parent", "update"} /\ IsParent(q)
Replaced(q) == IF q.kind = "update" THEN {q.row} ELSE {}

execute(q, st, c) ==
    CASE q.kind = "insert child" ->
            LET checked == check_fk_child_row(st, c, q.key)
            IN  IF checked.ok THEN Insert(checked, c, "child", q.key) ELSE checked
      [] q.kind = "insert parent" -> Insert(st, c, "parent", q.key)
      [] q.kind = "delete" ->
            LET planned == IF IsParent(q) THEN plan_fk_cascade(st, c, q.row, <<>>) ELSE st
            IN  IF planned.ok THEN Delete(planned, c, q.row) ELSE planned
      [] q.kind = "update" ->
            LET planned == IF IsParent(q) THEN plan_fk_cascade(st, c, q.row, <<q.key>>)
                           ELSE check_fk_child_row(st, c, q.key)
            IN  IF planned.ok THEN Update(planned, c, q.row, q.key) ELSE planned
      [] q.kind = "set constraints" -> exec_set_constraints(st, c, q.deferred)

Versions(table, key) ==
    {id \in DOMAIN rows : rows[id].table = table /\ rows[id].key = key}

(* Rows only a block with these xids has written or removed. *)
Touches(t, table) ==
    \E i \in DOMAIN t.writes :
        \/ t.writes[i].old # 0 /\ rows[t.writes[i].old].table = table
        \/ t.writes[i].new # 0 /\ rows[t.writes[i].new].table = table
RemovedKey(t) ==
    \E i \in DOMAIN t.writes : t.writes[i].old # 0 /\ rows[t.writes[i].old].table = "parent"

(* The bounds, the rows a client can name, and the quirks that are off. *)
MayIssue(s, q, st, c) ==
    /\ statements < MaxStatements /\ statements' = statements + 1
    /\ Len(rows) < MaxRows
    /\ q.kind \in {"delete", "update"} =>
          /\ q.row \in Seen(st, c, "parent") \cup Seen(st, c, "child")
          /\ rows[q.row].xmax \notin active
    /\ q.kind = "update" => q.key # rows[q.row].key
    /\ GivesKey(q) => ~unique_violation(q.key, Replaced(q), c)
    /\ GivesKey(q) => \A id \in Versions("parent", q.key) :
          /\ "restore" \in Quirks \/ rows[id].xmax \notin c.owns
          /\ "race" \in Quirks \/ rows[id].xmin \notin active \ c.owns
    /\ "overlap" \in Quirks \/ \A o \in Sessions \ {s} :
          /\ RemovesKey(q) => ~Touches(txn[o], "child")
          /\ q.kind # "set constraints" /\ RemovedKey(txn[o]) => IsParent(q)
    /\ "sub" \in Quirks \/ txn[s].owned_xids = {} \/
          ~(IsParent(q) \/ (q.kind \in {"delete", "update"} /\ RemovedKey(txn[s])))
    /\ "immediate" \in Quirks \/ (q.kind = "set constraints" => q.deferred \/ txn[s].saves = <<>>)
    /\ "rekey" \in Quirks \/ ~(RemovesKey(q) /\ q.kind = "update" /\ fk_mode_deferred(st))

-----------------------------------------------------------------------------
(* The server. *)

Loads == {q \in [1 .. Cardinality(Loaded) -> Loaded] :
            \A i, j \in DOMAIN q : q[i] = q[j] => i = j}

(* Transaction 1 loaded a parent and a child for each key of q. *)
LoadedRows(q) ==
    [id \in 1 .. 2 * Len(q) |-> IF id <= Len(q) THEN Row("parent", q[id], 1)
                               ELSE Row("child", q[id - Len(q)], 1)]

Init ==
    /\ fk \in Constraints
    /\ \E q \in Loads : rows = LoadedRows(q)
    /\ next_xid = 2 /\ active = {}
    /\ txn = [s \in Sessions |-> NoTxn]
    /\ deferred = [s \in Sessions |-> Default]
    /\ statements = 0

txn_begin(s) ==
    /\ ~InTxn(s) /\ next_xid < MaxXid
    /\ txn' = [txn EXCEPT ![s] = [NoTxn EXCEPT !.xid = next_xid]]
    /\ next_xid' = next_xid + 1
    /\ active' = active \cup {next_xid}
    /\ UNCHANGED <<fk, rows, deferred, statements>>

(* A failed statement keeps what it did until ROLLBACK [TO]; of these only a  *)
(* flush does anything before it fails.                                       *)
txn_execute(s, q) ==
    LET c == TxnCtx(s)
        st == execute(q, Start(deferred[s]), c)
    IN
    /\ InTxn(s) /\ ~txn[s].failed
    /\ MayIssue(s, q, Start(deferred[s]), c)
    /\ rows' = st.rows
    /\ deferred' = [deferred EXCEPT ![s] = [queue |-> st.queue, modes |-> st.modes]]
    /\ txn' = [txn EXCEPT ![s].writes = @ \o st.ops, ![s].failed = ~st.ok,
                          ![s].deletes = @ \/ q.kind = "delete"]
    /\ UNCHANGED <<fk, next_xid, active>>

(* A statement outside a block is a transaction: its queue fires at its end.  *)
(* An error of the statement, of a check or of the log undoes it.             *)
autocommit_execute(s, q) ==
    LET c == AutoCtx
        ran == execute(q, Start(deferred[s]), c)
        st == IF ran.ok THEN flush_deferred_fk(ran, c) ELSE ran
    IN
    /\ ~InTxn(s) /\ next_xid < MaxXid
    /\ MayIssue(s, q, Start(deferred[s]), c)
    /\ \/ st.ok /\ rows' = st.rows
       \/ rows' = undo_all(st.rows, {c.own}, st.ops)
    /\ next_xid' = next_xid + 1
    /\ deferred' = [deferred EXCEPT ![s] = Default]
    /\ UNCHANGED <<fk, active, txn>>

(* COPY FROM of one child row outside a block; when it fails on a later row   *)
(* copy_from_ingest undoes and retires but does not clear the deferred state. *)
copy_from_ingest(s, key) ==
    LET c == AutoCtx
        q == [kind |-> "insert child", key |-> key]
        ran == execute(q, Start(deferred[s]), c)
        st == flush_deferred_fk(ran, c)
    IN
    /\ ~InTxn(s) /\ next_xid < MaxXid
    /\ MayIssue(s, q, Start(deferred[s]), c)
    /\ next_xid' = next_xid + 1
    /\ \/ /\ ran.ok
          /\ \/ st.ok /\ rows' = st.rows
             \/ rows' = undo_all(st.rows, {c.own}, st.ops)
          /\ deferred' = [deferred EXCEPT ![s] = Default]
       \/ /\ ~ran.ok \/ "copy" \in Quirks
          /\ rows' = undo_all(ran.rows, {c.own}, ran.ops)
          /\ deferred' = [deferred EXCEPT ![s].queue = ran.queue]
    /\ UNCHANGED <<fk, active, txn>>

(* retire_txn_family_sid, which clears the deferred state. *)
End(s) ==
    /\ txn' = [txn EXCEPT ![s] = NoTxn]
    /\ active' = active \ all_xids(txn[s])
    /\ deferred' = [deferred EXCEPT ![s] = Default]
    /\ UNCHANGED <<fk, next_xid, statements>>

(* The recheck against the parents committed by now. *)
committed_unique_violation(rs, id, own) ==
    /\ rs[id].table = "parent"
    /\ \E p \in DOMAIN rs \ {id} :
          /\ rs[p].table = "parent" /\ rs[p].key = rs[id].key
          /\ rs[p].xmin # own
          /\ row_visible(rs[p], Fresh, {own})

(* records_for_commit returns Err.  It is given the top-level xid only, so a   *)
(* row that was replaced in a savepoint scope looks overwritten to it.         *)
CommitConflict(rs, ops, own) ==
    \E i \in DOMAIN ops :
        LET w == ops[i]
            inserts(op) == op.old = 0
            overwritten == w.old # 0 /\ rs[w.old].xmax # own
        IN  \/ inserts(w) /\ rs[w.new].xmin = own /\ committed_unique_violation(rs, w.new, own)
            \/ overwritten /\ w.new # 0
            \/ overwritten /\ i + 1 \in DOMAIN ops /\ inserts(ops[i + 1])

(* What COMMIT's flush leaves. *)
Flushed(s) == flush_deferred_fk(Start(deferred[s]), TxnCtx(s))

Commit(s) ==
    /\ InTxn(s) /\ ~txn[s].failed
    /\ Flushed(s).ok
    /\ ~CommitConflict(Flushed(s).rows, txn[s].writes \o Flushed(s).ops, txn[s].xid)
    /\ rows' = Flushed(s).rows
    /\ End(s)

(* The queue has fired, and then records_for_commit finds a conflict or        *)
(* append_batch fails: the block is handed back failed, its queue gone.        *)
CommitFails(s) ==
    LET st == Flushed(s) IN
    /\ InTxn(s) /\ ~txn[s].failed
    /\ st.ok
    /\ "refused" \in Quirks \/ txn[s].saves = <<>>
    /\ rows' = st.rows
    /\ deferred' = [deferred EXCEPT ![s] = [queue |-> st.queue, modes |-> st.modes]]
    /\ txn' = [txn EXCEPT ![s].writes = @ \o st.ops, ![s].failed = TRUE]
    /\ UNCHANGED <<fk, next_xid, active, statements>>

(* An error while the queue fires rolls the transaction back. *)
CommitRejected(s) ==
    LET st == Flushed(s) IN
    /\ InTxn(s) /\ ~txn[s].failed
    /\ ~st.ok
    /\ rows' = undo_all(st.rows, all_xids(txn[s]), txn[s].writes \o st.ops)
    /\ End(s)

(* ROLLBACK, and COMMIT of a failed block. *)
txn_rollback(s) ==
    /\ InTxn(s)
    /\ rows' = undo_all(rows, all_xids(txn[s]), txn[s].writes)
    /\ End(s)

txn_savepoint(s) ==
    LET t == txn[s] IN
    /\ InTxn(s) /\ ~t.failed
    /\ Len(t.saves) < MaxSavepoints /\ next_xid < MaxXid
    /\ txn' = [txn EXCEPT
          ![s].saves = Append(@, [writes |-> Len(t.writes), queue |-> Len(deferred[s].queue),
                                  modes |-> deferred[s].modes]),
          ![s].sub_xids = Append(@, next_xid),
          ![s].owned_xids = @ \cup {next_xid}]
    /\ next_xid' = next_xid + 1
    /\ active' = active \cup {next_xid}
    /\ UNCHANGED <<fk, rows, deferred, statements>>

(* Mutant of deferred_restore: the whole queue goes. *)
deferred_restore_All(d, mark) == [queue |-> <<>>, modes |-> mark.modes]

(* The queue is truncated to its length at the savepoint. *)
deferred_restore(d, mark) ==
    [queue |-> SubSeq(d.queue, 1, Min({Len(d.queue), mark.queue})), modes |-> mark.modes]

(* ROLLBACK TO the innermost savepoint, whose scope restarts under a new xid. *)
txn_rollback_to(s) ==
    LET t == txn[s]
        mark == Last(t.saves)
    IN
    /\ InTxn(s) /\ t.saves # <<>> /\ next_xid < MaxXid
    /\ rows' = undo_all(rows, all_xids(t), SubSeq(t.writes, mark.writes + 1, Len(t.writes)))
    /\ deferred' = [deferred EXCEPT ![s] = deferred_restore(@, mark)]
    /\ txn' = [txn EXCEPT ![s].writes = SubSeq(@, 1, mark.writes),
                          ![s].sub_xids = Append(Front(@), next_xid),
                          ![s].owned_xids = @ \cup {next_xid},
                          ![s].failed = FALSE]
    /\ next_xid' = next_xid + 1
    /\ active' = active \cup {next_xid}
    /\ UNCHANGED <<fk, statements>>

(* Mutant of txn_release: the released scope stays open. *)
txn_release_KeepsScope(s) ==
    /\ InTxn(s) /\ ~txn[s].failed /\ txn[s].saves # <<>>
    /\ txn' = [txn EXCEPT ![s].saves = Front(@)]
    /\ UNCHANGED <<fk, rows, next_xid, active, deferred, statements>>

txn_release(s) ==
    /\ InTxn(s) /\ ~txn[s].failed /\ txn[s].saves # <<>>
    /\ txn' = [txn EXCEPT ![s].saves = Front(@), ![s].sub_xids = Front(@)]
    /\ UNCHANGED <<fk, rows, next_xid, active, deferred, statements>>

Next ==
    \E s \in Sessions :
        \/ txn_begin(s) \/ Commit(s) \/ CommitFails(s) \/ CommitRejected(s)
        \/ txn_rollback(s)
        \/ txn_savepoint(s) \/ txn_rollback_to(s) \/ txn_release(s)
        \/ \E q \in Statements : txn_execute(s, q) \/ autocommit_execute(s, q)
        \/ \E k \in Keys : copy_from_ingest(s, k)

Spec == Init /\ [][Next]_vars

-----------------------------------------------------------------------------
(* Properties. *)

(* Rows carry keys and xids that were handed out, a savepoint's marks lie      *)
(* within the write log, and each open scope has its sub-xid.                  *)
TypeOK ==
    /\ \A id \in DOMAIN rows :
          /\ rows[id].table \in {"parent", "child", "none"}
          /\ rows[id].key \in Keys \cup {Null}
          /\ rows[id].xmin < next_xid /\ rows[id].xmax < next_xid
    /\ active = UNION {all_xids(txn[s]) : s \in {o \in Sessions : InTxn(o)}}
    /\ \A s \in Sessions :
          /\ Len(txn[s].saves) = Len(txn[s].sub_xids)
          /\ \A i \in DOMAIN txn[s].saves : txn[s].saves[i].writes <= Len(txn[s].writes)

(* The children of a view that have no parent in it. *)
Dangling(snap, owns) ==
    {id \in DOMAIN rows :
        /\ rows[id].table = "child" /\ rows[id].key # Null
        /\ row_visible(rows[id], snap, owns)
        /\ ~\E p \in DOMAIN rows : /\ rows[p].table = "parent" /\ rows[p].key = rows[id].key
                                   /\ row_visible(rows[p], snap, owns)}

(* Referential integrity: in what has committed, every child has its parent,  *)
(* whatever was deferred, cascaded, released or rolled back on the way         *)
(* (check_fk_child_row, plan_fk_cascade, flush_deferred_fk).                   *)
FkHolds == Dangling(Fresh, {}) = {}

(* A block that can still commit has a queued check for the key of every       *)
(* child that dangles in its own view: postponed is not forgotten              *)
(* (queue_child_fk, queue_parent_fk, deferred_restore).                        *)
PostponedNotForgotten ==
    \A s \in Sessions : InTxn(s) /\ ~txn[s].failed =>
        \A id \in Dangling(Fresh, all_xids(txn[s])) :
            \E i \in DOMAIN deferred[s].queue : deferred[s].queue[i].key = rows[id].key

(* Between transactions a session has no queued checks and no SET CONSTRAINTS  *)
(* modes: neither leaks into its next transaction (deferred_clear).            *)
NothingLeftOver == \A s \in Sessions : ~InTxn(s) => deferred[s] = Default

(* The deferred state holds what a transaction has postponed, and nothing      *)
(* when there is none.                                                         *)
QueueHoldsPostponed == PostponedNotForgotten /\ NothingLeftOver

(* COMMIT is refused only when a child really dangles at that point, not for    *)
(* a row that was fixed or removed again since its check was queued            *)
(* (fire_child, fire_parent).                                                  *)
NoFalseReject ==
    [][\A s \in Sessions :
         InTxn(s) /\ ~InTxn(s)' /\ CommitRejected(s) => Dangling(Fresh, all_xids(txn[s])) # {}]_vars

Children(rs, snap, owns) ==
    Cardinality({id \in DOMAIN rs : rs[id].table = "child" /\ row_visible(rs[id], snap, owns)})

(* COMMIT's flush acts only on children whose parent is really gone: one that *)
(* has a parent in the block's view, be it that the key is back on another     *)
(* row, that another row took it over, or that its removal was rolled back,    *)
(* is neither deleted nor changed (fire_parent).                             *)
FlushSparesParented ==
    [][\A s \in Sessions : InTxn(s) /\ ~InTxn(s)' /\ Commit(s) =>
         LET owns == all_xids(txn[s])
             seen(id) == row_visible(rows[id], Fresh, owns)
         IN  \A id \in DOMAIN rows :
                /\ rows[id].table = "child" /\ rows[id].key # Null /\ seen(id)
                /\ \E p \in Versions("parent", rows[id].key) : seen(p)
                => row_visible(rows'[id], Fresh, owns)]_vars

(* A block that issues no DELETE loses no child: ON UPDATE, not ON DELETE, acts *)
(* on a moved key.  The code keeps this at the statement and breaks it when a   *)
(* postponed check is fired (fire_parent, under "rekey").                      *)
RekeyKeepsChildren ==
    [][\A s \in Sessions :
         InTxn(s) /\ ~txn[s].deletes
           /\ (Commit(s) \/ (~txn'[s].failed /\ ~txn'[s].deletes /\ statements' # statements)) =>
             Children(rows', Fresh, all_xids(txn[s])) >= Children(rows, Fresh, all_xids(txn[s]))]_vars
=============================================================================
