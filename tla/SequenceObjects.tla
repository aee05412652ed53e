--------------------------- MODULE SequenceObjects ---------------------------
(***************************************************************************)
(* Sequence objects (exec/seq.rs): CREATE, ALTER and DROP SEQUENCE as        *)
(* transactional catalog versions, nextval and setval as advances that no    *)
(* rollback takes back, the commit-time WAL records of both, and what a      *)
(* restart makes of them (wal/recovery.rs, wal/writer.rs).                   *)
(*                                                                         *)
(* There is one sequence name; versions is its entry in Database.sequences.  *)
(* A statement runs under the engine mutex, so it is one step.  An append   *)
(* to the log adds the whole frame; Wal.tla has the ways it can fail.        *)
(* Privileges and OWNED BY are left out.                                     *)
(***************************************************************************)
EXTENDS Integers, Sequences, FiniteSets, SequencesExt, FiniteSetsExt

CONSTANTS
    Sessions,
    Level,              \* isolation levels of blocks, a subset of {"RC", "RR"}
    CreateOpts,         \* option lists of CREATE SEQUENCE
    AlterOpts,          \* option lists of ALTER SEQUENCE
    SetValues,          \* arguments of setval
    Quirks,             \* subset of AllQuirks
    IntMax,             \* bigint runs from -IntMax - 1 to IntMax
    SmallMax,           \* smallint runs from -SmallMax - 1 to SmallMax
    MaxXid,             \* bound on xids handed out
    MaxStatements,      \* bound on the statements the clients send
    MaxSavepoints,      \* bound on the depth of the savepoint stack
    MaxCheckpoints,     \* bound on checkpoints
    MaxCrashes          \* bound on crashes

(***************************************************************************)
(* Client behaviour under which the code departs from the properties:        *)
(* "overlap"   a session uses the sequence while another one's open block    *)
(*             has created, altered or dropped it, or reads an old snapshot  *)
(* "alter"     the server crashes after an ALTER SEQUENCE that no checkpoint *)
(*             has followed                                                 *)
(* "copy"      the server crashes after a COPY FROM that filled a column     *)
(*             from the sequence                                            *)
(* "shrink"    ALTER SEQUENCE leaves the position outside the new bounds     *)
(* "recreate"  a block creates a sequence it has created and dropped         *)
(* "twice"     a block commits that has made two versions of the sequence:    *)
(*             undo finds a version by its created_xmin, which they share     *)
(***************************************************************************)
AllQuirks == {"overlap", "alter", "copy", "shrink", "recreate", "twice"}

None == <<>>
Some(x) == <<x>>
Option(S) == {None} \cup {Some(x) : x \in S}

TypeMax(t) == IF t = "smallint" THEN SmallMax ELSE IntMax
TypeMin(t) == -TypeMax(t) - 1
Ints == TypeMin("bigint") .. TypeMax("bigint")

Opts == [type : Option({"smallint", "bigint"}), increment : Option(Ints),
         min : Option(Ints), max : Option(Ints), reset_min : BOOLEAN, reset_max : BOOLEAN,
         start : Option(Ints), cycle : Option(BOOLEAN),
         restart : Option(Ints), restart_start : BOOLEAN]

ASSUME SequencesAssumption ==
    /\ Level \subseteq {"RC", "RR"}
    /\ CreateOpts \cup AlterOpts \subseteq Opts
    /\ Quirks \subseteq AllQuirks
    /\ IntMax \in Nat \ {0} /\ SmallMax \in 1 .. IntMax
    /\ MaxXid \in Nat \ {0, 1} /\ MaxStatements \in Nat
    /\ MaxSavepoints \in Nat /\ MaxCheckpoints \in Nat /\ MaxCrashes \in Nat

VARIABLES
    versions,       \* Database.sequences[name]
    next_xid,       \* TxnManager.next_xid
    active,         \* TxnManager.active
    advanced,       \* is the name in Engine.seq_advanced?
    txn,            \* Session.txn of every session
    log,            \* the records of the commit frames in wal.log
    image,          \* the sequences and the next xid in checkpoint.dat
    issued,         \* history: nextval results since the last reposition
    statements, checkpoints, crashes

vars == <<versions, next_xid, active, advanced, txn, log, image, issued, statements, checkpoints, crashes>>

-----------------------------------------------------------------------------
(* Options, versions and visibility. *)

OrElse(opt, x) == IF opt = None THEN x ELSE opt[1]

(* A statement's clauses; "default" in min and max is NO MINVALUE / NO MAXVALUE. *)
NoOpts == [type |-> None, increment |-> None, min |-> None, max |-> None,
           reset_min |-> FALSE, reset_max |-> FALSE,
           start |-> None, cycle |-> None, restart |-> None, restart_start |-> FALSE]

(* The fields ALTER SEQUENCE sets. *)
Params(v) == [type |-> v.type, increment |-> v.increment, min |-> v.min,
              max |-> v.max, start |-> v.start, cycle |-> v.cycle]

NewVersion(p, xid) ==
    [type |-> p.type, increment |-> p.increment, min |-> p.min, max |-> p.max,
     start |-> p.start, cycle |-> p.cycle, current |-> None, is_called |-> FALSE,
     created_xmin |-> xid, dropped_xmax |-> 0]

(* The parameters that the clauses give, from the live version's if any. *)
Resolved(opts, cur) ==
    LET was(field, x) == IF cur = None THEN x ELSE cur[1][field]
        increment == OrElse(opts.increment, was("increment", 1))
        type == OrElse(opts.type, was("type", "bigint"))
        retyped == cur # None /\ opts.type # None /\ type # cur[1].type
        keep_max == /\ cur # None /\ ~opts.reset_max
                    /\ ~(retyped /\ cur[1].max = TypeMax(cur[1].type))
        keep_min == /\ cur # None /\ ~opts.reset_min
                    /\ ~(retyped /\ cur[1].min = TypeMin(cur[1].type))
        max == OrElse(opts.max, IF keep_max THEN cur[1].max
                                ELSE IF increment < 0 THEN -1 ELSE TypeMax(type))
        min == OrElse(opts.min, IF keep_min THEN cur[1].min
                                ELSE IF increment < 0 THEN TypeMin(type) ELSE 1)
    IN  [type |-> type, increment |-> increment, min |-> min, max |-> max,
         start |-> OrElse(opts.start, was("start", IF increment < 0 THEN max ELSE min)),
         cycle |-> OrElse(opts.cycle, was("cycle", FALSE))]

Restart(opts, p) == IF opts.restart_start THEN Some(p.start) ELSE opts.restart

(* Does sequence_params accept the clauses? *)
sequence_params(opts, cur) ==
    LET p == Resolved(opts, cur) IN
    /\ p.increment # 0
    /\ p.min >= TypeMin(p.type) /\ p.max <= TypeMax(p.type)
    /\ p.min < p.max
    /\ p.start \in p.min .. p.max
    /\ Restart(opts, p) # None => cur # None /\ Restart(opts, p)[1] \in p.min .. p.max

InSnapshot(xid, snap) == xid < snap.next_xid /\ xid \notin snap.active

seq_visible(v, snap, own) ==
    /\ v.created_xmin = own \/ InSnapshot(v.created_xmin, snap)
    /\ v.dropped_xmax = 0 \/ (v.dropped_xmax # own /\ ~InSnapshot(v.dropped_xmax, snap))

(* The place of the first visible version in vs, 0 when there is none. *)
find_sequence(vs, snap, own) == SelectInSeq(vs, LAMBDA v : seq_visible(v, snap, own))

Fresh == [next_xid |-> next_xid, active |-> active]
xid_committed(xid) == InSnapshot(xid, Fresh)

-----------------------------------------------------------------------------
(* Statements.  The outcome of one: the versions it leaves, the ops it adds   *)
(* to the write log, whether seq_advanced got the name, the value it returns  *)
(* and whether it moved the position other than by the increment.             *)

Outcome(vs) == [ok |-> TRUE, versions |-> vs, ops |-> <<>>, advanced |-> FALSE,
                value |-> None, moved |-> FALSE]
Failed(vs) == [Outcome(vs) EXCEPT !.ok = FALSE]
Op(kind, prev) == [op |-> kind, prev |-> prev]

(* Mutant of NextPosition: the bound is not looked at. *)
NextPosition_Unbounded(v) ==
    IF v.current = None THEN Some(v.start)
    ELSE IF ~v.is_called THEN v.current
    ELSE Some(v.current[1] + v.increment)

Over(v, n) == IF v.increment > 0 THEN n > v.max ELSE n < v.min

NextPosition(v) ==
    IF v.current = None THEN Some(v.start)
    ELSE IF ~v.is_called THEN v.current
    ELSE LET n == v.current[1] + v.increment IN
         IF n \notin TypeMin("bigint") .. TypeMax("bigint") THEN None
         ELSE IF ~Over(v, n) THEN Some(n)
         ELSE IF v.cycle THEN Some(IF v.increment > 0 THEN v.min ELSE v.max)
         ELSE None

seq_nextval(vs, snap, own) ==
    LET i == find_sequence(vs, snap, own) IN
    IF i = 0 \/ NextPosition(vs[i]) = None THEN Failed(vs)
    ELSE LET n == NextPosition(vs[i]) IN
         [Outcome([vs EXCEPT ![i].current = n, ![i].is_called = TRUE]) EXCEPT
            !.advanced = TRUE, !.value = n,
            !.moved = vs[i].is_called /\ n[1] # vs[i].current[1] + vs[i].increment]

seq_setval(vs, snap, own, value, is_called) ==
    LET i == find_sequence(vs, snap, own) IN
    IF i = 0 \/ value \notin vs[i].min .. vs[i].max THEN Failed(vs)
    ELSE [Outcome([vs EXCEPT ![i].current = Some(value), ![i].is_called = is_called]) EXCEPT
            !.advanced = TRUE, !.moved = TRUE]

exec_create_sequence(vs, snap, own, opts) ==
    IF find_sequence(vs, snap, own) # 0 \/ ~sequence_params(opts, None) THEN Failed(vs)
    ELSE [Outcome(Append(vs, NewVersion(Resolved(opts, None), own))) EXCEPT
            !.ops = <<Op("create", None)>>, !.moved = TRUE]

(* The version an accepted ALTER SEQUENCE adds. *)
Altered(v, opts, own) ==
    LET p == Resolved(opts, Some(v))
        r == Restart(opts, p)
    IN  [NewVersion(p, own) EXCEPT !.current = IF r = None THEN v.current ELSE r,
                                   !.is_called = r = None /\ v.is_called]

(* Mutant of exec_alter_sequence: the version it replaces stays live. *)
exec_alter_sequence_KeepsOld(vs, snap, own, opts) ==
    LET i == find_sequence(vs, snap, own) IN
    IF i = 0 \/ ~sequence_params(opts, Some(vs[i])) THEN Failed(vs)
    ELSE [Outcome(Append(vs, Altered(vs[i], opts, own))) EXCEPT
            !.ops = <<Op("alter", Some(vs[i]))>>, !.moved = TRUE]

exec_alter_sequence(vs, snap, own, opts) ==
    LET i == find_sequence(vs, snap, own) IN
    IF i = 0 \/ ~sequence_params(opts, Some(vs[i])) THEN Failed(vs)
    ELSE LET new == Altered(vs[i], opts, own)
             r == Restart(opts, new) IN
         [Outcome(Append([vs EXCEPT ![i].dropped_xmax = own], new)) EXCEPT
            !.ops = <<Op("alter", Some(vs[i]))>>,
            !.advanced = r # None,
            !.moved = r # None \/ (new.increment > 0) # (vs[i].increment > 0)]

exec_drop_sequence(vs, snap, own) ==
    LET i == find_sequence(vs, snap, own) IN
    IF i = 0 THEN Failed(vs)
    ELSE [Outcome([vs EXCEPT ![i].dropped_xmax = own]) EXCEPT
            !.ops = <<Op("drop", Some(vs[i]))>>]

(***************************************************************************)
(* What the clients send.  "fail" is a statement that raises an error after  *)
(* its nextval: the position has moved and seq_advanced holds the name.      *)
(***************************************************************************)
Statements ==
    [kind : {"nextval", "fail", "drop"}] \cup
    [kind : {"setval"}, value : SetValues, is_called : BOOLEAN] \cup
    [kind : {"create"}, opts : CreateOpts] \cup
    [kind : {"alter"}, opts : AlterOpts]

execute(q, vs, snap, own) ==
    CASE q.kind = "nextval" -> seq_nextval(vs, snap, own)
      [] q.kind = "fail" ->
            [seq_nextval(vs, snap, own) EXCEPT !.ok = FALSE, !.value = None]
      [] q.kind = "setval" -> seq_setval(vs, snap, own, q.value, q.is_called)
      [] q.kind = "create" -> exec_create_sequence(vs, snap, own, q.opts)
      [] q.kind = "alter" -> exec_alter_sequence(vs, snap, own, q.opts)
      [] q.kind = "drop" -> exec_drop_sequence(vs, snap, own)

-----------------------------------------------------------------------------
(* Undo and commit records. *)

(* The elements of s at the places K, in order. *)
Picked(s, K) ==
    LET out[n \in 0 .. Len(s)] ==
            IF n = 0 THEN <<>>
            ELSE IF n \in K THEN Append(out[n - 1], s[n]) ELSE out[n - 1]
    IN  out[Len(s)]

undo_write_op(vs, xid, w) ==
    LET kept == Picked(vs, {i \in DOMAIN vs : vs[i].created_xmin # xid})
        Prev(v) == v.created_xmin = w.prev[1].created_xmin
    IN
    CASE w.op = "create" -> kept
      [] w.op = "drop" ->
            IF SelectInSeq(vs, LAMBDA v : Prev(v) /\ v.dropped_xmax = xid) = 0 THEN vs
            ELSE [vs EXCEPT ![SelectInSeq(vs, Prev)] = [w.prev[1] EXCEPT !.dropped_xmax = 0]]
      [] w.op = "alter" ->
            LET i == SelectInSeq(kept, Prev) IN
            IF i = 0 THEN Append(kept, w.prev[1]) ELSE [kept EXCEPT ![i] = w.prev[1]]
      [] w.op = "advance" -> vs

(* Newest first. *)
undo_all(vs, xid, writes) ==
    LET undone[n \in 0 .. Len(writes)] ==      \* with the n newest undone
            IF n = 0 THEN vs
            ELSE undo_write_op(undone[n - 1], xid, writes[Len(writes) - n + 1])
    IN  undone[Len(writes)]

(* Would the commit meet a committed sequence of the same name? *)
Refused(vs, xid, writes) ==
    /\ \E i \in DOMAIN writes : writes[i].op = "create"
    /\ \E i \in DOMAIN vs : vs[i].created_xmin = xid
    /\ \E i \in DOMAIN vs :
          /\ vs[i].created_xmin # xid /\ xid_committed(vs[i].created_xmin)
          /\ vs[i].dropped_xmax = 0 \/ ~xid_committed(vs[i].dropped_xmax)

Record(kind, seq, xid) == [kind |-> kind, seq |-> seq, xid |-> xid]

(* The record of one op, none when the version it is about is gone. *)
RecordOf(vs, xid, w) ==
    LET Mine(v) == v.created_xmin = xid
        Live(v) == v.dropped_xmax = 0
    IN
    CASE w.op = "create" /\ SelectInSeq(vs, Mine) # 0 ->
            <<Record("create", vs[SelectInSeq(vs, Mine)], xid)>>
      [] w.op = "drop" /\ SelectInSeq(vs, LAMBDA v : v.dropped_xmax = xid) # 0 ->
            <<Record("drop", vs[1], xid)>>
      [] w.op = "alter" /\ SelectLastInSeq(vs, Mine) # 0 ->
            <<Record("alter", vs[SelectLastInSeq(vs, Mine)], xid)>>
      [] w.op = "advance" /\ SelectInSeq(vs, Live) # 0 ->
            LET v == vs[SelectInSeq(vs, Live)] IN
            IF v.current = None THEN <<>> ELSE <<Record("advance", v, 0)>>
      [] OTHER -> <<>>

records_for_commit(vs, xid, writes) ==
    LET records[n \in 0 .. Len(writes)] ==
            IF n = 0 THEN <<>> ELSE records[n - 1] \o RecordOf(vs, xid, writes[n])
    IN  records[Len(writes)]

(* Mutant of apply_record: a DROP is not replayed. *)
apply_record_NoDrop(vs, r) ==
    LET i == SelectInSeq(vs, LAMBDA v : v.dropped_xmax = 0) IN
    CASE r.kind \in {"create", "alter"} ->
            Append(vs, [r.seq EXCEPT !.dropped_xmax = 0])
      [] r.kind = "advance" /\ i # 0 ->
            [vs EXCEPT ![i].current = r.seq.current, ![i].is_called = r.seq.is_called]
      [] OTHER -> vs

apply_record(vs, r) ==
    LET i == SelectInSeq(vs, LAMBDA v : v.dropped_xmax = 0)
        new == [r.seq EXCEPT !.created_xmin = r.xid, !.dropped_xmax = 0]
    IN
    CASE r.kind = "create" -> Append(vs, new)
      [] r.kind = "drop" /\ i # 0 -> [vs EXCEPT ![i].dropped_xmax = r.xid]
      [] r.kind = "alter" ->
            Append(vs, IF i = 0 THEN new ELSE [new EXCEPT !.current = vs[i].current])
      [] r.kind = "advance" /\ i # 0 ->
            [vs EXCEPT ![i].current = r.seq.current, ![i].is_called = r.seq.is_called]
      [] OTHER -> vs

Replayed(vs, records) ==
    LET replayed[n \in 0 .. Len(records)] ==
            IF n = 0 THEN vs ELSE apply_record(replayed[n - 1], records[n])
    IN  replayed[Len(records)]

(* What Wal::open rebuilds. *)
Recovered == Replayed(image.versions, log)
RecoveredXid == Max({image.next_xid} \cup {log[i].xid + 1 : i \in DOMAIN log})

-----------------------------------------------------------------------------
(* Sessions. *)

NoSnapshot == [next_xid |-> 0, active |-> {}]
NoTxn == [xid |-> 0, level |-> "RC", snap |-> NoSnapshot, writes |-> <<>>,
          saves |-> <<>>, failed |-> FALSE]
InTxn(s) == txn[s].xid # 0

(* A new data directory, or one whose checkpoint has the sequence in it.      *)
Init ==
    /\ image \in {[versions |-> <<>>, next_xid |-> 1]} \cup
                {[versions |-> <<NewVersion(Resolved(o, None), 1)>>, next_xid |-> 2] :
                    o \in {c \in CreateOpts : sequence_params(c, None)}}
    /\ versions = image.versions /\ next_xid = image.next_xid
    /\ active = {} /\ advanced = FALSE
    /\ txn = [s \in Sessions |-> NoTxn]
    /\ log = <<>> /\ issued = <<>>
    /\ statements = 0 /\ checkpoints = 0 /\ crashes = 0

Has(writes, kinds) == \E i \in DOMAIN writes : writes[i].op \in kinds
DDL == {"create", "alter", "drop"}

(* Clients that keep out of each other's DDL on the sequence. *)
Alone(s) ==
    "overlap" \in Quirks \/ \A o \in Sessions \ {s} : ~Has(txn[o].writes, DDL)

(* The bounds, and the quirks that are off. *)
MayIssue(s, q, vs, own) ==
    LET i == find_sequence(vs, Fresh, own) IN
    /\ statements < MaxStatements /\ statements' = statements + 1
    /\ Alone(s)
    /\ q.kind \in DDL /\ "overlap" \notin Quirks =>
          \A o \in Sessions \ {s} : txn[o].snap = NoSnapshot
    /\ q.kind = "create" /\ "recreate" \notin Quirks =>
          \A j \in DOMAIN vs : vs[j].created_xmin # own
    /\ q.kind = "alter" /\ "shrink" \notin Quirks /\ i # 0 =>
          LET new == Altered(vs[i], q.opts, own)
          IN  new.current # None => new.current[1] \in new.min .. new.max

(* What the history keeps of an outcome; xid is 0 once it is committed. *)
Issue(out, xid, copied) ==
    issued' = (IF out.moved THEN <<>> ELSE issued) \o
              (IF out.value = None THEN <<>>
               ELSE <<[value |-> out.value[1], xid |-> xid, copied |-> copied]>>)

(* The drained seq_advanced, as the marker the write log gets. *)
Marker(out) == IF advanced \/ out.advanced THEN <<Op("advance", None)>> ELSE <<>>

Begin(s) ==
    /\ ~InTxn(s) /\ next_xid < MaxXid
    /\ \E l \in Level : txn' = [txn EXCEPT ![s] = [NoTxn EXCEPT !.xid = next_xid, !.level = l]]
    /\ next_xid' = next_xid + 1
    /\ active' = active \cup {next_xid}
    /\ UNCHANGED <<versions, advanced, log, image, issued, statements, checkpoints, crashes>>

stmt_snapshot(t) == IF t.level = "RR" /\ t.snap # NoSnapshot THEN t.snap ELSE Fresh

txn_execute(s, q) ==
    LET t == txn[s]
        snap == stmt_snapshot(t)
        out == execute(q, versions, snap, t.xid)
    IN
    /\ InTxn(s) /\ ~t.failed
    /\ MayIssue(s, q, versions, t.xid)
    /\ versions' = out.versions
    /\ advanced' = FALSE
    /\ txn' = [txn EXCEPT ![s].snap = IF t.level = "RR" THEN snap ELSE @,
                          ![s].writes = @ \o out.ops \o (IF out.ok THEN Marker(out) ELSE <<>>),
                          ![s].failed = ~out.ok]
    /\ Issue(out, t.xid, FALSE)
    /\ UNCHANGED <<next_xid, active, log, image, checkpoints, crashes>>

autocommit_execute(s, q) ==
    LET xid == next_xid
        out == execute(q, versions, [next_xid |-> xid + 1, active |-> active \cup {xid}], xid)
        writes == out.ops \o (IF out.ok THEN Marker(out) ELSE <<>>)
        refused == Refused(out.versions, xid, writes)
    IN
    /\ ~InTxn(s) /\ next_xid < MaxXid
    /\ MayIssue(s, q, versions, xid)
    /\ next_xid' = xid + 1
    /\ advanced' = FALSE
    /\ versions' = IF out.ok /\ ~refused THEN out.versions ELSE undo_all(out.versions, xid, out.ops)
    /\ log' = log \o (IF out.ok /\ ~refused THEN records_for_commit(out.versions, xid, writes)
                      ELSE <<>>)
    /\ Issue(out, 0, FALSE)
    /\ UNCHANGED <<active, txn, image, checkpoints, crashes>>

(***************************************************************************)
(* COPY FROM into a table whose column defaults to nextval of the sequence:  *)
(* copy_from_ingest does not drain seq_advanced, so no marker is logged and   *)
(* the name waits for the next statement of any session.                     *)
(***************************************************************************)
copy_from_ingest(s) ==
    LET own == IF InTxn(s) THEN txn[s].xid ELSE next_xid
        snap == IF InTxn(s) THEN stmt_snapshot(txn[s])
                ELSE [next_xid |-> own + 1, active |-> active \cup {own}]
        out == seq_nextval(versions, snap, own)
    IN
    /\ ~txn[s].failed /\ MayIssue(s, [kind |-> "copy"], versions, own)
    /\ InTxn(s) \/ next_xid < MaxXid
    /\ versions' = out.versions
    /\ advanced' = (advanced \/ out.advanced)
    /\ txn' = [txn EXCEPT ![s].snap = IF InTxn(s) /\ txn[s].level = "RR" THEN snap ELSE @,
                          ![s].failed = InTxn(s) /\ ~out.ok]
    /\ next_xid' = IF InTxn(s) THEN next_xid ELSE own + 1
    /\ Issue(out, txn[s].xid, TRUE)
    /\ UNCHANGED <<active, log, image, checkpoints, crashes>>

(* The history forgets what a rolled-back DDL's own transaction was given. *)
Forget(xid, writes) ==
    issued' = IF Has(writes, DDL)
              THEN Picked(issued, {i \in DOMAIN issued : issued[i].xid # xid})
              ELSE issued

End(s) ==
    /\ txn' = [txn EXCEPT ![s] = NoTxn]
    /\ active' = active \ {txn[s].xid}
    /\ UNCHANGED <<next_xid, advanced, image, statements, checkpoints, crashes>>

Commit(s) ==
    LET t == txn[s] IN
    /\ InTxn(s) /\ ~t.failed /\ Alone(s)
    /\ ~Refused(versions, t.xid, t.writes)
    /\ "twice" \in Quirks \/ Cardinality({i \in DOMAIN versions : versions[i].created_xmin = t.xid}) <= 1
    /\ log' = log \o records_for_commit(versions, t.xid, t.writes)
    /\ issued' = [i \in DOMAIN issued |->
                    [issued[i] EXCEPT !.xid = IF @ = t.xid THEN 0 ELSE @]]
    /\ End(s)
    /\ UNCHANGED versions

CommitRefused(s) ==
    /\ InTxn(s) /\ ~txn[s].failed /\ Alone(s)
    /\ Refused(versions, txn[s].xid, txn[s].writes)
    /\ txn' = [txn EXCEPT ![s].failed = TRUE]
    /\ UNCHANGED <<versions, next_xid, active, advanced, log, image, issued, statements, checkpoints, crashes>>

(* ROLLBACK, and COMMIT of a failed block. *)
txn_rollback(s) ==
    /\ InTxn(s)
    /\ versions' = undo_all(versions, txn[s].xid, txn[s].writes)
    /\ Forget(txn[s].xid, txn[s].writes)
    /\ End(s)
    /\ UNCHANGED log

(* SAVEPOINT, and ROLLBACK TO the innermost one. *)
txn_savepoint(s) ==
    /\ InTxn(s) /\ ~txn[s].failed /\ Len(txn[s].saves) < MaxSavepoints
    /\ txn' = [txn EXCEPT ![s].saves = Append(@, Len(txn[s].writes))]
    /\ UNCHANGED <<versions, next_xid, active, advanced, log, image, issued, statements, checkpoints, crashes>>

Markers(writes) == Picked(writes, {i \in DOMAIN writes : writes[i].op = "advance"})

(* Mutant of txn_rollback_to: the markers of the advances go with the rest. *)
txn_rollback_to_DropsMarkers(s) ==
    LET t == txn[s]
        mark == Last(t.saves)
        undone == SubSeq(t.writes, mark + 1, Len(t.writes))
    IN
    /\ InTxn(s) /\ t.saves # <<>>
    /\ versions' = undo_all(versions, t.xid, undone)
    /\ txn' = [txn EXCEPT ![s].writes = SubSeq(@, 1, mark), ![s].failed = FALSE]
    /\ Forget(t.xid, undone)
    /\ UNCHANGED <<next_xid, active, advanced, log, image, statements, checkpoints, crashes>>

(* Mutant of txn_rollback_to: the oldest op is undone first. *)
txn_rollback_to_OldestFirst(s) ==
    LET t == txn[s]
        mark == Last(t.saves)
        undone == SubSeq(t.writes, mark + 1, Len(t.writes))
    IN
    /\ InTxn(s) /\ t.saves # <<>>
    /\ versions' = undo_all(versions, t.xid, Reverse(undone))
    /\ txn' = [txn EXCEPT ![s].writes = SubSeq(@, 1, mark) \o
                                        Markers(undone),
                          ![s].failed = FALSE]
    /\ Forget(t.xid, undone)
    /\ UNCHANGED <<next_xid, active, advanced, log, image, statements, checkpoints, crashes>>

txn_rollback_to(s) ==
    LET t == txn[s]
        mark == Last(t.saves)
        undone == SubSeq(t.writes, mark + 1, Len(t.writes))
    IN
    /\ InTxn(s) /\ t.saves # <<>>
    /\ versions' = undo_all(versions, t.xid, undone)
    /\ txn' = [txn EXCEPT ![s].writes = SubSeq(@, 1, mark) \o
                                        Markers(undone),
                          ![s].failed = FALSE]
    /\ Forget(t.xid, undone)
    /\ UNCHANGED <<next_xid, active, advanced, log, image, statements, checkpoints, crashes>>

-----------------------------------------------------------------------------
(* The server. *)

(* The live committed versions go into the image, the log is truncated. *)
checkpoint ==
    LET Kept(v) == /\ xid_committed(v.created_xmin)
                   /\ v.dropped_xmax = 0 \/ ~xid_committed(v.dropped_xmax)
        kept == Picked(versions, {i \in DOMAIN versions : Kept(versions[i])})
    IN
    /\ checkpoints < MaxCheckpoints
    /\ log # <<>>
    /\ image' = [versions |-> [i \in DOMAIN kept |-> [kept[i] EXCEPT !.dropped_xmax = 0]],
                 next_xid |-> next_xid]
    /\ log' = <<>>
    /\ checkpoints' = checkpoints + 1
    /\ UNCHANGED <<versions, next_xid, active, advanced, txn, issued, statements, crashes>>

(* Is every record of the log one that replay gets right? *)
Replayable == "alter" \in Quirks \/ \A i \in DOMAIN log : log[i].kind # "alter"

Crash ==
    /\ crashes < MaxCrashes
    /\ Replayable
    /\ "copy" \in Quirks \/ \A i \in DOMAIN issued : ~issued[i].copied
    /\ versions' = Recovered
    /\ next_xid' = RecoveredXid
    /\ active' = {} /\ advanced' = FALSE
    /\ txn' = [s \in Sessions |-> NoTxn]
    /\ issued' = Picked(issued, {i \in DOMAIN issued : issued[i].xid = 0})
    /\ crashes' = crashes + 1
    /\ UNCHANGED <<log, image, statements, checkpoints>>

Next ==
    \/ \E s \in Sessions :
        \/ Begin(s) \/ Commit(s) \/ CommitRefused(s) \/ txn_rollback(s)
        \/ txn_savepoint(s) \/ txn_rollback_to(s) \/ copy_from_ingest(s)
        \/ \E q \in Statements : txn_execute(s, q) \/ autocommit_execute(s, q)
    \/ checkpoint \/ Crash

Spec == Init /\ [][Next]_vars

-----------------------------------------------------------------------------
(* Properties. *)

Versions == [type : {"smallint", "bigint"}, increment : Ints, min : Ints, max : Ints,
             start : Ints, cycle : BOOLEAN, current : Option(Ints), is_called : BOOLEAN,
             created_xmin : 1 .. MaxXid, dropped_xmax : 0 .. MaxXid]

(* A lookup by name, which takes the first visible version, has no choice:    *)
(* at most one version is live for any session (find_sequence).               *)
OneLive ==
    \A own \in active \cup {next_xid} :
        Cardinality({i \in DOMAIN versions : seq_visible(versions[i], Fresh, own)}) <= 1

(* The type invariant: every version keeps its position a 64-bit integer      *)
(* (exec/seq.rs, checked_add), the xids of open blocks are the active ones,   *)
(* and at most one version is live.                                           *)
TypeOK ==
    /\ OneLive
    /\ \A i \in DOMAIN versions : versions[i] \in Versions
    /\ next_xid \in 1 .. MaxXid
    /\ active = {txn[s].xid : s \in {o \in Sessions : InTxn(o)}}
    /\ advanced \in BOOLEAN
    /\ \A s \in Sessions : \A i \in DOMAIN txn[s].saves :
          txn[s].saves[i] <= Len(txn[s].writes)

(* nextval never hands out a value twice: not after the transaction that got  *)
(* it rolled back, whose advance stands, and after a crash not one that a     *)
(* committed transaction holds (seq_nextval; the SeqAdvance record).          *)
NeverTwice ==
    \A i, j \in DOMAIN issued : issued[i].value = issued[j].value => i = j

(* The parameters a session sees, None where there is no sequence. *)
View(vs, snap, own) ==
    LET i == find_sequence(vs, snap, own) IN IF i = 0 THEN None ELSE Some(Params(vs[i]))

(* A restart brings back the sequence the committed transactions made, with   *)
(* its parameters (records_for_commit and apply_record).                      *)
RecoveryMatches ==
    Replayable =>
        View(Recovered, [next_xid |-> RecoveredXid, active |-> {}], 0) =
        View(versions, Fresh, 0)

(* The next nextval, when it does not fail, returns a value within the        *)
(* version's bounds: through wraps, setval, RESTART and changed bounds, for   *)
(* ascending and descending sequences (seq_nextval does not check the first   *)
(* value it returns).                                                         *)
ValueInBounds ==
    \A i \in DOMAIN versions :
        LET n == NextPosition(versions[i])
        IN  n # None => n[1] \in versions[i].min .. versions[i].max

(* What the sequence was before the first DDL of a write log. *)
Before(writes) ==
    LET i == SelectInSeq(writes, LAMBDA w : w.op \in DDL)
    IN  IF writes[i].prev = None THEN None ELSE Some(Params(writes[i].prev[1]))

(* ROLLBACK and ROLLBACK TO give the session the sequence back that it had    *)
(* before the DDL they undo, however many CREATE, ALTER and DROP there were   *)
(* (undo_write_op, newest first).                                             *)
UndoRestores ==
    [][\A s \in Sessions :
         LET t == txn[s]
             mark == IF txn'[s].xid = 0 \/ t.saves = <<>> THEN 0 ELSE Last(t.saves)
             undone == SubSeq(t.writes, mark + 1, Len(t.writes))
         IN  Has(undone, DDL) /\ (txn_rollback(s) \/ txn_rollback_to(s)) =>
                View(versions', [next_xid |-> next_xid', active |-> active'], txn'[s].xid)
                  = Before(undone)]_vars
=============================================================================
