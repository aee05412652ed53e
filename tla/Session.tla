------------------------------- MODULE Session -------------------------------
(***************************************************************************)
(* One client connection (server.rs): the simple and the extended query     *)
(* protocol, transaction blocks explicit and implicit, the settings stack,  *)
(* savepoints, cursors, portals and the COPY sub-protocol.                  *)
(*                                                                         *)
(* A connection has one thread, so what can go wrong is a long sequence of  *)
(* legal messages, and a step that fails in the middle of one.  Statements  *)
(* are operators from a session to the set of results it may produce, named *)
(* after the functions they model; the messages of the wire protocol are    *)
(* the actions.  Row data is the business of Mvcc.tla: here a transaction   *)
(* has a number of staged writes.  A setting is 0 (its default; RESET) or 1 *)
(* (SET); role 0 is the user.                                               *)
(***************************************************************************)
EXTENDS Integers, Sequences, FiniteSets, SequencesExt

CONSTANTS
    Clients,        \* the workloads to explore, a set of Workload records
    CursorNames,    \* cursor names
    Quirks,         \* subset of AllQuirks
    MaxWrites,      \* bound on the staged writes of a transaction
    MaxSaves        \* bound on the savepoints of a transaction

AllOps == {"BEGIN", "COMMIT", "ROLLBACK", "SAVEPOINT", "ROLLBACK_TO", "RELEASE",
           "WRITE", "READ", "UTILITY", "SYNTAX", "COPY_FROM", "COPY_TO", "SET",
           "RESET", "RESET_ALL", "SET_TRANSACTION", "DECLARE", "FETCH", "CLOSE"}

AllSettings == {"generic", "custom", "default_transaction_read_only", "role",
                "session_authorization"}

(***************************************************************************)
(* "commit_fails"     records_for_commit or append_batch fails              *)
(* "set_after_local"  SET of a setting that this transaction SET LOCAL      *)
(* "redeclare"        CLOSE of a cursor older than the innermost savepoint  *)
(* "reset_custom"     RESET ALL in a transaction while "custom" is set      *)
(***************************************************************************)
AllQuirks == {"commit_fails", "set_after_local", "redeclare", "reset_custom"}

\* What one client sends: statements, those of them it sends with the extended
\* protocol, the names they use, the access modes of BEGIN and SET TRANSACTION (1 is
\* READ ONLY), and bounds on the statements of a Query message and the settings stack.
IsWorkload(w) ==
    /\ w.ops \subseteq AllOps /\ w.ext \subseteq w.ops
    /\ w.settings \subseteq AllSettings /\ w.modes \subseteq {0, 1}
    /\ w.cursors \subseteq CursorNames
    /\ w.max_stmts \in Nat \ {0} /\ w.max_stack \in Nat

ASSUME SessionAssumption ==
    /\ \A w \in Clients : IsWorkload(w)
    /\ Quirks \subseteq AllQuirks
    /\ MaxWrites \in Nat
    /\ MaxSaves \in Nat

VARIABLES
    session,    \* struct Session: transaction, settings, cursors
    query,      \* the simple Query message in progress
    prepared,   \* Session.stmts['']: the statement Parse stored
    portal,     \* Session.portals['']
    in_error,   \* Session.in_error: discard input until Sync
    client      \* the workload of this behaviour; never changes

vars == <<session, query, prepared, portal, in_error, client>>

-----------------------------------------------------------------------------
(* The state.                                                               *)

None == -1                  \* Option::None of an Option<bool>
Or(a, b) == IF a = None THEN b ELSE a

\* The fields behind the settings: SET SESSION AUTHORIZATION changes two.
Fields == {"generic", "custom", "default_ro", "user", "role"}
Defaults == [f \in Fields |-> IF f = "default_ro" THEN None ELSE 0]

Covers(name) ==
    CASE name = "session_authorization" -> {"user", "role"}
      [] name = "default_transaction_read_only" -> {"default_ro"}
      [] OTHER -> {name}

NoTxn == [open |-> FALSE, implicit |-> FALSE, failed |-> FALSE, read_only |-> None,
          snap_set |-> FALSE, writes |-> 0, guc_stack |-> <<>>, saves |-> <<>>,
          before |-> Defaults, want |-> Defaults, errs |-> {}]

\* before, want and errs are history: the settings when the transaction began,
\* the ones its COMMIT should leave, the errors reported while it was open.
NewTxn(s, implicit, ro) ==
    [NoTxn EXCEPT !.open = TRUE, !.implicit = implicit, !.read_only = ro,
                  !.before = s.vars, !.want = s.vars]

NoCursor == [st |-> "none", hold |-> FALSE, depth |-> 0]
Idle == [active |-> FALSE, left |-> 0, implicit |-> FALSE, errs |-> {}]
NoStmt == [op |-> "none", name |-> "none", v |-> None, flag |-> FALSE]
NoPortal == [stmt |-> NoStmt, st |-> "none", ran |-> 0]

\* ended is history: what the last step did to the block it ran in.
Fresh == [txn |-> NoTxn, vars |-> Defaults, next_ro |-> None, ended |-> "no",
          cursors |-> [c \in CursorNames |-> NoCursor]]

Ok(s) == [s |-> s, err |-> "none"]
Fail(s, class) == [s |-> s, err |-> class]
Failed(s) == [s EXCEPT !.txn.failed = s.txn.open]

-----------------------------------------------------------------------------
(* The settings stack.                                                      *)

push_guc_entry(s, name, local) ==
    IF s.txn.open
    THEN [s EXCEPT !.txn.guc_stack =
             Append(@, [local |-> local, saved |-> Restrict(s.vars, Covers(name))])]
    ELSE s

\* restore_saved_guc: only what v still has comes back; the characteristics of a
\* transaction that is over are nowhere to be restored.
Over(new, v) == [f \in DOMAIN v |-> IF f \in DOMAIN new THEN new[f] ELSE v[f]]

\* The entries are undone newest first; a commit undoes only the local ones.
Restored(all, entries, commit) ==
    LET n == Len(entries)
        undo[k \in 0..n] ==             \* with the k newest undone
            IF k = 0 THEN all
            ELSE LET e == entries[n - k + 1] IN
                 IF commit /\ ~e.local THEN undo[k - 1] ELSE Over(e.saved, undo[k - 1])
    IN  undo[n]

\* Mutant: the entries are undone oldest first.
revert_guc_stack_OldestFirst(s, commit) ==
    [s EXCEPT !.vars = Restored(@, Reverse(s.txn.guc_stack), commit)]

revert_guc_stack(s, commit) ==
    [s EXCEPT !.vars = Restored(@, s.txn.guc_stack, commit)]

Assign(s, name, new, local) ==
    LET p == push_guc_entry(s, name, local) IN
    [p EXCEPT !.vars = Over(new, @),
              !.txn.want = IF s.txn.open /\ ~local THEN Over(new, @) ELSE @]

Value(name, v) ==
    [f \in Covers(name) |-> v]

ResetValue(s, name) ==
    CASE name = "role" -> [role |-> s.vars.user]
      [] OTHER -> Restrict(Defaults, Covers(name))

-----------------------------------------------------------------------------
(* Transaction blocks.                                                      *)

Aborted(s) ==
    LET r == revert_guc_stack(s, FALSE) IN
    [r EXCEPT !.txn = NoTxn, !.cursors = [c \in CursorNames |-> NoCursor],
              !.ended = "abort"]

Committed(s) ==
    LET r == revert_guc_stack(s, TRUE) IN
    [r EXCEPT !.txn = NoTxn,
              !.cursors = [c \in CursorNames |-> IF @[c].hold THEN [@[c] EXCEPT !.depth = 0] ELSE NoCursor],
              !.ended = "commit"]

begin_implicit_txn(s) ==
    [s EXCEPT !.txn = NewTxn(s, TRUE, Or(s.next_ro, s.vars.default_ro)),
              !.next_ro = None]

abort_implicit_txn(s) == IF s.txn.open /\ s.txn.implicit THEN Aborted(s) ELSE s

\* Mutant: the failed flag is not looked at.
commit_taken_txn_Failed(s) == {Ok(Committed(s)), Fail(Aborted(s), "exec")}

\* A deferred check may fail at COMMIT; the record or its append may fail.
commit_taken_txn(s) ==
    IF s.txn.failed
    THEN {Ok(Aborted(s))}
    ELSE {Ok(Committed(s)), Fail(Aborted(s), "exec")}
         \cup (IF "commit_fails" \in Quirks THEN {Fail(Failed(s), "exec")} ELSE {})

txn_begin(s, ro) ==
    CASE ~s.txn.open -> [s EXCEPT !.txn = NewTxn(s, FALSE, ro)]
      [] s.txn.open /\ s.txn.implicit ->
            [s EXCEPT !.txn.implicit = FALSE, !.txn.read_only = ro]
      [] OTHER -> s

\* Mutant: the one-shot mode is taken only when BEGIN has no mode of its own.
Begin_LazyTake(s, ro) ==
    {Ok([txn_begin(s, Or(ro, Or(s.next_ro, s.vars.default_ro)))
            EXCEPT !.next_ro = IF ro = None THEN None ELSE @])}

Begin(s, ro) ==
    {Ok([txn_begin(s, Or(ro, Or(s.next_ro, s.vars.default_ro)))
            EXCEPT !.next_ro = None])}

txn_commit(s, chain) ==
    IF ~s.txn.open \/ s.txn.implicit
    THEN IF chain THEN {Fail(s, "utility")}
         ELSE IF s.txn.open THEN commit_taken_txn(s) ELSE {Ok(s)}
    ELSE {IF chain /\ r.err = "none"
          THEN Ok(txn_begin(r.s, s.txn.read_only)) ELSE r : r \in commit_taken_txn(s)}

txn_rollback(s, chain) ==
    IF ~s.txn.open \/ s.txn.implicit
    THEN IF chain THEN {Fail(s, "utility")}
         ELSE IF s.txn.open THEN {Ok(Aborted(s))} ELSE {Ok(s)}
    ELSE {Ok(IF chain THEN txn_begin(Aborted(s), s.txn.read_only) ELSE Aborted(s))}

effective_read_only(s) ==
    (IF s.txn.open THEN s.txn.read_only ELSE s.vars.default_ro) = 1

-----------------------------------------------------------------------------
(* Savepoints.                                                              *)

\* Mutant: the mark holds no cursor, so ROLLBACK TO closes older ones too.
txn_savepoint_NoCursors(s, name) ==
    IF ~s.txn.open \/ s.txn.implicit
    THEN Fail(s, "utility")
    ELSE Ok([s EXCEPT !.txn.saves = Append(@,
            [name |-> name, writes |-> s.txn.writes, guc |-> Len(s.txn.guc_stack),
             ro |-> s.txn.read_only, cursors |-> {},
             vars |-> s.vars, want |-> s.txn.want, errs |-> s.txn.errs])])

\* vars, want and errs are history, for RollbackToRestores and ErrorsAbort.
txn_savepoint(s, name) ==
    IF ~s.txn.open \/ s.txn.implicit
    THEN Fail(s, "utility")
    ELSE Ok([s EXCEPT !.txn.saves = Append(@,
            [name |-> name, writes |-> s.txn.writes, guc |-> Len(s.txn.guc_stack),
             ro |-> s.txn.read_only,
             cursors |-> {c \in CursorNames : s.cursors[c].st # "none"},
             vars |-> s.vars, want |-> s.txn.want, errs |-> s.txn.errs])])

SaveIndex(s, name) == SelectLastInSeq(s.txn.saves, LAMBDA m : m.name = name)

NoSave(s, name) == ~s.txn.open \/ s.txn.implicit \/ SaveIndex(s, name) = 0

\* The settings with the characteristics of the transaction.
WithTxn(v, ro) == [f \in Fields \cup {"txn_ro"} |-> IF f = "txn_ro" THEN ro ELSE v[f]]

\* Mutant: the savepoints after the named one survive.
txn_rollback_to_KeepsInner(s, name) ==
    IF NoSave(s, name) THEN Fail(s, "utility") ELSE
    LET m == s.txn.saves[SaveIndex(s, name)]
        undone == SubSeq(s.txn.guc_stack, m.guc + 1, Len(s.txn.guc_stack))
        all == Restored(WithTxn(s.vars, m.ro), undone, FALSE)
    IN  Ok([s EXCEPT !.vars = Restrict(all, Fields),
                     !.txn = [@ EXCEPT !.writes = m.writes, !.failed = FALSE,
                                       !.read_only = all["txn_ro"],
                                       !.guc_stack = SubSeq(@, 1, m.guc)]])

\* Both the mark and the canceled entries restore the characteristics; the
\* entries come last.
txn_rollback_to(s, name) ==
    IF NoSave(s, name) THEN Fail(s, "utility") ELSE
    LET i == SaveIndex(s, name)
        m == s.txn.saves[i]
        undone == SubSeq(s.txn.guc_stack, m.guc + 1, Len(s.txn.guc_stack))
        all == Restored(WithTxn(s.vars, m.ro), undone, FALSE)
    IN  Ok([s EXCEPT
            !.vars = Restrict(all, Fields),
            !.cursors = [c \in CursorNames |->
                            IF c \in m.cursors THEN s.cursors[c] ELSE NoCursor],
            !.txn = [s.txn EXCEPT !.writes = m.writes,
                                  !.failed = FALSE,
                                  !.read_only = all["txn_ro"],
                                  !.guc_stack = SubSeq(@, 1, m.guc),
                                  !.saves = SubSeq(@, 1, i),
                                  !.want = m.want,
                                  !.errs = m.errs],
            !.ended = "rewind"])

\* The stacked settings stay; depth is history (see cursor_declare).
txn_release(s, name) ==
    IF NoSave(s, name) THEN Fail(s, "utility") ELSE
    LET i == SaveIndex(s, name) IN
    Ok([s EXCEPT
        !.cursors = [c \in CursorNames |->
                        [s.cursors[c] EXCEPT !.depth = IF @ >= i THEN i - 1 ELSE @]],
        !.txn = [s.txn EXCEPT !.read_only = s.txn.saves[i].ro,
                              !.saves = SubSeq(@, 1, i - 1)]])

-----------------------------------------------------------------------------
(* Settings and transaction characteristics.                                *)

stmt_set_guc(s, name, v, local) ==
    {Fail(s, "utility")} \cup
    (IF local /\ ~s.txn.open THEN {} ELSE {Ok(Assign(s, name, Value(name, v), local))})

stmt_reset_guc(s, name) == {Ok(Assign(s, name, ResetValue(s, name), FALSE))}

\* RESET ALL records no entry for a custom setting (name_to_static does not
\* know it) and leaves the session user.
ResetAll(s) ==
    LET a == Assign(s, "default_transaction_read_only", [default_ro |-> None], FALSE)
        b == Assign(a, "role", [role |-> s.vars.user], FALSE)
        c == IF s.vars.generic # 0 THEN Assign(b, "generic", [generic |-> 0], FALSE) ELSE b
    IN  {Ok([c EXCEPT !.vars.custom = 0, !.txn.want.custom = IF s.txn.open THEN 0 ELSE @])}

stmt_set_transaction(s, ro) ==
    LET t == s.txn
        refused == /\ ro = 0
                   /\ Or(t.read_only, s.vars.default_ro) = 1
                   /\ t.saves # <<>> \/ t.snap_set
    IN  CASE ~t.open -> Ok([s EXCEPT !.next_ro = ro])
          [] t.open /\ refused -> Fail(s, "utility")
          [] OTHER ->
                Ok([s EXCEPT !.txn.read_only = ro,
                             !.txn.guc_stack = IF ro = t.read_only THEN @
                                ELSE Append(@, [local |-> FALSE,
                                                saved |-> [txn_ro |-> t.read_only]])])

-----------------------------------------------------------------------------
(* Data statements, cursors, COPY.                                          *)

\* The executor may refuse any statement; in a block that marks it failed.
txn_execute(s, writes) ==
    LET t == [s EXCEPT !.txn.snap_set = TRUE] IN
    {Ok([t EXCEPT !.txn.writes = @ + writes]), Fail(Failed(t), "exec")}

autocommit_execute(s, writes) ==
    {Ok([s EXCEPT !.ended = IF writes > 0 THEN "commit" ELSE @]), Fail(s, "exec")}

Execute(s, writes) ==
    IF s.txn.open THEN txn_execute(s, writes) ELSE autocommit_execute(s, writes)

\* depth is history: the savepoints the cursor is declared under.
cursor_declare(s, c, hold) ==
    IF (~s.txn.open /\ ~hold) \/ s.cursors[c].st # "none"
    THEN Fail(s, "utility")
    ELSE Ok([s EXCEPT !.cursors[c] =
                [st |-> "lazy", hold |-> hold, depth |-> Len(s.txn.saves)]])

\* The first FETCH runs the query; an error leaves the cursor dead.
cursor_fetch(s, c) ==
    CASE s.cursors[c].st \in {"none", "dead"} -> {Fail(s, "utility")}
      [] s.cursors[c].st = "open" -> {Ok(s)}
      [] OTHER -> {[r EXCEPT !.s.cursors[c].st = IF r.err = "none" THEN "open" ELSE "dead"]
                    : r \in Execute(s, 0)}

cursor_close(s, c) ==
    IF s.cursors[c].st = "none" THEN Fail(s, "utility")
    ELSE Ok([s EXCEPT !.cursors[c] = NoCursor])

\* copy_from_ingest: rows that do not parse roll the transaction back at once.
copy_from_ingest(s) ==
    Execute(s, 1) \cup {Fail(r.s, "copy") : r \in txn_rollback(s, FALSE)}

\* The table is checked and the rows are read before anything is ingested;
\* those errors are reported and leave the transaction as it was.
CopyFrom(s) ==
    IF s.txn.failed THEN {Fail(s, "exec")}
    ELSE {Fail(s, "copy")} \cup copy_from_ingest(s)

CopyTo(s) == IF s.txn.failed THEN {Fail(s, "exec")} ELSE Execute(s, 0)

-----------------------------------------------------------------------------
(* Statements.                                                              *)

\* flag is AND CHAIN, LOCAL or WITH HOLD.
StmtsOf(op) ==
    [op : {op},
     name : CASE op \in {"SAVEPOINT", "ROLLBACK_TO", "RELEASE"} -> client.saves
              [] op \in {"SET", "RESET"} -> client.settings
              [] op \in {"DECLARE", "FETCH", "CLOSE"} -> client.cursors
              [] OTHER -> {"none"},
     v : CASE op = "BEGIN" -> {None} \cup client.modes
           [] op = "SET_TRANSACTION" -> client.modes
           [] op = "SET" -> {1}
           [] OTHER -> {None},
     flag : IF op \in {"COMMIT", "ROLLBACK", "SET", "DECLARE"} THEN BOOLEAN ELSE {FALSE}]

Stmts == UNION {StmtsOf(op) : op \in client.ops}

allowed_in_aborted(st) == st.op \in {"COMMIT", "ROLLBACK", "ROLLBACK_TO"}

\* UTILITY stands for the statements that change nothing here and can fail
\* without the executor: PREPARE, EXECUTE of an unknown name, CHECKPOINT ...
Dispatch(s, st) ==
    CASE st.op = "BEGIN" -> Begin(s, st.v)
      [] st.op = "COMMIT" -> txn_commit(s, st.flag)
      [] st.op = "ROLLBACK" -> txn_rollback(s, st.flag)
      [] st.op = "SAVEPOINT" -> {txn_savepoint(s, st.name)}
      [] st.op = "ROLLBACK_TO" -> {txn_rollback_to(s, st.name)}
      [] st.op = "RELEASE" -> {txn_release(s, st.name)}
      [] st.op = "SET" -> stmt_set_guc(s, st.name, st.v, st.flag)
      [] st.op = "RESET" -> stmt_reset_guc(s, st.name)
      [] st.op = "RESET_ALL" -> ResetAll(s)
      [] st.op = "SET_TRANSACTION" -> {stmt_set_transaction(s, st.v)}
      [] st.op = "DECLARE" -> {cursor_declare(s, st.name, st.flag)}
      [] st.op = "FETCH" -> cursor_fetch(s, st.name)
      [] st.op = "CLOSE" -> {cursor_close(s, st.name)}
      [] st.op = "UTILITY" -> {Ok(s), Fail(s, "utility")}
      [] st.op = "WRITE" -> Execute(s, 1)
      [] st.op = "READ" -> Execute(s, 0)

run_statement(s, st) ==
    CASE s.txn.failed /\ ~allowed_in_aborted(st) -> {Fail(s, "exec")}
      [] ~s.txn.failed /\ effective_read_only(s) /\ st.op = "WRITE" ->
            {Fail(Failed(s), "exec")}
      [] OTHER -> Dispatch(s, st)

\* The bounds, and what the client does not do unless Quirks says so.
Touched(st) ==
    CASE st.op = "SET" /\ ~st.flag -> Covers(st.name)
      [] st.op = "RESET" -> Covers(st.name)
      [] st.op = "RESET_ALL" -> Fields \ {"user"}
      [] OTHER -> {}

LocalFields(s) ==
    UNION {DOMAIN e.saved : e \in {x \in ToSet(s.txn.guc_stack) : x.local}}

MayIssue(s, st) ==
    /\ st.op \in {"WRITE", "COPY_FROM"} => s.txn.writes < MaxWrites
    /\ st.op = "SAVEPOINT" => Len(s.txn.saves) < MaxSaves
    /\ st.op \in {"SET", "RESET", "SET_TRANSACTION"} => Len(s.txn.guc_stack) < client.max_stack
    /\ st.op = "RESET_ALL" => /\ Len(s.txn.guc_stack) + 3 <= client.max_stack
                              /\ s.txn.open /\ s.vars.custom # 0 => "reset_custom" \in Quirks
    /\ Touched(st) \cap LocalFields(s) # {} => "set_after_local" \in Quirks
    /\ st.op = "CLOSE" /\ (\E m \in ToSet(s.txn.saves) : st.name \in m.cursors)
            => "redeclare" \in Quirks

-----------------------------------------------------------------------------
(* The simple query protocol.                                               *)

Now == [session EXCEPT !.ended = "no"]

Reported(s, err) ==
    IF err # "none" /\ s.txn.open THEN [s EXCEPT !.txn.errs = @ \cup {err}] ELSE s

\* One Query message of n statements.
ReceiveQuery(n) ==
    /\ ~query.active /\ ~in_error
    /\ LET implicit == n > 1 /\ ~session.txn.open IN
       /\ session' = IF implicit THEN begin_implicit_txn(Now) ELSE Now
       /\ query' = [active |-> TRUE, left |-> n, implicit |-> implicit, errs |-> {}]
    /\ UNCHANGED <<prepared, portal, in_error, client>>

InQuery(st) == query.active /\ query.left > 0 /\ MayIssue(session, st)

\* A statement of the message other than COPY: the first error ends the
\* message and aborts an implicit block; after COMMIT or ROLLBACK the rest of
\* the message gets a new one.
QueryStatement(st) ==
    /\ InQuery(st)
    /\ st.op \notin {"COPY_FROM", "COPY_TO"}
    /\ \E r \in IF st.op = "SYNTAX" THEN {Fail(Failed(Now), "exec")}
                                     ELSE run_statement(Now, st) :
        /\ session' =
              IF r.err # "none" THEN abort_implicit_txn(Reported(r.s, r.err))
              ELSE IF query.implicit /\ query.left > 1 /\ ~r.s.txn.open
                   THEN begin_implicit_txn(r.s) ELSE r.s
        /\ query' = [query EXCEPT !.left = IF r.err # "none" THEN 0 ELSE @ - 1,
                                  !.errs = @ \cup ({r.err} \ {"none"})]
    /\ UNCHANGED <<prepared, portal, in_error, client>>

\* COPY: its errors were reported by the handler, which returns Ok, so the
\* message goes on; only the read-only refusal ends it.
QueryCopy(st) ==
    /\ InQuery(st)
    /\ st.op \in {"COPY_FROM", "COPY_TO"}
    /\ IF st.op = "COPY_FROM" /\ effective_read_only(session)
       THEN /\ session' = Reported(Now, "copy")
            /\ query' = [query EXCEPT !.left = 0, !.errs = @ \cup {"copy"}]
       ELSE \E r \in IF st.op = "COPY_FROM" THEN CopyFrom(Now) ELSE CopyTo(Now) :
            /\ session' = Reported(r.s, r.err)
            /\ query' = [query EXCEPT !.left = @ - 1,
                                      !.errs = @ \cup IF r.err # "none" THEN {"copy"} ELSE {}]
    /\ UNCHANGED <<prepared, portal, in_error, client>>

\* A frame with a bad length in the COPY data: the only InvalidData error.
QueryCopyGarbled(st) ==
    /\ InQuery(st)
    /\ st.op = "COPY_FROM" /\ ~effective_read_only(session) /\ ~session.txn.failed
    /\ session' = abort_implicit_txn(Now)
    /\ query' = [query EXCEPT !.left = IF session.txn.implicit THEN 0 ELSE @ - 1]
    /\ UNCHANGED <<prepared, portal, in_error, client>>

\* The end of the message commits a surviving implicit block.
QueryEnd ==
    /\ query.active /\ query.left = 0
    /\ \E r \in IF query.implicit /\ session.txn.implicit
                THEN commit_taken_txn(Now) ELSE {Ok(Now)} :
        session' = Reported(r.s, r.err)
    /\ query' = Idle
    /\ UNCHANGED <<prepared, portal, in_error, client>>

-----------------------------------------------------------------------------
(* The extended query protocol.                                             *)

Listening == client.ext # {} /\ ~query.active /\ ~in_error

\* The transaction fails and input is discarded until Sync.
protocol_error(s) ==
    /\ session' = Reported(Failed(s), "exec")
    /\ in_error' = TRUE

Blocked(st) == session.txn.failed /\ ~allowed_in_aborted(st)

Snapshot(s) == [s EXCEPT !.txn.snap_set = s.txn.open]

\* A message whose payload is shorter than its counts (parse_msg).
Malformed ==
    /\ Listening
    /\ protocol_error(Now)
    /\ UNCHANGED <<query, prepared, portal, client>>

handle_parse(st) ==
    /\ Listening
    /\ IF st.op = "SYNTAX" \/ Blocked(st)
       THEN protocol_error(Now) /\ UNCHANGED prepared
       ELSE prepared' = st /\ session' = Now /\ UNCHANGED in_error
    /\ UNCHANGED <<query, portal, client>>

handle_bind ==
    /\ Listening
    /\ \/ /\ protocol_error(Now) \/ protocol_error(Snapshot(Now))
          /\ UNCHANGED portal
       \/ /\ prepared # NoStmt /\ ~Blocked(prepared)
          /\ portal' = [stmt |-> prepared, st |-> "bound", ran |-> 0]
          /\ session' = Snapshot(Now)
          /\ UNCHANGED in_error
    /\ UNCHANGED <<query, prepared, client>>

handle_describe ==
    /\ Listening
    /\ \/ protocol_error(Now) \/ protocol_error(Snapshot(Now))
       \/ /\ prepared # NoStmt /\ ~Blocked(prepared)
          /\ session' \in {Now, Snapshot(Now)}
          /\ UNCHANGED in_error
    /\ UNCHANGED <<query, prepared, portal, client>>

\* A result with rows may not fit the Execute's row limit.
HasRows(st) == st.op \in {"WRITE", "READ", "FETCH"}

Results(st) ==
    CASE st.op = "COPY_FROM" -> IF effective_read_only(session) THEN {Fail(Now, "copy")}
                                ELSE CopyFrom(Now)
      [] st.op = "COPY_TO" -> CopyTo(Now)
      [] OTHER -> run_statement(Now, st)

handle_execute ==
    /\ Listening
    /\ CASE portal.st = "none" \/ Blocked(portal.stmt) ->
              protocol_error(Now) /\ UNCHANGED portal
         [] ~Blocked(portal.stmt) /\ portal.st = "done" ->
              session' = Now /\ UNCHANGED <<portal, in_error>>
         [] ~Blocked(portal.stmt) /\ portal.st = "suspended" ->
              /\ \E st \in {"suspended", "done"} : portal' = [portal EXCEPT !.st = st]
              /\ session' = Now /\ UNCHANGED in_error
         [] ~Blocked(portal.stmt) /\ portal.st = "bound" ->
              /\ MayIssue(session, portal.stmt)
              /\ \E r \in Results(portal.stmt) :
                   IF r.err # "none"
                   THEN protocol_error(r.s) /\ UNCHANGED portal
                   ELSE /\ \E st \in IF HasRows(portal.stmt) THEN {"suspended", "done"}
                                                              ELSE {"done"} :
                            portal' = [portal EXCEPT !.st = st, !.ran = @ + 1]
                        /\ session' = r.s /\ UNCHANGED in_error
    /\ UNCHANGED <<query, prepared, client>>

handle_close ==
    /\ Listening
    /\ \/ prepared' = NoStmt /\ UNCHANGED portal
       \/ portal' = NoPortal /\ UNCHANGED prepared
    /\ session' = Now
    /\ UNCHANGED <<query, in_error, client>>

\* Until Sync every other message is discarded.
Sync ==
    /\ in_error
    /\ in_error' = FALSE
    /\ session' = Now
    /\ UNCHANGED <<query, prepared, portal, client>>

\* Terminate, end of file or an I/O error in any handler: the open
\* transaction is rolled back; the next connection starts afresh.
Disconnect ==
    /\ session' = Fresh
    /\ query' = Idle
    /\ prepared' = NoStmt
    /\ portal' = NoPortal
    /\ in_error' = FALSE
    /\ UNCHANGED client

-----------------------------------------------------------------------------
Init ==
    /\ session = Fresh
    /\ query = Idle
    /\ prepared = NoStmt
    /\ portal = NoPortal
    /\ in_error = FALSE
    /\ client \in Clients

Next ==
    \/ \E n \in 1..client.max_stmts : ReceiveQuery(n)
    \/ \E st \in Stmts : QueryStatement(st)
    \/ \E st \in Stmts : QueryCopy(st)
    \/ \E st \in Stmts : QueryCopyGarbled(st)
    \/ QueryEnd
    \/ Malformed
    \/ \E st \in Stmts : st.op \in client.ext /\ handle_parse(st)
    \/ handle_bind
    \/ handle_describe
    \/ handle_execute
    \/ handle_close
    \/ Sync
    \/ Disconnect

Spec == Init /\ [][Next]_vars

-----------------------------------------------------------------------------
(* Properties.                                                              *)

Flag == {None, 0, 1}
Vars == [Fields -> Flag]
ErrClasses == {"exec", "utility", "copy"}

TxnType(t) ==
    /\ {t.open, t.implicit, t.failed, t.snap_set} \subseteq BOOLEAN
    /\ t.read_only \in Flag
    /\ t.writes \in 0..MaxWrites
    /\ Len(t.guc_stack) <= client.max_stack
    /\ \A e \in ToSet(t.guc_stack) : e.local \in BOOLEAN
                                    /\ DOMAIN e.saved \subseteq Fields \cup {"txn_ro"}
    /\ Len(t.saves) <= MaxSaves
    /\ t.before \in Vars /\ t.want \in Vars
    /\ t.errs \subseteq ErrClasses
    /\ ~t.open => t = NoTxn

\* The marks of the savepoints (write log, settings stack) are positions inside
\* the logs they cut, innermost last: a ROLLBACK TO or RELEASE that truncated
\* one list and not the other would cut at a stale position or panic.
MarksNested ==
    LET t == session.txn IN
    /\ t.saves # <<>> => t.open /\ ~t.implicit
    /\ \A i \in DOMAIN t.saves :
        /\ t.saves[i].guc <= Len(t.guc_stack) /\ t.saves[i].writes <= t.writes
        /\ \A j \in 1..i : /\ t.saves[j].guc <= t.saves[i].guc
                           /\ t.saves[j].writes <= t.saves[i].writes
    /\ "redeclare" \notin Quirks =>
        \A c \in CursorNames : session.cursors[c].depth <= Len(t.saves)

\* The types of the session, of the message in progress and of the portal; a
\* closed transaction has left nothing behind, the marks are nested, and a
\* portal, however often it is executed, suspended and resumed, has run its
\* statement at most once.
TypeOK ==
    /\ MarksNested
    /\ TxnType(session.txn)
    /\ session.vars \in Vars
    /\ session.next_ro \in Flag
    /\ session.ended \in {"no", "commit", "abort", "rewind"}
    /\ session.cursors \in [CursorNames -> [st : {"none", "lazy", "open", "dead"},
                                           hold : BOOLEAN, depth : 0..MaxSaves]]
    /\ query \in [active : BOOLEAN, left : 0..client.max_stmts, implicit : BOOLEAN,
                  errs : SUBSET ErrClasses]
    /\ prepared \in Stmts \cup {NoStmt}
    /\ portal \in [stmt : Stmts \cup {NoStmt}, ran : 0..1,
                   st : {"none", "bound", "suspended", "done"}]
    /\ in_error \in BOOLEAN

\* However a block ends (COMMIT, ROLLBACK, a failed COMMIT, an error in an
\* implicit block), an abort leaves the settings as they were when it began, and
\* a commit leaves what its last surviving SET of each said, SET LOCAL undone.
SettingsAtEnd ==
    [][/\ session'.ended = "abort" => session'.vars = session.txn.before
       /\ session'.ended = "commit" /\ session.txn.open
            => session'.vars = session.txn.want]_vars

\* ROLLBACK TO SAVEPOINT brings back the settings and characteristics in force
\* at the savepoint, whatever was released in between, and closes exactly the
\* cursors declared since.
RollbackToRestores ==
    [][session'.ended = "rewind" =>
        LET m == Last(session'.txn.saves) IN
        /\ session'.vars = m.vars
        /\ session'.txn.read_only = m.ro
        /\ \A c \in CursorNames : session'.cursors[c] =
                IF session.cursors[c].depth < Len(session'.txn.saves)
                THEN session.cursors[c] ELSE NoCursor]_vars

\* Nothing is committed by a transaction in which the executor, the parser or
\* the extended protocol reported an error (unless ROLLBACK TO undid it), by an
\* implicit block in which any statement but COPY did, or by a Query message
\* after such an error.
ErrorsAbort ==
    [][session'.ended = "commit" =>
        /\ "exec" \notin session.txn.errs
        /\ session.txn.implicit => session.txn.errs \subseteq {"copy"}
        /\ query.errs \subseteq {"copy"}]_vars

\* The same of every error, COPY included, as handle_query's comment has it.
AnyErrorAborts ==
    [][session'.ended = "commit" /\ session.txn.implicit =>
        session.txn.errs \cup query.errs = {}]_vars

\* An implicit block does not outlive its Query message, except failed: when
\* its commit failed, and then nothing but its rollback is accepted.
ImplicitEndsWithQuery ==
    session.txn.implicit /\ ~query.active => session.txn.failed

\* SET TRANSACTION outside a block is for the next transaction only: no
\* transaction is open while it is still pending.
OneShotConsumed == session.txn.open => session.next_ro = None

\* Outside a transaction only WITH HOLD cursors are open.
HeldOutsideTxn ==
    ~session.txn.open => \A c \in CursorNames :
        session.cursors[c].st # "none" => session.cursors[c].hold

\* What crosses the end of a block and of a message: WITH HOLD cursors, never a
\* one-shot mode into the middle of a block, and no implicit block but a failed
\* one.
BlockBoundary == HeldOutsideTxn /\ OneShotConsumed /\ ImplicitEndsWithQuery
=============================================================================
