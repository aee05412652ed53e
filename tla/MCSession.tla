----------------------------- MODULE MCSession -----------------------------
(* The connection of Session.tla for four kinds of client.                 *)
EXTENDS Session

Control == {"BEGIN", "COMMIT", "ROLLBACK"}
Savepoints == {"SAVEPOINT", "ROLLBACK_TO", "RELEASE"}

\* Blocks, COPY, multi-statement messages and portals.
Blocks ==
    [ops |-> Control \cup {"WRITE", "READ", "UTILITY", "SYNTAX", "COPY_FROM", "COPY_TO", "SET"},
     ext |-> {"COMMIT", "WRITE", "COPY_FROM", "COPY_TO", "SYNTAX"},
     settings |-> {"default_transaction_read_only"}, saves |-> {}, cursors |-> {},
     modes |-> {1}, max_stmts |-> 3, max_stack |-> 1]

\* Settings that share a field, under nested savepoints.
Roles ==
    [ops |-> Control \cup Savepoints \cup {"SET", "RESET", "RESET_ALL"},
     ext |-> {}, settings |-> {"role", "session_authorization"}, saves |-> {"a", "b"},
     cursors |-> {}, modes |-> {}, max_stmts |-> 1, max_stack |-> 3]

\* Transaction characteristics under nested savepoints.
Modes ==
    [ops |-> Control \cup Savepoints \cup {"SET_TRANSACTION", "READ", "SET"},
     ext |-> {}, settings |-> {"default_transaction_read_only"}, saves |-> {"a", "b"},
     cursors |-> {}, modes |-> {0, 1}, max_stmts |-> 1, max_stack |-> 2]

\* Cursors under nested savepoints.
Cursors ==
    [ops |-> Control \cup Savepoints \cup {"DECLARE", "FETCH", "CLOSE", "WRITE", "UTILITY"},
     ext |-> {}, settings |-> {}, saves |-> {"a", "b"}, cursors |-> CursorNames,
     modes |-> {}, max_stmts |-> 1, max_stack |-> 0]

\* A client that only sends implicit blocks with a COPY in them.
Copies ==
    [ops |-> {"WRITE", "COPY_FROM"}, ext |-> {}, settings |-> {}, saves |-> {},
     cursors |-> {}, modes |-> {}, max_stmts |-> 2, max_stack |-> 0]

\* A client with a custom setting.
Customs ==
    [ops |-> Control \cup {"SET", "RESET_ALL"}, ext |-> {}, settings |-> {"custom"},
     saves |-> {}, cursors |-> {}, modes |-> {}, max_stmts |-> 1, max_stack |-> 4]

AllClients == {Blocks, Roles, Modes, Cursors}
CopyClients == {Copies}
CustomClients == {Customs}
============================================================================
