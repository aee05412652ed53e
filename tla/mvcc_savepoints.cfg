SPECIFICATION Spec
CONSTANTS
    Session = {s1, s2}
    Key = {a}
    InitKeys = {a}
    Level = {"RR"}
    Unique = FALSE
    Client = {"update", "lock", "unlocked", "savepoint"}
    Faults = {}
    MaxXid = 5
    MaxRow = 4
    MaxSavepoints = 2
    MaxWrites = 2
    s1 = s1
    s2 = s2
    a = a
SYMMETRY Sessions
INVARIANT XidOwnership
INVARIANT LockTable
INVARIANT SavepointMarks
INVARIANT AbortedLeaveNoVersion
INVARIANT UndoAgrees
