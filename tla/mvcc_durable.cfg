SPECIFICATION Spec
CONSTANTS
    Session = {s1, s2}
    Key = {a, b}
    InitKeys = {a}
    Level = {"RC", "RR"}
    Unique = TRUE
    Client = {"insert", "update", "delete", "lock", "auto", "checkpoint"}
    Faults = {"append", "restart"}
    MaxXid = 4
    MaxRow = 3
    MaxSavepoints = 0
    MaxWrites = 2
    s1 = s1
    s2 = s2
    a = a
    b = b
SYMMETRY Sessions
INVARIANT TypeOK
INVARIANT OneLiveVersionPerKey
INVARIANT RecoveryMatchesMemory
PROPERTY ImplementsStore
