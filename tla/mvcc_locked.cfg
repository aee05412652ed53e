SPECIFICATION Spec
CONSTANTS
    Session = {s1, s2}
    Key = {a}
    InitKeys = {a}
    Level = {"RC", "RR"}
    Unique = FALSE
    Client = {"update", "delete", "lock", "savepoint", "reupdate"}
    Faults = {}
    MaxXid = 5
    MaxRow = 3
    MaxSavepoints = 1
    MaxWrites = 2
    s1 = s1
    s2 = s2
    a = a
SYMMETRY Sessions
PROPERTY SnapshotStable
PROPERTY LockedRowStaysLive
PROPERTY CommitTakesEffect
PROPERTY RollbackKeepsLiveRows
