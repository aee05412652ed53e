SPECIFICATION Spec
CONSTANTS
    Sessions = {s1, s2}
    Keys = {1, 2}
    Loaded = {1}
    Constraints <- SomeConstraints
    Quirks = {"restore", "race", "rekey"}
    MaxXid = 6
    MaxRows = 4
    MaxSavepoints = 1
    MaxStatements = 3
SYMMETRY Symm
INVARIANTS TypeOK FkHolds QueueHoldsPostponed
PROPERTIES NoFalseReject FlushSparesParented
CHECK_DEADLOCK FALSE
