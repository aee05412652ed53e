SPECIFICATION Spec
CONSTANTS
    Sessions = {s1, s2}
    Level = {"RC"}
    CreateOpts <- Creates
    AlterOpts <- Alters
    SetValues = {3}
    Quirks = {}
    IntMax = 4
    SmallMax = 3
    MaxXid = 4
    MaxStatements = 3
    MaxSavepoints = 1
    MaxCheckpoints = 1
    MaxCrashes = 1
SYMMETRY Symm
INVARIANTS TypeOK NeverTwice RecoveryMatches ValueInBounds
PROPERTIES UndoRestores
CHECK_DEADLOCK FALSE
