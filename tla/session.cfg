SPECIFICATION Spec
CONSTANTS
    Clients <- AllClients
    CursorNames = {"c", "d"}
    Quirks = {"commit_fails"}
    MaxWrites = 1
    MaxSaves = 2
INVARIANTS TypeOK BlockBoundary
PROPERTIES SettingsAtEnd RollbackToRestores ErrorsAbort
CHECK_DEADLOCK FALSE
