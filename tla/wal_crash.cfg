SPECIFICATION Spec
CONSTANTS
    Faults = {"crash", "torn", "write", "ckpt"}
    AppendBehindJunk = FALSE
    MaxBatch = 4
    MaxCheckpoints = 3
INVARIANT TypeOK
INVARIANT LsnMatchesFile
PROPERTY LsnNeverRegresses
PROPERTY ImplementsLog
