SPECIFICATION Spec
CONSTANTS
    Faults = {"crash", "torn", "write", "sync", "ckpt", "reset"}
    AppendBehindJunk = FALSE
    MaxBatch = 4
    MaxCheckpoints = 3
INVARIANT AckedOnce
