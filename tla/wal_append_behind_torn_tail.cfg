SPECIFICATION Spec
CONSTANTS
    Faults = {"crash", "torn"}
    AppendBehindJunk = TRUE
    MaxBatch = 3
    MaxCheckpoints = 2
INVARIANT AckedSurvive
