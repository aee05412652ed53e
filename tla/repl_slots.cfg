SPECIFICATION Spec
CONSTANTS
    c1 = c1
    c2 = c2
    s1 = s1
    Conns = {c1, c2}
    Names = {s1}
    Faults = {"append"}
    OverlappingDDL = FALSE
    MaxLsn = 4
    MaxCommits = 2
    MaxCheckpoints = 0
    MaxCrashes = 1
SYMMETRY ConnSymmetry
INVARIANTS
    TypeOK
    ActiveHasOneStream
    SlotCatalogDurable
PROPERTIES
    DurablePositionMonotone
