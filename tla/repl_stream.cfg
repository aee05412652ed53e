SPECIFICATION FairSpec
CONSTANTS
    c1 = c1
    s1 = s1
    Conns = {c1}
    Names = {s1}
    Faults = {"startup", "send", "slow"}
    OverlappingDDL = FALSE
    MaxLsn = 4
    MaxCommits = 2
    MaxCheckpoints = 1
    MaxCrashes = 1
INVARIANTS
    SlotCatalogDurable
    StreamFaithful
PROPERTIES
    StreamCatchesUp
