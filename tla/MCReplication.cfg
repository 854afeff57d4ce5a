SPECIFICATION Spec
CONSTANTS
    SegmentCap = 1
    FsyncNames = TRUE
    MaxRecords = 2
    MaxFaults = 0
    MaxCrashes = 1
    BatchCap = 2
    NetCap = 1
    MaxFollowerFaults = 1
    MaxFollowerCrashes = 1
INVARIANTS
    TypeOK
    AppliedIsStored
    Contiguous
    SamePrefix
    LagIsHonest
PROPERTIES
    CatchesUp
