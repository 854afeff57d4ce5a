SPECIFICATION Spec
CONSTANTS
    SegmentCap = 1
    FsyncNames = TRUE
    MaxRecords = 2
    MaxFaults = 0
    MaxCrashes = 0
    BatchCap = 2
    NetCap = 1
    MaxFollowerFaults = 0
    MaxFollowerCrashes = 0
INVARIANTS
    NoHole
