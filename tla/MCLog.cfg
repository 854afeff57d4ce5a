SPECIFICATION Spec
CONSTANTS
    SegmentCap = 2
    FsyncNames = TRUE
    MaxRecords = 6
    MaxFaults = 2
    MaxCrashes = 2
INVARIANTS
    BookSurvives
    PositionsExact
    UnreadableIsEmpty
PROPERTIES
    ImplementsLogSpec
