SPECIFICATION Spec
CONSTANTS
    Callers = {c1, c2}
    MaxBatch = 2
    MaxCalls = 3
    MaxCrashes = 1
INVARIANTS
    TypeOK
    AckedIsDurable
    PositionsDense
    LoggedOnce
    OrderIDsAscend
    RepliesApart
PROPERTIES
    BookNeverRewinds
    ImplementsSequencerSpec
SYMMETRY Symmetry
