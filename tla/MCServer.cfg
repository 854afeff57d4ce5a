SPECIFICATION Spec
CONSTANTS
    Symbols = {s1, s2}
    MaxSymbols = 1
    FeedBuffer = 1
    Callers = {c1, c2}
    Subscribers = {r1, r2}
INVARIANTS
    OneWriter
    Bounded
    FeedFaithful
    ExecutedIsAnswered
PROPERTIES
    NeverStalled
    ShutdownEnds
CHECK_DEADLOCK FALSE
