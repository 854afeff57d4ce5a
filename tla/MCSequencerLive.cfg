SPECIFICATION Spec
CONSTANTS
    Callers = {c1, c2}
    MaxBatch = 2
    MaxCalls = 2
    MaxCrashes = 1
PROPERTIES
    CallsEnd
    StopHappens
