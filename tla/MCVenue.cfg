SPECIFICATION Spec
CONSTANTS
    Accounts = {a, b}
    NoAccount = none
    Symbols = {s1, s2}
    Prices <- MCPrices
    Quantities <- OneShare
    MaxOrderID = 3
    MaxValue = 100
    Opened = {a, b}
    OpeningCash = 2
    OpeningShares = 1
    MaxBatch = 2
    MaxRequests = 3
    MaxCrashes = 0
INVARIANTS
    StoreExact
    Solvent
SYMMETRY Symmetry
