SPECIFICATION Spec
CONSTANTS
    Accounts = {a, b}
    NoAccount = none
    Symbols = {s1}
    Prices <- MCPrices
    Quantities <- OneShare
    MaxOrderID = 2
    MaxValue = 100
    Opened = {a, b}
    OpeningCash = 2
    OpeningShares = 1
    MaxBatch = 1
    MaxRequests = 2
    MaxCrashes = 0
INVARIANT HangUpStillSettles
