SPECIFICATION Spec
CONSTANTS
    Accounts = {a, b}
    NoAccount = none
    Symbols = {s1}
    Prices <- MCPrices
    Quantities <- UpToTwoShares
    MaxOrderID = 3
    MaxValue = 100
    Opened = {a, b}
    OpeningCash = 4
    OpeningShares = 2
    MaxBatch = 2
    MaxRequests = 3
    MaxCrashes = 1
INVARIANTS
    HoldsMatchOrders
    Conserved
    TradeIDsStable
    StoreMatchesJournal
SYMMETRY Symmetry
