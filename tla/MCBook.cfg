SPECIFICATION Spec
CONSTANTS
    Accounts = {a}
    NoAccount = none
    Prices <- MCPrices
    Quantities <- MCQuantities
    MaxOrderID = 4
INVARIANTS
    StructuresAgree
    SnapshotIsExact
PROPERTIES
    SubmitMatchesReference
    ImplementsBookSpec
    SubmissionEnds
