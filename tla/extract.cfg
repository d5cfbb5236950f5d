SPECIFICATION Spec
CONSTANTS
    None = None
    Text <- MCText
    Null = "null"
    Fold <- MCFold
    Rank <- MCRank
    Clean <- MCClean
    DefaultLimit = 2
    MaxLimit = 3
    Request <- MCRequest
    Tables <- MCTables

INVARIANTS
    TypeOK
    ServedAsAsked
    FailsOnlyOnSpelling
