SPECIFICATION Spec
CONSTANTS
    Request = {r1, r2, r3}
    None = None
    Title <- MCTitle
    Fold <- MCFold
    FeedUrl = {"u", "v", "long"}
    ImageUrl = {"i", "wide"}
    PublishDate = {"d", "odd"}
    MaxBatchItems = 3
    Job <- MCUnfitJob
    PoolSize = 2
    InitialTable <- MCInitialTable
    WideUrl = {"wide"}
    LongUrl = {"long"}
    OddDate = {"odd"}
SYMMETRY Symmetry
INVARIANTS
    TypeOK
    UniqueTitle
    TouchAccounting
PROPERTIES
    SettledStaysSettled
    ImplementsStatementStore
