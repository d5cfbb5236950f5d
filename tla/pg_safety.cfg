SPECIFICATION Spec
CONSTANTS
    Request = {r1, r2, r3}
    None = None
    Untouched = Untouched
    Title <- MCTitle
    Fold <- MCFold
    FeedUrl = {"u"}
    ImageUrl = {"i"}
    PublishDate = {"d"}
    MaxBatchItems = 2
    Job <- MCJob
    PoolSize = 2
    InitialTable <- MCInitialTable
SYMMETRY Symmetry
INVARIANTS
    TypeOK
    UniqueTitle
    LocksExclude
    WritesFitTable
    Accounting
    CreatedMeansInserted
PROPERTIES
    SettledStaysSettled
    ImplementsFeedStore
