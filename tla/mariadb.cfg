SPECIFICATION Spec
CONSTANTS
    Request = {r1, r2, r3}
    None = None
    Title <- MCTitle
    Fold <- MCFold
    FeedUrl = {"u"}
    ImageUrl = {"i"}
    PublishDate = {"d"}
    MaxBatchItems = 2
    Job <- MCTwinJob
    PoolSize = 2
    InitialTable <- MCInitialTable

SYMMETRY Symmetry
INVARIANTS
    TypeOK
    TwinsFromOneBatch
PROPERTIES
    TruthfulUnlessDisturbed
    SettledStaysSettled
    ImplementsStatementStore
