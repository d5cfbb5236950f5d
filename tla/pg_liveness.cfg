SPECIFICATION FairSpec
CONSTANTS
    Request = {r1, r2, r3}
    None = None
    Untouched = Untouched
    Title <- MCTitle
    Fold <- MCFold
    FeedUrl = {"u"}
    ImageUrl = {"i"}
    PublishDate = {"d"}
    MaxBatchItems = 2
    Job <- MCOneJob
    PoolSize = 2
    InitialTable <- MCBothPresent
PROPERTIES
    StatementsEnd
    QueuedAreAnswered
