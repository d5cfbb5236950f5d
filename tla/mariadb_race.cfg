SPECIFICATION Spec
CONSTANTS
    Request = {r1, r2}
    None = None
    Title <- MCTitle
    Fold <- MCFold
    FeedUrl = {"u"}
    ImageUrl = {"i"}
    PublishDate = {"d"}
    MaxBatchItems = 2
    Job <- MCRaceJob
    PoolSize = 2
    InitialTable <- MCInitialTable

SYMMETRY Symmetry
INVARIANTS
    OneInsertWins
