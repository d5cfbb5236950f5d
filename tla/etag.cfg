SPECIFICATION Spec
CONSTANTS
    Client = {c1}
    Writer = {w1, w2}
    x = x
    Content = {x, y}
    t1 = t1
    t2 = t2
    Title <- MCTitle
    Query <- MCQuery
    None = None
    InitialTable <- EmptyTable
    MaxClock = 1

SYMMETRY Symmetry
INVARIANTS
    TypeOK
PROPERTIES
    NotModifiedIsTrue
    FreshChangeIsSeen
