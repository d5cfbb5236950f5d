SPECIFICATION Spec
CONSTANTS
    Client = {c1}
    Writer = {}
    x = x
    Content = {x}
    t1 = t1
    t2 = t2
    Title <- MCTitle
    Query <- MCQuery
    None = None
    InitialTable <- OneRow
    MaxClock = 0

PROPERTIES
    RepeatIsNotModified
