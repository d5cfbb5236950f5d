SPECIFICATION FairSpec
CONSTANTS
    a1 = a1
    a2 = a2
    p1 = p1
    p2 = p2
    local = local
    c1 = c1
    c2 = c2
    apiKey = apiKey
    None = None
    Malformed = Malformed
    Unreadable = Unreadable
    Client = {c1, c2}
    Address <- MCAddress
    Loopback = {local}
    Deployment <- MCPlain

CHECK_DEADLOCK FALSE
PROPERTY ReplenishesPerSecond
