SPECIFICATION Spec
CONSTANTS
    a = a
    b = b
    t = t
    u = u
    x = x
    y = y
    NoCall = NoCall
    Calls = {a, b}
    Ids = {x, y}
    Stages = {t}
    IdOf <- OwnIdOf
    Streaming = {a, b}
    Expected <- AllTerminals
    MaxInFlight = 2
    MaxBacklog = 2
    ChunkBytes = 1
    ResultBytes = 1
    MaxChunks = 2
    MaxFailures = 0
INVARIANTS
    LookupsSucceed
    BacklogExact
    NoGap
CHECK_DEADLOCK FALSE
