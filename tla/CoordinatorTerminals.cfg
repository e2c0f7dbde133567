SPECIFICATION Spec
CONSTANTS
    a = a
    b = b
    t = t
    u = u
    x = x
    y = y
    NoCall = NoCall
    Calls = {a, b}
    Ids = {x, y}
    Stages = {t, u}
    IdOf <- OwnIdOf
    Streaming = {a}
    Expected <- AllTerminals
    MaxInFlight = 1
    MaxBacklog = 1
    ChunkBytes = 1
    ResultBytes = 1
    MaxChunks = 0
    MaxFailures = 1
INVARIANTS
    PartialsHaveOwner
    SuccessIsWhole
    
CHECK_DEADLOCK FALSE
