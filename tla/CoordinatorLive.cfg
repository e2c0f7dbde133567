SPECIFICATION FairSpec
CONSTANTS
    a = a
    b = b
    t = t
    u = u
    x = x
    y = y
    NoCall = NoCall
    Calls = {a, b}
    Ids = {x}
    Stages = {t}
    IdOf <- SameIdOf
    Streaming = {a}
    Expected <- AllTerminals
    MaxInFlight = 1
    MaxBacklog = 1
    ChunkBytes = 1
    ResultBytes = 1
    MaxChunks = 1
    MaxFailures = 1
INVARIANTS
    OneOwner
    AbortHitsItsCall
    SentStaysOwned
    FailedOwnedIsUntold
PROPERTIES
    Answered
    StopReleasesAll
CHECK_DEADLOCK FALSE
