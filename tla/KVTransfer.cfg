SPECIFICATION LiveSpec
CONSTANTS
    t1 = t1
    t2 = t2
    r1 = r1
    r2 = r2
    Transfers <- Pair
    Requests = {r1}
    RequestOf <- OneRequest
    Closable = {"sender", "receiver"}
    Trimmable = {r1}
CHECK_DEADLOCK FALSE
INVARIANTS
    PinnedWhileRead
    ReservationsOwned
    RetainedIsUnanswered
PROPERTIES
    HandoverKept
    AbortedNeverCommits
    TransfersEnd
