SPECIFICATION LiveSpec
CONSTANTS
    r1 = r1
    r2 = r2
    la = la
    lb = lb
    Lanes <- OneLane
    Requests = {r1}
    RequestOf <- SameRequest
    Limit = 3
    Kinds = {"payload", "chunk", "direct", "batched", "done"}
    WaitFor = {}
    PrePayload = {}
    Stops = {"shutdown"}
INVARIANTS
    LaneInOrder
    EndedIsAnswered
PROPERTIES
    NothingAfterAbort
    TasksEnd
CHECK_DEADLOCK FALSE
