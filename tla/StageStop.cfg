SPECIFICATION LiveSpec
CONSTANTS
    r1 = r1
    r2 = r2
    la = la
    lb = lb
    Lanes <- OneLane
    Requests = {r1}
    RequestOf <- SameRequest
    Limit = 3
    Kinds = {"chunk", "batched"}
    WaitFor = {}
    PrePayload = {"yes"}
    Stops = {"shutdown"}
PROPERTY StopReturns
CHECK_DEADLOCK FALSE
