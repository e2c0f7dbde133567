SPECIFICATION FairSpec
CONSTANTS
    a = a
    b = b
    c1 = c1
    c2 = c2
    c3 = c3
    Sessions = {a, b}
    Controls = {c1, c2, c3}
    SessionOf <- OnA
    Ordered = {c1, c2}
    Preempting = {c2}
    CallSets <- Together
    MaxInput = 2
    MaxPending = 2
    Capacity <- OneEach
    MaxFaults = 1
INVARIANTS
    ControlsKeepPlace
    HeldIsRecorded
    UpstreamClosesLast
PROPERTIES
    CallsReturn
CHECK_DEADLOCK FALSE
