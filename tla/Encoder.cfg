SPECIFICATION LiveSpec
CONSTANTS
    None = None
    Failed = Failed
    Stopper = Stopper
    a = a
    b = b
    c1 = c1
    c2 = c2
    Calls = {c1, c2}
    Paths = {a, b}
    Keys = {1, 2}
    Data = {1, 2}
    SizeOf <- Sizes
    MaxSize = 2
    MaxBytes = 2
    BatchSizes = {1, 2}
    Closes = {"close"}
INVARIANTS
    
    InflightIsLed
    NeverOlder
    
PROPERTY EncodesEnd
CHECK_DEADLOCK FALSE
