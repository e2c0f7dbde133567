SPECIFICATION Spec
CONSTANTS
    None = None
    http = http
    ws = ws
    voice = voice
    ctl = ctl
    Requests = {http, ws, voice, ctl}
    Count = 2
    Classes = {"http", "ws"}
    SessionClasses = {"ws"}
    Route <- Routes
    ClassOf <- ClassesOf
    CreditsOf <- Credits
    Matches <- Profiles
    GlobalLimit = 3
    SessionLimit <- SessionLimits
    Configs <- Settings
INVARIANTS
    PermitsExact
    NeverInternal
    NotPassedTwice
CHECK_DEADLOCK FALSE
