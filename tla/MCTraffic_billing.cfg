SPECIFICATION FairSpec
CONSTANTS
    NoUser = NoUser
    u1 = u1
    u2 = u2
    Users = {u1, u2}
    Cores = {"xray", "sing", "hy2"}
    Lists <- Growing
    Limits = {0}
    OnlyAppends = TRUE
    Additive = FALSE
    Paths = 2
    Attempts = 2
    Threshold = 2
    MaxMoved = 2
    MaxFaults = 2
INVARIANTS
    NothingTwice
    NothingLost
    LimitsAreEarned
PROPERTIES
    EventuallyBilled
CHECK_DEADLOCK FALSE
