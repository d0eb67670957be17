SPECIFICATION Spec
CONSTANTS
    N = 2
    Modes <- AllModes
    MaxFaults = 2
    MaxCrashes = 2
    None = None
    Torn = Torn
INVARIANTS
    StartsWithPair
    PairMatches
PROPERTY DueIsRenewed
CHECK_DEADLOCK FALSE
