SPECIFICATION FairSpec
CONSTANTS
    Callers = {c1, c2}
    Timers <- MCTimers
    NoTimer = NoTimer
    NoOne = NoOne
    MaxStarts = 2
    Reentrant = TRUE
INVARIANTS
    MutualExclusion
    OneChainPerStart
    StoppableTimers
    
PROPERTIES
    
    CloseReturns
CHECK_DEADLOCK FALSE
