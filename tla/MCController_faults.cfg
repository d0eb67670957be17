SPECIFICATION Spec
CONSTANTS
    Users = {u1, u2}
    Versions = {1, 2}
    NodeInfos = {n1, n2, n3}
    Failures = {refused}
    Tags = {t1}
    TagOf <- OneTag
    Interval <- TwoPeriods
    Named = FALSE
    Etags = TRUE
    MayEmpty = TRUE
    Faults = {"getNode", "getUsers", "cert", "addNode", "addUsers", "delUsers"}
    MaxFaults = 2
    MaxChanges = 2
    MayClose = TRUE
    n1 = n1
    n2 = n2
    n3 = n3
    t1 = t1
    t2 = t2
    NotListed = NotListed
    NoNode = NoNode
    Nothing = Nothing
SYMMETRY Symmetry
INVARIANTS
    CoreHasInfo
    LimiterHasList
    StaysClosed
CHECK_DEADLOCK FALSE
