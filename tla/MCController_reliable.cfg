SPECIFICATION FairSpec
CONSTANTS
    Users = {u1, u2}
    Versions = {1, 2}
    NodeInfos = {n1, n2}
    Failures = {refused}
    Tags = {t1}
    TagOf <- OneTag
    Interval <- OnePeriod
    Named = FALSE
    Etags = TRUE
    MayEmpty = FALSE
    Faults = {}
    MaxFaults = 0
    MaxChanges = 2
    MayClose = FALSE
    n1 = n1
    n2 = n2
    n3 = n3
    t1 = t1
    t2 = t2
    NotListed = NotListed
    NoNode = NoNode
    Nothing = Nothing
INVARIANTS
    Agreement
PROPERTIES
    ReloadsOnChange
    Converges
    MirrorsUsers
