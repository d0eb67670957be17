SPECIFICATION Spec
CONSTANTS
    Users = {u1}
    IPs = {a1, a2}
    connLimit = 1
    ipLimit = 1
    realtime = TRUE
    Conns = {c1, c2}
    None = None
    Requests <- MCRequests
    Sniffings <- MCSniffings
    RuleSets <- MCRules
    Pool <- MCPool
    FakeDNS <- MCFakeDNS
    Outbounds = {"direct"}
    NodeTag = "node"
INVARIANTS
    CountsHeldLinks
    InOrder
    RulesHold
PROPERTY EventuallyRouted
CHECK_DEADLOCK FALSE
