SPECIFICATION Spec
CONSTANTS
    Users = {u1, u2}
    IPs = {a1, a2}
    connLimit = 2
    ipLimit = 1
    realtime = TRUE
    UserInfos <- MixedInfos
    nodeSpeed = 2
    DynamicSpeeds = {}
    DeviceWindow = FALSE
    Strangers = TRUE
    Releases = TRUE
    MaxAlive = 1
    Conns = {c1, c2, c3}
    NotListed = NotListed
    NoInfo = NoInfo
    NoUser = NoUser
    NoConn = NoConn
SYMMETRY Symmetry
INVARIANTS
    EnforcesConnLimit
    EnforcesIPLimit
    OpenIsCounted
    InfoIsListed
