SPECIFICATION Spec
CONSTANTS
    Users = {u1, u2}
    IPs = {a1, a2}
    connLimit = 0
    ipLimit = 1
    realtime = FALSE
    UserInfos <- MixedInfos
    nodeSpeed = 2
    DynamicSpeeds = {1}
    DeviceWindow = TRUE
    Strangers = TRUE
    Releases = TRUE
    MaxAlive = 1
    Conns = {c1}
    NotListed = NotListed
    NoInfo = NoInfo
    NoUser = NoUser
    NoConn = NoConn
SYMMETRY Symmetry
INVARIANTS
    BucketIsNotFaster
    RecordsWithinIPLimit
    LimitedIsServed
