SPECIFICATION Spec
CONSTANTS
    Tags = {"t1", "t2"}
    UsersOf <- MCUsersOf
    CoreNames <- MCCoreNames
    CoreType <- MCCoreType
    Kinds <- MCKinds
    Options <- MCOptions
    None = None
INVARIANTS
    OneHome
    ServesList
    ListedCanLogIn
CHECK_DEADLOCK FALSE
