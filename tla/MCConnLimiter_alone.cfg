SPECIFICATION Spec
CONSTANTS
    Users = {u}
    user = u
    IPs = {a1, a2}
    ConnLimits = {0, 2}
    IPLimits = {0, 1}
    Modes = {TRUE, FALSE}
    Conns = {c1, c2, c3}
    Cleaner = cleaner
    Maps = {m1, m2}
    NoMap = NoMap
    MaxBusy = 1
SYMMETRY Symmetry
PROPERTIES
    CallsAgree
