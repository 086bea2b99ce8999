SPECIFICATION FairSpec
CONSTANTS
    Callers = {c1, c2, c3}
    Databases = {d1}
    Orders = {o1, o2}
    MaxConns = 2
    Hinted = FALSE
    Pools = {p1, p2, p3}
    None = None
INVARIANTS
    ConnectionsPerString
PROPERTIES
    ConnectReturns
