SPECIFICATION FairSpec
CONSTANTS
    Conns = {c1, c2}
    Keys = {k1}
    Tunnels = {t1, t2}
    Sessions = {s1, s2, s3}
    None = None
CHECK_DEADLOCK FALSE
INVARIANTS
    SingleSession
    RegistryListens
PROPERTIES
    ReconnectsOnlyWhenBroken
    ConnectionsAnswered
    CloseReturns
