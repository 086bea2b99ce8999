SPECIFICATION FairSpec
CONSTANTS
    c1 = c1
    c2 = c2
    Conns = {c1, c2}
    Keys = {k1}
    Tunnels = {t1}
    Kinds = {"ssh", "azure", "gcp"}
    Messages <- MCMessages
    Window = 1
    MaxData <- MCMaxData
    MaxSends <- MCMaxSends
    None = None
CHECK_DEADLOCK FALSE
INVARIANTS
    OneWriter
    NothingLeftOpen
    AtMostOneLate
PROPERTIES
    LossReachesClient
    ReadersEnd
    FlowGoesOn
