SPECIFICATION ChannelFairSpec
CONSTANTS
    MaxSent = 4
    MaxInputs = 2
    MaxWire = 3
    MaxLosses = 1
INVARIANTS
    InputContiguous
PROPERTIES
    ExactlyOnceInOrder
    FailedStartCleansUp
    EveryFrameReadUnlessLost
CHECK_DEADLOCK FALSE
