CONSTANTS
    Sentinel = Sentinel
    None = None
    TxQueueSize = 3
    BaseDelay = 1
    MaxDelay = 2
    MaxFrames = 2
    MaxFailures = 1
    MaxStarts = 1

SPECIFICATION Spec

INVARIANT TxThreadAlive
