CONSTANTS
    Sentinel = Sentinel
    None = None
    TxQueueSize = 3
    BaseDelay = 1
    MaxDelay = 2
    MaxFrames = 0
    MaxFailures = 0
    MaxStarts = 1

SPECIFICATION Spec

INVARIANT StoppedMeansClosed
