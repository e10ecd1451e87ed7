CONSTANTS
    Sentinel = Sentinel
    None = None
    TxQueueSize = 4
    BaseDelay = 1
    MaxDelay = 2
    MaxFrames = 2
    MaxFailures = 2
    MaxStarts = 2

SPECIFICATION Spec

INVARIANT TypeOK
PROPERTY TxFifoChannel

