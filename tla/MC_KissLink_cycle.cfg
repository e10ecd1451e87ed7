CONSTANTS
    Sentinel = Sentinel
    None = None
    TxQueueSize = 1
    BaseDelay = 1
    MaxDelay = 2
    MaxFrames = 3
    MaxFailures = 0
    MaxStarts = 1

CHECK_DEADLOCK FALSE

SPECIFICATION Spec

INVARIANT NoLockQueueCycle
