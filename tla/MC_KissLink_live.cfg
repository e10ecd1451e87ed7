\* Liveness of reconnection, with outages while no frame is sent; read()
\* is not assumed to return.
CONSTANTS
    Sentinel = Sentinel
    None = None
    TxQueueSize = 2
    BaseDelay = 1
    MaxDelay = 2
    MaxFrames = 0
    MaxFailures = 2
    MaxStarts = 1
SPECIFICATION FairSpec
PROPERTY Reconnects
