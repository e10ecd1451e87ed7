\* One outage with a frame in flight: does the link come back?
CONSTANTS
    Sentinel = Sentinel
    None = None
    TxQueueSize = 2
    BaseDelay = 1
    MaxDelay = 2
    MaxFrames = 1
    MaxFailures = 1
    MaxStarts = 1
SPECIFICATION FairSpec
PROPERTY Reconnects
