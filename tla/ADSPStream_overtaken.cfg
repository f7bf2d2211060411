SPECIFICATION FairSpec
CONSTANTS
    MaxChunk = 1
    Window = 2
    HighWater = 2
    LowWater = 1
    TimeoutTicks = 1
    Backpressure = TRUE
    Prompt = FALSE
    Closers = {}
    WriteLimit <- TwoBytes
    MaxWrite = 2
    MaxLost = 0
    MaxFail = 0
    ChanCap = 2
PROPERTIES HandlerEnds
CHECK_DEADLOCK FALSE
