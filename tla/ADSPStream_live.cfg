SPECIFICATION FairSpec
CONSTANTS
    MaxChunk = 1
    Window = 2
    HighWater = 2
    LowWater = 1
    TimeoutTicks = 3
    Backpressure = FALSE
    Prompt = TRUE
    Closers = {"client", "server"}
    WriteLimit <- TwoBytes
    MaxWrite = 2
    MaxLost = 1
    MaxFail = 0
    ChanCap = 5
INVARIANTS KeepAlive
PROPERTIES EventuallyAcked EventuallyResumed BothClose
CHECK_DEADLOCK FALSE
