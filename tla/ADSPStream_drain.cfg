SPECIFICATION Spec
CONSTANTS
    MaxChunk = 1
    Window = 2
    HighWater = 2
    LowWater = 1
    TimeoutTicks = 2
    Backpressure = FALSE
    Prompt = TRUE
    Closers = {"client"}
    WriteLimit <- OneByte
    MaxWrite = 2
    MaxLost = 0
    MaxFail = 0
    ChanCap = 4
INVARIANTS CloseDrains
CHECK_DEADLOCK FALSE
