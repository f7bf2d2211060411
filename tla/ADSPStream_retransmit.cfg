SPECIFICATION Spec
CONSTANTS
    MaxChunk = 2
    Window = 2
    HighWater = 2
    LowWater = 1
    TimeoutTicks = 1
    Backpressure = FALSE
    Prompt = FALSE
    Closers = {}
    WriteLimit <- ThreeOne
    MaxWrite = 2
    MaxLost = 1
    MaxFail = 0
    ChanCap = 2
INVARIANTS TypeOK Accounting WindowRespected
PROPERTIES StreamSpec
CHECK_DEADLOCK FALSE
