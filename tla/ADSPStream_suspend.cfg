SPECIFICATION Spec
CONSTANTS
    MaxChunk = 1
    Window = 2
    HighWater = 2
    LowWater = 1
    TimeoutTicks = 1
    Backpressure = TRUE
    Prompt = FALSE
    Closers = {"client"}
    WriteLimit <- TwoBytes
    MaxWrite = 2
    MaxLost = 0
    MaxFail = 1
    ChanCap = 2
INVARIANTS AckSound InFlightSound NoTimerLeft ProgramTold
PROPERTIES ClosedIsFinal
CHECK_DEADLOCK FALSE
