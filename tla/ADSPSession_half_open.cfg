SPECIFICATION FairSpec
CONSTANTS
    TimeoutTicks = 2
    Backpressure = FALSE
    Prompt = TRUE
    Listeners = {"B"}
    Closers = {}
    Opens <- OneOpen
    MaxId = 3
    MaxLost = 1
    MaxFail = 0
    ChanCap = 4
PROPERTIES HandshakeCompletes
CHECK_DEADLOCK FALSE
