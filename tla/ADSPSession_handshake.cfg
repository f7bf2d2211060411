SPECIFICATION FairSpec
CONSTANTS
    TimeoutTicks = 1
    Backpressure = TRUE
    Prompt = FALSE
    Listeners = {"B"}
    Closers = {"A"}
    Opens <- OneOpen
    MaxId = 3
    MaxLost = 1
    MaxFail = 0
    ChanCap = 2
INVARIANTS Paired OpenFaithful
PROPERTIES OpenReturns OrphansGo
CHECK_DEADLOCK FALSE
