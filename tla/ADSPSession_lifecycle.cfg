SPECIFICATION Spec
CONSTANTS
    TimeoutTicks = 1
    Backpressure = FALSE
    Prompt = FALSE
    Listeners = {"B"}
    Closers = {"A", "B"}
    Opens <- OneOpen
    MaxId = 3
    MaxLost = 1
    MaxFail = 1
    ChanCap = 2
INVARIANTS TypeOK Retired
PROPERTIES MadeBeforeGone ClosedIsFinal
CHECK_DEADLOCK FALSE
