SPECIFICATION FairSpec
CONSTANTS
    MaxPolls = 2
    Backpressure = TRUE
    Closers = {"A", "B"}
    Opens <- OneOpen
    MaxWrites = 2
    MaxId = 1
    MaxLost = 1
    MaxFail = 1
INVARIANTS TypeOK InOrder CompleteAtEOF Retired
PROPERTIES EndIsFinal ConnectReturns BothEnd
CHECK_DEADLOCK FALSE
