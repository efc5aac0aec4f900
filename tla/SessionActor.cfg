SPECIFICATION FairSpec
CONSTANTS
    Clients = {c1, c2, c3}
    Opener = c1
    MaxCalls = 4
    MaxSteps = 2
    Fragile = TRUE
CHECK_DEADLOCK FALSE
INVARIANTS Serial AnswerIsTrue DrainedBeforeExit
PROPERTIES CallsEnd ThreadFreed
