\* All kinds of statements: rebinding, failures, interrupts, chunked fetches.
SPECIFICATION FairSpec
CONSTANTS
    NULL = NULL
    a = a
    b = b
    Kinds = {"plain", "query", "call", "statement"}
    NParams = 2
    Params <- MCParams
    Answer <- MCAnswer
    MaxBind = 3
    BadBinds = TRUE
    Faults = TRUE
    Interrupts = TRUE
    FetchSizes <- MCFetchSizes
    InitialCapacity = 2
    InterruptEvery = 2
INVARIANTS TypeOK WritesInFrame ExecutedInOrder HasCompletedHonest OutsideNeedsUnfit
PROPERTIES ImplementsStream FetchReturns
CHECK_DEADLOCK FALSE
