\* MariaResultPrep.cpp:232 against a query that has just been bound.
SPECIFICATION Spec
CONSTANTS
    NULL = NULL
    a = a
    b = b
    Kinds = {"query"}
    NParams = 1
    Params <- MCParams
    Answer <- MCAnswer
    MaxBind = 2
    BadBinds = FALSE
    Faults = FALSE
    Interrupts = FALSE
    FetchSizes <- MCFetchSizes
    InitialCapacity = 2
    InterruptEvery = 2
INVARIANTS CompleteMeansFetched
CHECK_DEADLOCK FALSE
