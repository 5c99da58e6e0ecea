\* MariaResultPrep.cpp:53 against a CALL whose metadata comes with execution.
SPECIFICATION Spec
CONSTANTS
    NULL = NULL
    a = a
    b = b
    Kinds = {"call"}
    NParams = 1
    Params <- MCParams
    Answer <- MCAnswer
    MaxBind = 2
    BadBinds = FALSE
    Faults = FALSE
    Interrupts = FALSE
    FetchSizes <- MCFetchSizes
    InitialCapacity = 2
    InterruptEvery = 2
INVARIANTS RowsHaveColumns
CHECK_DEADLOCK FALSE
