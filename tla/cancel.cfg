\* DbConnection.h:51 against the collector running inside the warning.
SPECIFICATION Spec
CONSTANTS
    NULL = NULL
    Results = {r1, r2}
    Work = {}
    Statements <- PlainStatements
    MaxBind = 0
    SessionLoss = FALSE
INVARIANTS NoNullResult
CHECK_DEADLOCK FALSE
