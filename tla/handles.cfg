\* Three results, so that two may wait for the collector behind a current one.
SPECIFICATION FairSpec
CONSTANTS
    NULL = NULL
    Results = {r1, r2, r3}
    Work = {w1}
    Statements <- FewStatements
    MaxBind = 1
    SessionLoss = FALSE
PROPERTIES ForgottenIsClosed
CHECK_DEADLOCK FALSE
