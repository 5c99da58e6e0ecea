\* R/transaction.R:6 against a result that still has rows to be read.
SPECIFICATION Spec
CONSTANTS
    NULL = NULL
    Results = {r1}
    Work = {w1}
    Statements <- PlainStatements
    MaxBind = 0
    SessionLoss = FALSE
INVARIANTS RolledBackNeverDurable
CHECK_DEADLOCK FALSE
