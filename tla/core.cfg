\* Two results (the current one and one waiting for the collector), two units.
SPECIFICATION Spec
CONSTANTS
    NULL = NULL
    Results = {r1, r2}
    Work = {w1, w2}
    Statements <- AllStatements
    MaxBind = 1
    SessionLoss = TRUE
SYMMETRY Symmetry
INVARIANTS TypeOK IInv NoDangling OnlyCurrentOpen UnreadOwner QuiescentCommitted SessionReleased
PROPERTIES TransactionEnds TransactionPrivate LossExplained
CHECK_DEADLOCK FALSE
