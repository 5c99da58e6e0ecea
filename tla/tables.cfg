\* All calls, two rows, failing statements and other sessions.
SPECIFICATION Spec
CONSTANTS
    Calls <- AllCalls
    N = 2
    Faults = TRUE
    Peers = TRUE
INVARIANTS TypeOK NoHalfWrite CreatedIsNew UserTransactionKept UserRollbackTakesBack
PROPERTIES SuccessIsWhole TemporaryLeavesPermanent
CHECK_DEADLOCK FALSE
