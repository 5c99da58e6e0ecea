\* Every value next to every other, every name, every path of up to three characters.
SPECIFICATION Spec
CONSTANTS
    NULL = NULL
    Chars <- MCChars
    Calls <- MCCalls
    MaxVarchar = 1
    TextSize = 2
INVARIANTS TypeOK StoredIsGiven SameEitherWay NameKept LiteralKept
CHECK_DEADLOCK FALSE
