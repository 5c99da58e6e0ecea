\* Three units of work, sessions that are lost at any time, with and without reconnect.
SPECIFICATION Spec
CONSTANTS
    NULL = NULL
    w1 = w1
    w2 = w2
    w3 = w3
    Work <- MCWork
    Reconnects = {TRUE, FALSE}
    Arguments <- MCArguments
    ServerZones <- MCServerZones
    RZones <- MCRZones
    DefaultZones <- MCDefaultZones
SYMMETRY Symmetry
INVARIANTS TypeOK EndingsExplained
PROPERTIES EndIsAtomic
CHECK_DEADLOCK FALSE
