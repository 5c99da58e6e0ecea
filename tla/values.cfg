\* dbConnect() in eight ways, one statement that writes, one that reads.
SPECIFICATION Spec
CONSTANTS
    Arguments <- MCArguments
    ServerZones <- MCServerZones
    RZones <- MCRZones
    DefaultZones <- MCDefaultZones
    NULL = NULL
    Columns <- MCColumns
    Foreign <- MCForeign
    IntBits = 3
    BigBits = 6
    Exact = 4
    Parts = 4
    Ticks = 2
    Summer <- MCSummer
    MaxBinds = 2
INVARIANTS TypeOK ReadyIsConfigured FailedLeavesNothing StoredIsBound ReadIsStored InstantKept
