\* dbConnect() with time zones R does not know.
SPECIFICATION Spec
CONSTANTS
    Arguments <- MCArguments
    ServerZones <- MCServerZones
    RZones <- MCRZones
    DefaultZones <- MCDefaultZones
    NULL = NULL
    Columns <- MCColumns
    Foreign <- MCForeign
    IntBits = 3
    BigBits = 6
    Exact = 4
    Parts = 4
    Ticks = 2
    Summer <- MCSummer
    MaxBinds = 2
INVARIANT FallsBackToLocal
