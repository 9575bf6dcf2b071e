SPECIFICATION CppSpec
CONSTANTS
    nul = nul
    a = a
    b = b
    Byte <- MCByte
    Nul <- nul
    Class <- MCClass
    BlockSize = 2
    MaxItems = 2
    MaxInput = 4
INVARIANTS
    TypeOK
    SpareBitClear
    CarryIsPending
    MarkersAreMatches
    CountExact
    AlignedResult
    NoMatchLost
PROPERTY CountsMatches
