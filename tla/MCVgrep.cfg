SPECIFICATION Spec
CONSTANTS
    nul = nul
    a = a
    b = b
    Byte <- MCByte
    Nul <- nul
    Class <- MCClass
    BlockSize = 2
    MaxItems = 2
    MaxInput = 5
INVARIANTS
    MarkersAreEnds
    PrintsMatches
