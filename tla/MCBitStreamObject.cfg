SPECIFICATION Spec
CONSTANTS
    BlockSize = 2
    StreamBlocks = 3
    SimdSize = 4
INVARIANTS
    PopCountExact
    SimdAdvanceIsMarker
    SimdMatchStarStops
PROPERTY StreamIsLongWord
