SPECIFICATION Spec
CONSTANTS
    EncodingBits = 7
    RegisterBytes = 16
    LaneBytes = 8
    Patterns <- MCPatterns
INVARIANTS
    NoConstantLeft
PROPERTIES
    ImplementsMeaning
