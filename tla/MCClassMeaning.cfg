SPECIFICATION MeaningSpec
CONSTANTS
    EncodingBits = 8
    Patterns <- MCPatterns
INVARIANTS
    AsciiNeverAborts
    CompiledIsMatch
