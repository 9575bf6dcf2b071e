SPECIFICATION Spec
CONSTANTS
    Char <- MCChar
    Open = "["
    Close = "]"
    Dash = "-"
    Asterisk = "*"
    NulChar = "nul"
    Pattern <- MCPattern
INVARIANTS
    TypeOK
    ParsesGrammar
    AbortsIfIllFormed
PROPERTY ParseEnds
