SPECIFICATION Spec
CONSTANTS
    EncodingBits = 6
    RegisterBytes = 16
    LaneBytes = 8
    MaxFunctions = 2
    Classes <- MCClasses
    Again <- MCAgain
INVARIANTS
    NamesDeclared
    ReturnsEarlierFunctions
    FunctionIsMatch
