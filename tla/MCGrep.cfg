SPECIFICATION Spec
CONSTANTS
    EncodingBits = 4
    RegisterBytes = 16
    LaneBytes = 8
    Char <- MCChar
    Asterisk = 4
    Dash = 5
    Open = 6
    Close = 7
    Regex <- MCRegex
    FileBytes = {1, 2, 9}
    BlockSize = 2
    MaxItems = 3
    MaxInput = 6
INVARIANTS
    PrintedIsRegex
    ToolsAgree
