SPECIFICATION MCSpec
CONSTANTS
    Times = 2
    MaxCount = 2
    Width = 8
    Mega = 16
    BlockSize = 7
    Strings <- MCStrings
    Requests <- MCRequests
INVARIANTS
    StringMatches
    JointMatches
    FileIsBlocks
    FileAnswersRequest
