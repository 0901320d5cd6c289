CONSTANTS
    Texts <- MCTexts
    Levels = {1, 2}
    MaxLines = 5
    Limit = 6
    Overlap = 2
    Whole = 2
    K = 2
    Other = {100}
    MaxAsked = 3
    MaxIndexed = 2
SPECIFICATION Spec
INVARIANTS
    TextIsIndexed
    ChunksBounded
    CitationsAreBest
CHECK_DEADLOCK FALSE
