SPECIFICATION FairSpec
CONSTANTS
    Chunks <- MCChunks
    MaxChunks = 4
    MaxOutput = 2
    MaxHistory = 2
    Windows = TRUE
INVARIANTS EditorSound OutputKept
PROPERTIES CloseEndsSession
CHECK_DEADLOCK FALSE
