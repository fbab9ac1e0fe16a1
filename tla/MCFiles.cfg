CONSTANTS
    Paths <- MCPaths
    FileSize <- MCFileSize
    MAX_FILE_HANDLES = 2
    Sizes = {0, 1, 2}
    Offsets <- MCOffsets
    MaxBuffers = 1
SPECIFICATION Spec
INVARIANTS
    HandlesLeadBack
    PositionsAsReported
    TableAccounted
CHECK_DEADLOCK FALSE
