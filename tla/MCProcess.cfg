CONSTANTS
    Programs <- MCPrograms
    Names <- MCNames
    Arguments <- MCArguments
    Regions = {1, 2, 3, 4, 5, 6, 7, 8, 9}
    Heap = {1, 2, 3, 4, 5}
    TableSize = 4
    MaxMaps = 1
    PAGE_SIZE = 64
    BreakSize = 4
SPECIFICATION ProcessSpec
INVARIANTS
    RunningMemoryLive
    ShellFootprint
    StartsClean
    ProgramFindsItsStart
CHECK_DEADLOCK FALSE
