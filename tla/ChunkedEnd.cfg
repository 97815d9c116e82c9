SPECIFICATION Spec
CONSTANTS
    Transfers <- MCTransfers
    HexDigits <- MCDigits
    SIZE_MAX = 255
    SEARCH_WINDOW = 16
    MAX_BODY_SIZE = 27
    Paths <- MCPaths
    Requests <- MCRequests
    InitialTrees <- MCTrees
    IndexFiles <- MCIndexFiles
    GeneratedNames = {"g"}
    ForeignData <- MCForeignData
    Faults = {"open", "read", "opendir", "mkdir", "write", "close", "remove", "stat", "readdir"}
    MaxChanges = 1
    MaxRequests = 2
INVARIANT ChunkedBodyIsWhole
CHECK_DEADLOCK FALSE
