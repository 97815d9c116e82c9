SPECIFICATION Spec
CONSTANTS
    Transfers <- MCTransfers
    HexDigits <- MCDigits
    SIZE_MAX = 255
    SEARCH_WINDOW = 16
    MAX_BODY_SIZE = 27
    Paths <- MCPaths
    Requests <- MCRequests
    InitialTrees <- MCTrees
    IndexFiles <- MCIndexFiles
    GeneratedNames = {"g"}
    ForeignData <- MCForeignData
    Faults = {"open", "read", "opendir", "mkdir", "write", "close", "remove", "stat", "readdir"}
    MaxChanges = 2
    MaxRequests = 2
INVARIANTS
    TypeOK
    ChunksAreUndone
    StoredIsSent
    AnswerWasTrue
    ListingIsFaithful
    AcknowledgedIsKept
    FailedUploadIsPrefix
CHECK_DEADLOCK FALSE
