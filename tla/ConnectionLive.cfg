SPECIFICATION FairSpec
CONSTANTS
    MAX_HEADER_SIZE = 2
    BUFFER_COMPACT_THRESHOLD = 2
    MAX_BODY_SIZE = 2
    SEARCH_WINDOW = 2
    SIZE_MAX = 1000
    RESPONSE_LENGTH = 2
    RootAllowed = FALSE
    MaxRequests = 2
    Pipelining = FALSE
    BUFFER_SIZE = 3
    CLIENT_TIMEOUT = 0
    Results = {200}
    ProgramHeaders = {}
    Shapes <- LockstepShapes
PROPERTIES
    WholeRequestIsAnswered
    SilentIsDropped
CHECK_DEADLOCK FALSE
