SPECIFICATION FairSpec
CONSTANTS
    CGI_TIMEOUT = 1
    PipeSize = 1
    MaxOutput = 2
INVARIANTS
    TypeOK
    Released
    AnswerIsWholeOutput
PROPERTIES
    Returns
CHECK_DEADLOCK FALSE
