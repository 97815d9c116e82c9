SPECIFICATION FairSpec
CONSTANTS
    CGI_TIMEOUT = 1
    PipeSize = 1
    MaxOutput = 2
PROPERTIES
    TimeoutEndsChild
CHECK_DEADLOCK FALSE
