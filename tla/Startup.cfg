SPECIFICATION StartupSpec
CONSTANTS
    Configs <- MCConfigs
    Values <- MCValues
    Codes <- MCStatusCodes
    Pages <- MCPages
    None = None
    Files <- MCFiles
    Absolute <- MCAbsolute
    Numbers <- MCNumbers
    StatusCodes <- MCStatusCodes
    ReturnCodes <- MCReturnCodes
    Sizes <- MCSizes
    Booleans <- MCBooleans
    Methods <- MCMethods
    Parts <- MCParts
    PortWords <- MCPortWords
    atoi <- MCatoi
    Addresses <- MCAddresses
INVARIANTS
    StartupTypeOK
    ParsedAsWritten
    NothingIsSkipped
    InnermostWins
    PageIsOfInnermost
    ListensWhereConfigured
