SPECIFICATION Spec
CONSTANTS
    Configs <- MCConfigs
    Requests <- MCRequests
    Names <- MCNames
    Methods <- MCMethods
    DefaultRoot <- MCRoot
    None = None
INVARIANTS
    TypeOK
    ServerIsBest
    LocationIsBest
    AliasReplacesLocation
CHECK_DEADLOCK FALSE
