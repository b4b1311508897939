CONSTANTS
    DefaultContainerRegistryDomain = "docker.io"
    ValidPaths <- MCPaths
    ShortPaths = {"seat"}
    Host <- MCHost
    Configs <- MCConfigs
    FoundImages <- MCSpeedometer
    KeptImages = {}
    Described = {"speedometer"}
    EnvoyImage <- MCEnvoy
    EnvoyPaths <- MCEnvoyPaths
    NoEntry = NoEntry
    MaxDesired = 2
    MaxReports = 1
    MaxCommands = 1
    MaxFailures = 2
SPECIFICATION Spec
CHECK_DEADLOCK FALSE
INVARIANTS
    TypeOK
    ConvergedButBlamed
    OffersButBlamed
PROPERTIES
    RemovesOnlyUnwanted
    ProcessReturns
