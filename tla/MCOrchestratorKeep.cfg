CONSTANTS
    DefaultContainerRegistryDomain = "docker.io"
    ValidPaths <- MCPaths
    ShortPaths = {"seat"}
    Host <- MCHost
    Configs <- MCNone
    FoundImages <- MCSpeedometer
    KeptImages <- MCSpeedometer
    Described = {"speedometer"}
    EnvoyImage <- MCEnvoy
    EnvoyPaths <- MCEnvoyPaths
    NoEntry = NoEntry
    MaxDesired = 1
    MaxReports = 0
    MaxCommands = 0
    MaxFailures = 0
SPECIFICATION Spec
CHECK_DEADLOCK FALSE
INVARIANTS
    UnmanagedStay
