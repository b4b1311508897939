CONSTANTS
    DefaultContainerRegistryDomain = "docker.io"
    ValidPaths <- MCPaths
    ShortPaths = {"seat"}
    Host <- MCHost
    Configs <- MCOne
    FoundImages <- MCTool
    KeptImages <- MCTool
    Described = {"speedometer"}
    EnvoyImage <- MCEnvoy
    EnvoyPaths <- MCEnvoyPaths
    NoEntry = NoEntry
    MaxDesired = 1
    MaxReports = 1
    MaxCommands = 0
    MaxFailures = 0
SPECIFICATION Spec
CHECK_DEADLOCK FALSE
INVARIANTS
    DesiredRuns
