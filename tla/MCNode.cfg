CONSTANTS
    OwnHost = "node"
    CentralHost = "carisma-central"
    NoFile = NoFile
    BadFile = BadFile
    Configs <- MCConfigs
    Packets <- MCPackets
    MaxStarts = 2
    MaxFailures = 1
    MaxKills = 1
    MaxPackets = 1
    Connections = {c1}
    MaxCommands = 1
SPECIFICATION Spec
CHECK_DEADLOCK FALSE
INVARIANTS
    EnvoyOfThisNode
    CleanEnd
PROPERTIES
    SignalEnds
    SocketsEnd
