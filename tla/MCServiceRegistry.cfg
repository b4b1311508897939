CONSTANTS
    Nodes = {n1, n2}
    Bundles = {b1, b2}
    Ports <- MCPorts
    MaxAnnouncements = 5
SPECIFICATION Spec
CHECK_DEADLOCK FALSE
INVARIANTS
    TypeOK
    OffersMatchAnnouncements
    PortsAscending
    NoEmptyBundle
