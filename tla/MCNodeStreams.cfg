CONSTANTS
    Readers = {n1, n2, n3}
    Registered = {n1, n2}
    DestinationsCap = 1
    SourceCap = 1
    ReaderCap = 5
    Writers = 2
    MaxMessages = 4
    MaxReports = 2
SPECIFICATION StreamsSpec
CHECK_DEADLOCK FALSE
INVARIANTS
    DistributionTriggered
