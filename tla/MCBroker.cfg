CONSTANTS
    Readers = {r1, r2}
    DestinationsCap = 1
    SourceCap = 1
    ReaderCap = 2
    Writers = 2
    MaxMessages = 5
SPECIFICATION Spec
CHECK_DEADLOCK FALSE
INVARIANTS
    TypeOK
    InOrder
    LossOnlyWhenFull
    SourceInOrder
PROPERTIES
    WriteReturns
    ReadRegisters
    StopEnds
    ImplementsLossyBroadcast
