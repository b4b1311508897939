CONSTANTS
    Readers = {r1, r2, r3}
    DestinationsCap = 1
    SourceCap = 1
    ReaderCap = 5
    Writers = 1
    MaxMessages = 3
SPECIFICATION TestSpec
CHECK_DEADLOCK FALSE
PROPERTIES
    EveryReaderGetsEveryMessage
