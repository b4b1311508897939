CONSTANTS
    Contents <- MCContents
    InitialFiles = {"a"}
    Missing = Missing
    Empty = Empty
    MaxInputs = 3
    Callers <- MCCallers
    Valid = {"a", "b"}
    ImagesIn <- MCImagesIn
    Messages <- MCMessages
    Marked = "n1"
    None = None
    MaxFailures = 2
SPECIFICATION Spec
CHECK_DEADLOCK FALSE
INVARIANTS
    DistributedIsFile
    BundlesDistinct
    MarksKept
PROPERTIES
    ForcedResent
    SignalEnds
