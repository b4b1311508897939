CONSTANTS
    Sessions = {s1, s2, s3}
    Bundles <- MCBundles
    Ports = {8080}
    MaxAnnouncements = 2
    IngressPort = 9080
    EgressPort = 9081
SPECIFICATION Spec
CHECK_DEADLOCK FALSE
INVARIANTS
    TypeOK
    UniqueIDs
    XdsKnowsEachNodeOnce
    SnapshotsCurrent
    SnapshotsOfOneVersion
PROPERTIES
    RegisterBlocksOnlyWhenStopped
    AnnouncementBlocksOnlyWhenStopped
    NodeGetsSnapshot
