CONSTANTS
    Sessions = {s1, s2, s3}
    Bundles <- MCBundles
    Ports = {8080}
    MaxAnnouncements = 1
    IngressPort = 9080
    EgressPort = 9081
SPECIFICATION Spec
CHECK_DEADLOCK FALSE
PROPERTIES
    RegisterReplies
