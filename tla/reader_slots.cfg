SPECIFICATION Spec
CONSTANTS
    Luns = {0, 1, 2, 3}
    Ports = {"1", "0x0103F8", "/dev/ttyS4", "-1"}
    Kinds = {"GemPCTwin", "SEC1210", "GemCorePOSPro"}
    MaxReaders = 3
    MaxFiles = 4
    FollowShared = FALSE
CHECK_DEADLOCK FALSE
INVARIANTS
    TypeOK
    LunOnce
    PortKept
    NothingLeft
    OneReaderPerPort
