SPECIFICATION Spec
CONSTANTS
    TimeoutT = 5
    SliceT = 2
    DnsT = 2
    IdleT = 1
    QuietT = 1
    StableT = 2
    MaxOps = 12
    MaxChunks = 5
    MaxIac = 2
    MaxAddrs = 2
    Traceable = {"http"}
    MultiLine = FALSE
INVARIANTS
    SocketsAreClosed
    OutageMeansUnreached
    GoodPeerIsOK
    WatchdogIsFed
    DeadlineIsKept
PROPERTIES
    ProbeEnds
