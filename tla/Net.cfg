SPECIFICATION Spec
CONSTANTS
    BootHost = boot
    Hosts = {boot, other}
    BadHosts = {bad}
    DhcpServers = {d1, d2}
    None = None
    Units = 4
    Crlf = {1, 2, 3}
    MaxSeg = 2
    BodyMax = 2
    RetryTicks = 1
    MaxRetries = 1
    BootPolls = 1
    PingPolls = 1
    DnsPolls = 1
    FetchPolls = 6
    FailPolls = 0
    RxMax = 2
    MaxCmds = 1
INVARIANTS
    TypeOK
    BodyInOrder
    AckedWasReceived
    LeaseIsOurs
PROPERTY
    TimeoutMeansStalled
    HandshakeEnds
    CommandEnds
