CONSTANTS
    Parts = {"net"}

    TraceCpus = {c1, c2}
    ArgvLen = 5
    ArgChunk = 3
    MaxArgs = 2
    SystemCalls <- MCSystemCalls
    RingRecords = 2
    ArgSizes = {0, 3}
    PortBytes <- MCPortBytes
    BigEndian = FALSE
    MaxTraced = 3

    TailLines = 3
    SplitLines = {2}
    LongLines = {3}
    TailFiles = 3
    ReopenTries = 1
    Truncations = 1

    Top = Top
    Outside = Outside
    Dirs = {d1, d2}
    Names = {"r", "a"}
    RootName = "r"
    RootAtStart = d1
    Configs <- MCConfigs
    QueueLen = 3
    MaxMoves = 4

    Pids = {p1, p2}
    Exes = {x1}
    Cmdlines = {a1}
    NoPid = NoPid
    NoText = NoText
    Tiers = {"ebpf", "netlink", "polling"}
    MaxChanges = 2
    MaxScanFails = 1

    Socks <- MCSocks6
    OpenAtStart = {}
    BehindEbpf = {TRUE, FALSE}
    MaxOpens = 2
    MaxReadFails = 0

    EvtBatch = 2
    EvtRecords = 4
    RenderFails = 1

    RelayEvents = {e1, e2}
    Handlers = {h1, h2}
    NoEvent = NoEvent
    QueueSize = 1
    Attempts = 2
    MaxSends = 2

SPECIFICATION Spec

INVARIANT
    NetSurvivesBaseline
