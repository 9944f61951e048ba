\* A host on which the socket can be bound and the subscription sent.
CONSTANTS
    Pids = {p1}
    Exes = {x1}
    Cmdlines = {a1}
    NoPid = NoPid
    NoText = NoText
    Tiers = {"netlink"}
    ExecCpus = {0, 4}
    MaxChanges = 1
    MaxScanFails = 0

SPECIFICATION NetlinkSpec

PROPERTY
    ProcNetlinkExecs
