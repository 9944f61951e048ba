\* Sockets seen by the /proc/net poller.
SPECIFICATION EngineSpec
CONSTANTS
    Cooldown = 2
    MapCap = 4
    Window = 3
    Levels <- MCLevels
    Rules <- MCRules
    FileRules <- MCFileRules
    SuspPorts = {4444}
    Ports = {80, 4444}
    LogAll = FALSE
    Histories <- MCHistories
    Instant = 5
INVARIANT
    PollerEscalated
CHECK_DEADLOCK FALSE
