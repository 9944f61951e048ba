\* Two monitors on a channel of one place, more keys than the map may hold.
SPECIFICATION Spec
CONSTANTS
    Cooldown = 2
    MapCap = 1
    Window = 2
    Levels <- MCLevels
    Rules <- MCRules
    FileRules <- MCRules
    SuspPorts = {4444}
    LogAll = FALSE
    Monitors = {"auth", "ebpf"}
    Emits <- MCEmits
    CtxAware = {"ebpf"}
    Sources = {"ip"}
    ChCap = 1
    MaxEvents = 3
    MaxTime = 3
INVARIANTS
    BoundsOK
    RepeatsSpaced
    MutedAfterAlert
    FindingsExact
PROPERTIES
    EventsHandled
