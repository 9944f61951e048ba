\* Failed logins from one source, counted to both levels.
SPECIFICATION Spec
CONSTANTS
    Cooldown = 2
    MapCap = 2
    Window = 2
    Levels <- MCLevels
    Rules <- MCRules
    FileRules <- MCRules
    SuspPorts = {4444}
    LogAll = FALSE
    Monitors = {"auth"}
    Emits <- MCEmitsAuth
    CtxAware = {}
    Sources = {"ip"}
    ChCap = 1
    MaxEvents = 3
    MaxTime = 3
INVARIANT EscalationsAlerted
