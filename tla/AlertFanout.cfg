\* Two channels: stdout (1) may hang for ever, ntfy (2) returns but fails.
SPECIFICATION Spec
CONSTANTS
    N = 2
    QCap = 1
    Min <- MCMin
    Severities <- MCSeverities
    Fallible = {2}
    Prompt = {2}
    MaxEvents = 3
PROPERTIES
    ImplementsDelivery
    DispatchReturns
    NoStarvation
