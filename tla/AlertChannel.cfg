\* One failing channel with a longer queue and more events.
SPECIFICATION Spec
CONSTANTS
    N = 1
    QCap = 2
    Min <- MCMinOne
    Severities <- MCSeverities
    Fallible = {1}
    Prompt = {1}
    MaxEvents = 5
INVARIANTS
    TypeOK
    SentInOrder
    FreshestKept
    CopiesBounded
PROPERTIES
    ImplementsDelivery
