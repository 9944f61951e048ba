\* Messages of two events, three attempts.
SPECIFICATION Spec
CONSTANTS
    MaxEmbeds = 2
    Attempts = 3
    MaxEvents = 5
INVARIANTS
    TypeOK
    OnceInOrder
    NoneMislaid
PROPERTIES
    Flushed
