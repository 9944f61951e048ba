\* Only first runs and what follows them.
SPECIFICATION Spec
CONSTANTS
    Items <- MCItems
    Surfaces <- MCSurfaces
    Absent = Absent
    Torn = Torn
    MaxEdits = 1
    MaxAudits = 0
    MaxStops = 0
PROPERTIES
    FirstRunSweeps
