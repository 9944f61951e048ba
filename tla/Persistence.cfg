\* Crashes, rebaselining and changes, in any order.
SPECIFICATION Spec
CONSTANTS
    Items <- MCItems
    Surfaces <- MCSurfaces
    Absent = Absent
    Torn = Torn
    MaxEdits = 2
    MaxAudits = 1
    MaxStops = 1
INVARIANTS
    TypeOK
    Accounted
PROPERTIES
    RebaselineAdopted
    TransitionsOnly
    SweepDetects
