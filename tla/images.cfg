\* Two images asked for, three sent, and any four disturbances.
SPECIFICATION FairSpec
CONSTANTS
    Generator = g
    Recoverer = r
    Nobody = Nobody
    Count = 2
    MaxImages = 3
    Disturbance = {"crash", "late", "cancel", "timeout", "events", "store", "disk", "delete"}
    Budget = 4
INVARIANTS
    TypeOK
    RowHasItsFile
    ResultIsComplete
PROPERTIES
    CallEnds
CHECK_DEADLOCK FALSE
