SPECIFICATION Spec
CONSTANTS
    s1 = s1
    s2 = s2
    Nobody = Nobody
    Gpu = {1}
    Session = {s1, s2}
    Want <- OneEach
    Partial = {}
    Persistent = TRUE
    LateRenewal = TRUE
    Disturbance = {"release", "idle", "silence", "renewError", "crash"}
    Budget = 1
SYMMETRY Sessions
INVARIANTS TypeOK ReleasedHoldsNoLease
 
CHECK_DEADLOCK FALSE
