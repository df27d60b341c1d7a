SPECIFICATION Spec
CONSTANTS
    s1 = s1
    s2 = s2
    j1 = j1
    j2 = j2
    j3 = j3
    i1 = i1
    i2 = i2
    fast = fast
    hq = hq
    Nobody = Nobody
    Profile = {fast, hq}
    Session = {s1, s2}
    Job = {j1, j2, j3}
    Id = {i1, i2}
    IdOf <- Retry
    SpecOf <- OtherSpec
    SlotOf <- TwoAndOne
    Disturbance = {"failure", "death", "memory", "loadError", "lose", "cancel", "timeout", "crash", "stop"}
    Budget = 1
INVARIANTS TypeOK ResultIsOwn RightModel OneOutcome SuccessIsLast ReleaseWaitsForJob
PROPERTIES RunOnce
CHECK_DEADLOCK FALSE
