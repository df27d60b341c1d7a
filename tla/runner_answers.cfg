SPECIFICATION LiveSpec
CONSTANTS
    s1 = s1
    s2 = s2
    j1 = j1
    j2 = j2
    j3 = j3
    i1 = i1
    i2 = i2
    fast = fast
    hq = hq
    Nobody = Nobody
    Profile = {fast, hq}
    Session = {s1}
    Job = {j1, j2}
    Id = {i1, i2}
    IdOf <- OneEach
    SpecOf <- SameSpec
    SlotOf <- FirstSlot
    Disturbance = {"failure", "death", "loadError", "memory", "crash", "stop"}
    Budget = 2
PROPERTIES JobsAreAnswered LoadsAreAnswered UnloadsAreAnswered
CHECK_DEADLOCK FALSE
