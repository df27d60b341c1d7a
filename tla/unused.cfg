SPECIFICATION FairSpec
CONSTANTS
    s1 = s1
    s2 = s2
    Nobody = Nobody
    Gpu = {1}
    Session = {s1}
    Want <- OneEach
    Partial = {}
    Persistent = TRUE
    LateRenewal = FALSE
    Disturbance = {"release", "idle", "silence", "renewError", "crash"}
    Budget = 3
INVARIANTS ConfirmedTokenIsLive
PROPERTIES UnusedLeasesEnd SilentSlotFails
CHECK_DEADLOCK FALSE
