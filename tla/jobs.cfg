\* Two jobs of one conversation and one slot; deleted frames, one other disturbance, one retry.
SPECIFICATION FairSpec
CONSTANTS
    j1 = j1
    j2 = j2
    s1 = s1
    c1 = c1
    Nobody = Nobody
    Job = {j1, j2}
    Slot = {s1}
    ConversationOf <- OneConversation
    MaxActive = 2
    Retried = {j1}
    MaxAttempts = 2
    Disturbance = {"crash", "dispatch", "cancel", "twice", "store", "asset", "timeout", "lose", "lease"}
    Budget = 1
INVARIANTS
    TypeOK
    ReservedOnce
PROPERTIES
    TerminalStays
    JobsEnd
    SlotsReturn
CHECK_DEADLOCK FALSE
