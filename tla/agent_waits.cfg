\* A Gateway and its successors; a crash, a close, a cancel or a spent budget, twice.
SPECIFICATION FairSpec
CONSTANTS
    direct = direct
    costly = costly
    owner = owner
    key = key
    R = r1
    Run = {r1}
    Call = {direct, costly}
    Costly = {costly}
    Owner = {owner}
    OwnerOf <- OneOwner
    KeyOf <- OneKey
    RunOf <- OneRun
    Executor = {e1, e2, e3}
    Nobody = Nobody
    MaxTurns = 2
    Disturbance = {"crash", "close", "cancel", "budget"}
    Budget = 2
    Overlap = FALSE
PROPERTIES
    WaitingEnds
CHECK_DEADLOCK FALSE
