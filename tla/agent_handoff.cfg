\* One Gateway, nothing goes wrong.
SPECIFICATION FairSpec
CONSTANTS
    direct = direct
    costly = costly
    owner = owner
    key = key
    R = r1
    Run = {r1}
    Call = {direct, costly}
    Costly = {costly}
    Owner = {owner}
    OwnerOf <- OneOwner
    KeyOf <- OneKey
    RunOf <- OneRun
    Executor = {e1, e2}
    Nobody = Nobody
    MaxTurns = 2
    Disturbance = {}
    Budget = 0
    Overlap = FALSE
PROPERTIES
    ApprovedToolProceeds
CHECK_DEADLOCK FALSE
