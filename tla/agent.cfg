\* One costly call and two Gateways; crashes, renewals that come too late and cancellations,
\* three in all.  (A direct call as well: agent_waits.)
SPECIFICATION Spec
CONSTANTS
    direct = direct
    costly = costly
    owner = owner
    key = key
    R = r1
    Run = {r1}
    Call = {costly}
    Costly = {costly}
    Owner = {owner}
    OwnerOf <- OneOwner
    KeyOf <- OneKey
    RunOf <- OneRun
    Executor = {e1, e2}
    Nobody = Nobody
    MaxTurns = 2
    Disturbance = {"crash", "cancel", "late"}
    Budget = 3
    Overlap = TRUE
INVARIANTS
    TypeOK
    ConsentBeforeCost
    ToolRunsOnce
    TurnBudget
PROPERTIES
    NothingAfterTheEnd
SYMMETRY Executors
CHECK_DEADLOCK FALSE
