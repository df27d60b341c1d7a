\* Two clients, two runs of one owner, one costly call; the second run is only created.
SPECIFICATION SqlSpec
CONSTANTS
    r1 = r1
    r2 = r2
    owner = owner
    key1 = key1
    key2 = key2
    thread = thread
    Run = {r1, r2}
    Call = {c1}
    Costly = {c1}
    Owner = {owner}
    OwnerOf <- OneOwner
    KeyOf <- TwoKeys
    RunOf <- FirstRun
    ThreadOf <- OneThread
    Executor = {e1, e2}
    Nobody = Nobody
    MaxTurns = 0
    Offered <- CreateSecond
    Client = {p1, p2}
INVARIANTS
    SqlTypeOK
    OneActiveRun
    EventsCommitInOrder
    NoDeadlock
PROPERTIES
    ImplementsRepository
SYMMETRY Symmetry
CHECK_DEADLOCK FALSE
