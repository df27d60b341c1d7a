\* One job, retried after the Runner has reported a failure.
SPECIFICATION Spec
CONSTANTS
    j1 = j1
    s1 = s1
    c1 = c1
    Nobody = Nobody
    Job = {j1}
    Slot = {s1}
    ConversationOf <- OneConversation
    MaxActive = 1
    Retried = {j1}
    MaxAttempts = 2
    Disturbance = {}
    Budget = 0
INVARIANTS
    AttemptEndsByItself
CHECK_DEADLOCK FALSE
