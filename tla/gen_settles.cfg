CONSTANTS
    MaxGens = 1
    NSteps = 2
    w1 = w1
    w2 = w2
    c1 = c1
    c2 = c2
    Workers = {w1}
    Clients = {c1}
    MaxRequests = 3
    MaxTasks = 3
    MaxItems = 0
    Redeliveries = 1
    MaxRetries = 1
    Ops = {"generate", "pause", "resume", "cancel", "view"}
    Forces = {0}
    Faults = {"step"}
SPECIFICATION FairSpec
INVARIANTS PendingHasTask
PROPERTIES EventuallySettles
CHECK_DEADLOCK FALSE
