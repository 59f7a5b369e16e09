CONSTANTS
    MaxGens = 2
    NSteps = 2
    w1 = w1
    w2 = w2
    c1 = c1
    c2 = c2
    Workers = {w1}
    Clients = {c1}
    MaxRequests = 0
    MaxTasks = 2
    MaxItems = 2
    Redeliveries = 1
    MaxRetries = 1
    Ops = {}
    Forces = {0}
    Faults = {"transient", "step", "enqueue"}
SPECIFICATION FairSpec
INVARIANTS SuccessIsComplete
PROPERTIES RetriesEnd DomainSettles FailedRunKeepsWork
CHECK_DEADLOCK FALSE
