CONSTANTS
    MaxGens = 2
    NSteps = 1
    w1 = w1
    w2 = w2
    c1 = c1
    c2 = c2
    Workers = {}
    Clients = {c1}
    MaxRequests = 4
    MaxTasks = 3
    MaxItems = 0
    Redeliveries = 1
    MaxRetries = 1
    Ops = {"generate", "pause", "resume"}
    Forces = {0}
    Faults = {}
SPECIFICATION Spec
INVARIANTS OneActive
CHECK_DEADLOCK FALSE
