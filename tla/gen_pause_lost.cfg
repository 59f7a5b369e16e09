CONSTANTS
    MaxGens = 1
    NSteps = 2
    w1 = w1
    w2 = w2
    c1 = c1
    c2 = c2
    Workers = {w1}
    Clients = {c1}
    MaxRequests = 2
    MaxTasks = 1
    MaxItems = 0
    Redeliveries = 1
    MaxRetries = 1
    Ops = {"generate", "pause"}
    Forces = {0}
    Faults = {}
SPECIFICATION Spec
PROPERTIES PauseIsNotLost
CHECK_DEADLOCK FALSE
