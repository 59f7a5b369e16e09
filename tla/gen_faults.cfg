CONSTANTS
    MaxGens = 2
    NSteps = 2
    w1 = w1
    w2 = w2
    c1 = c1
    c2 = c2
    Workers = {w1}
    Clients = {c1}
    MaxRequests = 2
    MaxTasks = 2
    MaxItems = 1
    Redeliveries = 0
    MaxRetries = 0
    Ops = {"generate", "delete"}
    Forces = {0, 2}
    Faults = {"step", "publish", "setup", "enqueue", "worker", "scheduler", "client"}
SPECIFICATION Spec
INVARIANTS StepInputsReady NothingClaimedBeforePublish
CHECK_DEADLOCK FALSE
