CONSTANTS
    MaxGens = 1
    NSteps = 3
    w1 = w1
    w2 = w2
    c1 = c1
    c2 = c2
    Workers = {w1, w2}
    Clients = {c1}
    MaxRequests = 3
    MaxTasks = 2
    MaxItems = 0
    Redeliveries = 1
    MaxRetries = 1
    Ops = {"generate", "pause", "resume"}
    Forces = {0}
    Faults = {"step"}
SPECIFICATION Spec
SYMMETRY Symmetry
INVARIANTS TypeOK StepInputsReady NothingClaimedBeforePublish
CHECK_DEADLOCK FALSE
