SPECIFICATION FairSpec
CONSTANTS
    p1 = p1
    w1 = w1
    w2 = w2
    NoJob = NoJob
    Jobs = {j1}
    Clients = {c1, c2}
    Processes <- OneProcess
    Workers <- TwoWorkers
    Host <- BothOnOne
    RowLocks = TRUE
    MaxAttempts = 2
    MaxCancels = 2
    MaxFaults = 1
    MaxCrashes = 2
INVARIANTS
    ExclusiveWorker
    RunningHasWorker
    AttemptsBounded
    CompletedHasRun
PROPERTIES
    ImplementsQueue
    EveryJobEnds
CHECK_DEADLOCK FALSE
