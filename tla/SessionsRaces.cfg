SPECIFICATION Spec
CONSTANTS
    Processes = {p1, p2}
    Clients = {c1, c2}
    NoProcess = NoProcess
    o1 = o1
    o2 = o2
    Records = 2
    Orders <- TwoOrders
    SubmitAt <- NextBarSubmit
    FillAt <- NextBarFill
    FailingRecords = {2}
    ProjectionInterval = 2
    MaxStarts = 2
    MaxFaults = 1
    MaxCrashes = 0
SYMMETRY RequestSymmetry
INVARIANTS
    TypeOK
    ClaimedOnce
    RunningHasRunner
    AtMostOneMoreRecord
