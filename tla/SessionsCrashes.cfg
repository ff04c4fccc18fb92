SPECIFICATION FairSpec
CONSTANTS
    Processes = {p1}
    Clients = {c1, c2}
    NoProcess = NoProcess
    o1 = o1
    o2 = o2
    Records = 3
    Orders <- TwoOrders
    SubmitAt <- LateSubmit
    FillAt <- BookFill
    FailingRecords = {}
    ProjectionInterval = 2
    MaxStarts = 3
    MaxFaults = 2
    MaxCrashes = 1
INVARIANTS
    EveryFillProjected
    TablesAgree
PROPERTIES
    StopOfRunningCompletes
