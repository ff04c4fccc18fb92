SPECIFICATION Spec
CONSTANTS
    Processes = {p1}
    Clients = {c1}
    NoProcess = NoProcess
    o1 = o1
    o2 = o2
    Records = 2
    Orders <- TwoOrders
    SubmitAt <- NextBarSubmit
    FillAt <- NextBarFill
    FailingRecords = {}
    ProjectionInterval = 2
    MaxStarts = 1
    MaxFaults = 0
    MaxCrashes = 0
PROPERTIES
    HaltedIsTerminal
