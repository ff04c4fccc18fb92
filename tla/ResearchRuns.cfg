SPECIFICATION Spec
CONSTANTS
    Clients = {c1, c2}
    None = None
    Ids = {d1, d2}
    Contents = {dense, sparse}
    Sparse = {sparse}
    Settings = {1}
    Behaviours = {1, 2}
    MaxRuns = 1
    MaxAltered = 1
    MaxCrashes = 1
SYMMETRY RequestSymmetry
INVARIANTS
    VersionsComplete
    OnlyReviewed
    RanAsRecorded
CHECK_DEADLOCK FALSE
