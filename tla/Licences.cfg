SPECIFICATION Spec
CONSTANTS
    Requests = {r1, r2}
    Versions = {v1, v2}
    Keys = {}
    NoKey = NoKey
    MaxPurchases = 2
    MaxTime = 1
SYMMETRY RequestsAndVersions
INVARIANTS
    RefundRevokes
PROPERTIES
    VersionMovesOnRequest
    EndedStaysEnded
