SPECIFICATION Spec
CONSTANTS
    Requests = {r1, r2}
    Window = {1, 2}
    MaxStamps = 3
    MaxSessions = 2
    MaxTokens = 2
SYMMETRY AnyRequest
INVARIANTS
    ResetOnce
    OneKeyUnlessOverlapping
    ResetSignsOut
PROPERTIES
    FactorOnce
    FactorIsCurrent
