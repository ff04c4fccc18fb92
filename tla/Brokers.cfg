SPECIFICATION Spec
CONSTANTS
    Requests = {r1, r2}
    Moments <- TwoMornings
    MaxTokens = 2
    MaxKeys = 2
    MaxAttempts = 2
SYMMETRY AnyRequest
INVARIANTS
    CredentialOpens
    ExpiryAgrees
PROPERTIES
    DisconnectForgets
