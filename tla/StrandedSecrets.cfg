SPECIFICATION Spec
CONSTANTS
    Requests = {r1}
    Moments <- TwoMornings
    MaxTokens = 1
    MaxKeys = 2
    MaxAttempts = 1
INVARIANT SecretsOpen
