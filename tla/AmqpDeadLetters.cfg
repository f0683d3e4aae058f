SPECIFICATION DlxFairSpec
CONSTANTS
    e1 = e1  e2 = e2 e3 = e3
    c1 = c1  c2 = c2
    Events = {e1, e2, e3}
    Malformed = {}
    Invalid = {}
    MaxRetries <- NotConfigured
    RetryDelay = 1
    MaxChannels = 1
    Calls = {c1, c2}
    Requested <- RequestedOf
INVARIANTS
    LettersKept ResolvedTriedAll
PROPERTIES
    CallsSettle
