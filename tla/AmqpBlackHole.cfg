SPECIFICATION Spec
CONSTANTS
    e1 = e1  e2 = e2  e3 = e3
    Events = {e1, e2}
    Malformed = {}
    Invalid = {}
    MaxRetries = 1
    RetryDelay = 1
    MaxChannels = 2
INVARIANTS
    NothingDiscarded
