SPECIFICATION Spec
CONSTANTS
    e1 = e1  e2 = e2  e3 = e3
    Events = {e1, e2, e3}
    Malformed = {}
    Invalid = {}
    MaxRetries = 2
    RetryDelay = 1
    MaxChannels = 1
SYMMETRY Symmetry
INVARIANTS
    NothingLost ListedHasConsumer OneOutcome RetryBudget
