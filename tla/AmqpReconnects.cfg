SPECIFICATION FairSpec
CONSTANTS
    e1 = e1  e2 = e2  e3 = e3
    Events = {e1, e2, e3}
    Malformed = {}
    Invalid = {e2}
    MaxRetries = 1
    RetryDelay = 1
    MaxChannels = 2
PROPERTIES
    EveryEventSettles QueueDrains
