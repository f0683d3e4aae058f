SPECIFICATION FairSpec
CONSTANTS
    d1 = d1  d2 = d2  d3 = d3  k1 = k1  k2 = k2
    Deliveries <- PairDeliveries
    Keys <- PairKeys
    KeyOf <- PairKeyOf
    InitialMiddlewares <- RetryBothSides
    LateMiddlewares = {"correlation"}
    MaxMiddlewares = 4
    MaxAttempts = 2
    CallbacksMayStop = TRUE
    StoreFaults = {"commit"}
    Durable = FALSE
    MaxCrashes = 1
INVARIANTS
    NoSilentDrop
PROPERTIES
    ImplementsPromise EventuallyHandled
