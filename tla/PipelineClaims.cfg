SPECIFICATION Spec
CONSTANTS
    d1 = d1  d2 = d2  d3 = d3  k1 = k1  k2 = k2
    Deliveries <- MCDeliveries
    Keys <- MCKeys
    KeyOf <- MCKeyOf
    InitialMiddlewares <- GuideOrder
    LateMiddlewares = {"retry"}
    MaxMiddlewares = 4
    MaxAttempts = 2
    CallbacksMayStop = FALSE
    StoreFaults = {"claim", "release"}
    Durable = TRUE
    MaxCrashes = 0
INVARIANTS
    MutualExclusion OnceAndKnown AttemptsBounded
PROPERTIES
    ReleasedByHolder
