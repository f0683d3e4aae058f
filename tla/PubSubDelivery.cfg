CONSTANTS
    p1 = p1
    h1 = h1
    h2 = h2
    s1 = s1
    s2 = s2
    s3 = s3
    Publishes = {p1}
    MaxHooks = 2
    Handlers = {h1, h2}
    Subscriptions = {s1, s2, s3}
    HandlerOf <- MCHandlerOf
    Gone = Gone
SPECIFICATION Spec
CHECK_DEADLOCK FALSE
INVARIANTS
    TypeOK
    ReachedExactly
    OpenIsSubscribed
    HooksComplete
PROPERTIES
    ClosedIsSilent
