SPECIFICATION Spec
CONSTANTS
    Publishes = {p1}
    Consumers = 2
    Events = 1
    MaxReconnects = 2
    MaxDials = 5
    MaxUpsets = 1
    Startup = Startup
    None = None
\* The calls end, and the kernel may make no more.
CHECK_DEADLOCK FALSE
INVARIANTS
    ConsumersResume
    OrphansNeedOverlap
PROPERTIES
    CallsSettle
