CONSTANTS
    r1 = r1
    r2 = r2
    c1 = c1
    c2 = c2
    tracing = tracing
    user = user
    health = health
    Runs = {r1, r2}
    Closes = {c1, c2}
    Items = {tracing, user, health}
    KindOf <- MCKindOf
    Default = Default
    None = None
SPECIFICATION Spec
CHECK_DEADLOCK FALSE
INVARIANTS
    PipelineInOrder
PROPERTIES
    ClosedIsDown
    CallsSettle
