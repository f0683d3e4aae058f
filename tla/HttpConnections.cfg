SPECIFICATION Spec
CONSTANTS
    a = a  b = b
    s1 = s1  s2 = s2
    None = None
    Sockets = {s1, s2}
    Identities = {a, b}
    Paths = {"/ws", "/other"}
    WebsocketPaths = {"/ws"}
    ErrorHandlers <- ErrorHandlersOf
    Handlers <- HandlersOf
    Errors <- ErrorsOf
    Recipients <- RecipientsOf
    MaxAttached = 2
    MaxRequests = 1
    MaxRegistered = 2
    MaxBroadcasts = 2
CHECK_DEADLOCK FALSE
INVARIANTS
    HubMirrorsSockets SameStream FailuresAnswered
PROPERTIES
    CloseSettles
