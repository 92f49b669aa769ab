SPECIFICATION Spec
CONSTANTS
    Users = {u1}
    Devices = {d1, d2}
    EventIds = {e1, e2}
    Scores = {s1}
    None = None
    Window = 1
    Skew = 0
    Handlers = {h1, h2}
    Workers = {w1, w2}
    MaxRequests = 4
    MaxTime = 2
    MaxFaults = 1
SYMMETRY Symmetry
CHECK_DEADLOCK FALSE
INVARIANTS
    MessagesNameEvents
    AnswerMatchesRequest
PROPERTIES
    
    ImplementsLifecycle
