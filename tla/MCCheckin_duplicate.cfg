SPECIFICATION Spec
CONSTANTS
    Users = {u1}
    Devices = {d1}
    EventIds = {e1, e2}
    Scores = {s1}
    None = None
    Window = 1
    Skew = 0
    Handlers = {h1, h2}
    Workers = {w1}
    MaxRequests = 3
    MaxTime = 1
    MaxFaults = 0
CHECK_DEADLOCK FALSE
INVARIANTS
    NoDuplicateInWindow
