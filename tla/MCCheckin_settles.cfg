SPECIFICATION FairSpec
CONSTANTS
    Users = {u1}
    Devices = {d1}
    EventIds = {e1, e2, e3}
    Scores = {s1}
    None = None
    Window = 1
    Skew = 0
    Handlers = {h1, h2}
    Workers = {w1}
    MaxRequests = 4
    MaxTime = 1
    MaxFaults = 0
CHECK_DEADLOCK FALSE
PROPERTIES
    EveryEventSettles
