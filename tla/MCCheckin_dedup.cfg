SPECIFICATION Spec
CONSTANTS
    Users = {u1}
    Devices = {d1}
    EventIds = {e1, e2, e3}
    Scores = {s1}
    None = None
    Window = 2
    Skew <- ApiClockBehind
    Handlers = {h1, h2}
    Workers = {w1}
    MaxRequests = 4
    MaxTime = 3
    MaxFaults = 1
SYMMETRY Symmetry
CHECK_DEADLOCK FALSE
INVARIANTS
    PipelineInv
    DedupSequential
    DedupBound
