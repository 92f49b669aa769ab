SPECIFICATION Spec
CONSTANTS
    Keys = {k1}
    Capacity = 2
    PerMinute = 2
    Minute = 3
    MaxTime = 4
    None = None
INVARIANTS
    PerMinuteLimit
