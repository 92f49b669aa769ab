SPECIFICATION Spec
CONSTANTS
    Keys = {k1, k2}
    Capacity = 2
    PerMinute = 2
    Minute = 3
    MaxTime = 7
    None = None
SYMMETRY Symmetry
INVARIANTS
    LimiterInv
    AdmissionBound
    DenialsEnd
