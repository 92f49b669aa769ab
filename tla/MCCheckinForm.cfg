CONSTANTS
    good = good
    empty = empty
    Users = {u1}
    Devices = {d1, d2}
    EventIds = {e1, e2}
    Scores = {80, 90}
    None = None
    Window = 1
    Skew = 0
    Submissions = {s1, s2}
    Photos = {good, empty}
    Face <- TwoFaces
    MaxAttempts = 1
    MaxTime = 1
    MaxFaults = 1
    Calls = {c1, c2, c3}
SPECIFICATION FormSpec
SYMMETRY Symmetry
INVARIANTS DashboardInv TokenFitsDevice ImageOfSubmission PanelTruthful FormRecovers NoLostStream
CHECK_DEADLOCK FALSE
