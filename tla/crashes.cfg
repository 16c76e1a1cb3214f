SPECIFICATION Spec
CONSTANTS
    f1 = f1
    f2 = f2
    Fps = {f1, f2}
    NoGroup = NoGroup
    Keys = {k1}
    Presses = {}
    Actions = {}
    Envelopes <- Mixed
    MaxNow = 1
    MaxFaults = 2
    MaxSent = 3
    MaxReceive = 2
    NSteps = 0
    MaxRepeats = 0
    Paced = TRUE
INVARIANTS
    OneOpenGroup
    TableFollowsSender
    ClosedMeansResolved
CHECK_DEADLOCK FALSE
