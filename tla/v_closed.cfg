SPECIFICATION Spec
CONSTANTS
    f1 = f1
    f2 = f2
    Fps = {f1}
    NoGroup = NoGroup
    Keys = {k1, k2}
    Presses = {}
    Actions = {}
    Envelopes <- OneSubject
    MaxNow = 1
    MaxFaults = 0
    MaxSent = 2
    MaxReceive = 3
    NSteps = 1
    MaxRepeats = 0
    Paced = TRUE
INVARIANTS
    ClosedMeansResolved
CHECK_DEADLOCK FALSE
