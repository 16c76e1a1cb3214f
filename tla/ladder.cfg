SPECIFICATION Spec
CONSTANTS
    f1 = f1
    f2 = f2
    Fps = {f1}
    NoGroup = NoGroup
    Keys = {k1}
    Presses = {p1}
    Actions = {"ack"}
    Envelopes <- OneSubject
    MaxNow = 0
    MaxFaults = 2
    MaxSent = 1
    MaxReceive = 2
    NSteps = 1
    MaxRepeats = 2
    Paced = TRUE
INVARIANTS
    TypeOK
    LadderBounded
    EveryLevelIsPaged
    StoppedOnlyWhenHandled
PROPERTIES
    EachIncidentKeepsItsPromise
CHECK_DEADLOCK FALSE
