SPECIFICATION FairSpec
CONSTANTS
    f1 = f1
    f2 = f2
    Fps = {f1}
    NoGroup = NoGroup
    Keys = {k1}
    Presses = {p1}
    Actions = {"ack"}
    Envelopes <- OneSubject
    MaxNow = 0
    MaxFaults = 1
    MaxSent = 2
    MaxReceive = 3
    NSteps = 1
    MaxRepeats = 0
    Paced = FALSE
PROPERTIES
    LadderEnds
    QueueDrains
    PressAnswered
    FiringIsPaged
CHECK_DEADLOCK FALSE
