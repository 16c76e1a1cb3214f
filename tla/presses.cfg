SPECIFICATION Spec
CONSTANTS
    f1 = f1
    f2 = f2
    Fps = {f1}
    NoGroup = NoGroup
    Keys = {k1}
    Presses = {p1, p2}
    Actions = {"ack", "resolve"}
    Envelopes <- OneSubject
    MaxNow = 0
    MaxFaults = 0
    MaxSent = 2
    MaxReceive = 3
    NSteps = 1
    MaxRepeats = 0
    Paced = TRUE
SYMMETRY PressSymmetry
INVARIANTS
    OneWinner
    AnswersAreTrue
    EveryChangeLogged
PROPERTIES
    ForwardOnly
CHECK_DEADLOCK FALSE
