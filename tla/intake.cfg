SPECIFICATION IntakeSpec
CONSTANTS
    MaxNotes = 2
    MaxFailures = 3
    HandlerTime = 2
    Patience = 3
    Gap = 2
    Window = 5
    WorkerTime = 1
    PollDelay = 5
    Visibility = 6
    MaxReceive = 3
INVARIANTS
    IntakeType
    NoOverlap
PROPERTIES
    CarriesOnceInOrder
    AcceptedIsHandled
CHECK_DEADLOCK FALSE
