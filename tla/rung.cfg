SPECIFICATION Spec
CONSTANTS
    Events <- MCEvents
    Removable <- MCRemovable
    Overrides <- MCOverrides
    MaxDay = 8
    Lookback = 4
    Lookahead = 4
    BatchSize = 2
    Throttled = TRUE
    attempts = 3
    HttpTimeout = 16
    MaxPrelude = 4
    MaxDeploys = 3
INVARIANTS
    RungType
    PagesWhomTheCalendarNames
    OverrideWins
    KilledOnlyByWaiting
    NeverDenied
    LocalStarts
CHECK_DEADLOCK FALSE
