SPECIFICATION Spec
CONSTANTS
    Incidents = {1, 2}
    Severity <- MCSeverity
    Standing <- MCStanding
    Loads = {l1, l2}
    Rollups <- MCRollups
    Today = 2
    SLIWindowDays = 2
    Limit = 2
    MaxTime = 2
    MaxFailures = 1
    BEATS <- MCBeats
    REPEAT_EVERY = 180
    MAX_REPEATS = 2
    Speeds = {1, 6}
    StartSpeed = 6
    MaxElapsed = 725
    Visited <- MCVisited
    MaxCopies = 2
    Tabs = {t1, t2}
    MaxChoices = 2
INVARIANTS
    PagesType
    HeadlineIsHonest
    IndicatorsAgree
    ErrorIsReal
    HistoryIsOfTheClosed
    EachBeatOnce
    MarksTheReader
    CopiedIsTimed
PROPERTIES
    SameShape
    ChoiceFollows
    NoFlash
    PageConverges
    LadderRuns
CHECK_DEADLOCK FALSE
