SPECIFICATION Spec
CONSTANTS
    Unit = 2
    PlainButtons = {"south"}
    Paddles = {"paddle"}
    ContactIds = 3
    Modes <- MCModes
    Reports <- MCReports
    Bound = {"up", "down", "LeftTrigger"}
    Percents = {100}
INVARIANTS
    HistoryIsForgotten
    EngagementIsFresh
PROPERTIES
    TouchpadOfTheMode
