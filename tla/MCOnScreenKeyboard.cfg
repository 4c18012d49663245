SPECIFICATION Spec
CONSTANTS
    HistoryLen = 1
    MaxClicks = 2
    MaxSession = 2
    MaxRun = 2
    MaxInbox = 2
    Hit = {"key", "close"}
INVARIANTS
    HistoryIsNewest
PROPERTIES
    TypedOnceInOrder
    TypedInItsSession
    Follows
\* Nobody need ever touch the controller again.
CHECK_DEADLOCK FALSE
