SPECIFICATION Spec
CONSTANTS
    MaxSeq = 3
    Levels = {0, 1}
    Period = 2
    Attempts = 2
    NoRequest = NoRequest
PROPERTIES
    UnlinkComesLate
    GivenBack
    LevelReported
    DropEnds
\* Nobody need plug a gamepad in again.
CHECK_DEADLOCK FALSE
