SPECIFICATION Spec
CONSTANTS
    Conns = {c1, c2}
    c1 = c1
    c2 = c2
    NoConn = NoConn
    QueueLen = 1
    BatchLen = 1
    MaxVersion = 1
    Scripts <- CallOrSubscribe
INVARIANTS
    ExecutedIsAnswered
    NoSilentClose
    PartsAreJoined
PROPERTIES
    KeepsPromise
    Settled
    Terminates
    LatestShown
\* The daemon ends.
CHECK_DEADLOCK FALSE
