SPECIFICATION FairSpec
CONSTANTS
    LastDay = 1
    MinutesPerDay = 2
    Threads = {t1, t2}
    Clients = {c1, c2}
    NULL = NULL
    MaxCloses = 2
INVARIANTS
    TypeOK
PROPERTIES
    ClockWaitsForReview
    RunningClockEnds
    CloseStopsThreads
\* A deleted session has no further step.
CHECK_DEADLOCK FALSE
