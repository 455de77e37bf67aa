SPECIFICATION Spec
CONSTANTS
    Experiments = {e1, e2}
    Keys = {k1, k2}
    Clients = {c1}
    NULL = NULL
    MaxDepartures = 1
SYMMETRY Interchangeable
INVARIANTS
    TypeOK
    JobsUnambiguous
    EntriesHaveReceipts
    QueueAgrees
    ReceiptsFollowTable
PROPERTIES
    ReceiptsAppendOnly
    ImplementsLedger
\* Experiments end in the archive.
CHECK_DEADLOCK FALSE
