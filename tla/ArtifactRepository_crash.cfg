SPECIFICATION Spec
CONSTANTS
    a1 = a1
    a2 = a2
    d1 = d1
    d2 = d2
    Artifacts = {a1, a2}
    Digests = {d1, d2}
    Actors = {alice}
    Clients = {c1, c2}
    MaxWait = 1
    Files <- SharedFiles
    References <- ChildNamesParent
    Protected = {}
    Window = 1
    NULL = NULL
    MaxTime = 2
    MaxRevision = 3
SYMMETRY Symmetry
INVARIANTS
    TypeOK
    CommittedBytesPresent
    ResumedCallAgrees
PROPERTIES
    ImplementsLifecycle
    DeadlineSeparates
\* Clients may stop calling, and calls stop at MaxTime and MaxRevision.
CHECK_DEADLOCK FALSE
