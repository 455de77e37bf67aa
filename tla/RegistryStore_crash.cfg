SPECIFICATION Spec
CONSTANTS
    Identities = {i1, i2}
    Observations = {o1, o2}
    Authors = {alice, bob}
    Publishable = {i1}
    Writers = {w1, w2}
    Readers = {r1}
    NULL = NULL
    MaxReceipts = 3
SYMMETRY Symmetry
INVARIANTS
    TypeOK
    CommittedPrefixReadable
    InterruptedIndexRetries
    ConflictMeansChange
PROPERTIES
    ImplementsLifecycle
    BatchesAppearWhole
    OnlyItsAuthorCommits
\* An item whose lifecycle is at its bound has no further request.
CHECK_DEADLOCK FALSE
