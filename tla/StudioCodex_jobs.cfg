SPECIFICATION FairSpec
CONSTANTS
    s1 = s1
    s2 = s2
    Sessions = {s1, s2}
    ProposalOf <- OwnProposals
    Workers = {w1}
    Requesters = {u1}
    NULL = NULL
    Faults <- AllButReload
    MaxFaults = 1
    MaxRequests = 1
INVARIANTS
    TypeOK
    NoIdleQueue
    WritesSerializedUnlessOverlapped
    ReviewedIsQuiet
    RequestsVisible
PROPERTIES
    WorktreeShared
    JobsFinish
    RecoveredJobsFinish
\* All sessions may be finished, and a disturbed one may be stuck.
CHECK_DEADLOCK FALSE
