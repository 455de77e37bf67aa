SPECIFICATION Spec
CONSTANTS
    s1 = s1
    s2 = s2
    Sessions = {s1, s2}
    ProposalOf <- OwnProposals
    Workers = {w1}
    Requesters = {u1}
    NULL = NULL
    Faults = {"reload"}
    MaxFaults = 1
    MaxRequests = 0
INVARIANTS
    WritesSerialized
CHECK_DEADLOCK FALSE
