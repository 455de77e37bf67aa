SPECIFICATION Spec
CONSTANTS
    Experiments = {e1}
    Keys = {k1}
    Clients = {c1}
    NULL = NULL
    MaxDepartures = 0
INVARIANTS
    AllowedActionsAccepted
CHECK_DEADLOCK FALSE
