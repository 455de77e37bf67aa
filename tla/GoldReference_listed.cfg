SPECIFICATION Spec
CONSTANTS
    Experiments = {e1}
    Contents = {h1, h2}
    Clients = {c1, c2}
    NULL = NULL
    MaxLabels = 2
    MaxPlans = 1
    MaxEvidenceReviews = 2
    MaxReviews = 2
    MaxReferences = 2
    MaxDay = 1
SYMMETRY Symmetry
INVARIANTS
    ListedCasesAreBound
\* Reviewers may stop asking, and every count is bounded.
CHECK_DEADLOCK FALSE
