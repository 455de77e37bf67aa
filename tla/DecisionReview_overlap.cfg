SPECIFICATION Spec
CONSTANTS
    Threads = {t1, t2}
    Actors = {alice, bob}
    Keys = {k1, k2}
    Choices = {"investigate", "reject"}
    MaxReviews = 3
SYMMETRY Symmetry
INVARIANTS
    TypeOK
    ReviewedOnce
    AnswersStayTrue
PROPERTIES
    ImplementsLedger
\* Reviewers may stop asking, and a final proposal takes no review.
CHECK_DEADLOCK FALSE
